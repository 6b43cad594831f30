---------------------------- MODULE ChunkingProofs ---------------------------
(***************************************************************************)
(* The chunker makes pieces of any text, with any size and overlap, that   *)
(* become chunks. Three loops are followed one turn at a time: splitting   *)
(* on finer and finer separators, after which every piece fits the size    *)
(* and the first begins with a character that is not blank; packing the    *)
(* pieces again, of which Packed is the invariant; and listing what is     *)
(* stored by its numbers.                                                  *)
(*                                                                         *)
(* The same loops are followed once more for the letters: splitting cuts   *)
(* a text into pieces that spell it in order (Spells), and packing keeps   *)
(* of them a run in each chunk and all of them in the chunks together      *)
(* (Covered is the invariant).                                             *)
(***************************************************************************)
EXTENDS AlgorithmsProofs

-----------------------------------------------------------------------------
(* A text with a character that is no blank, and where its blanks end.     *)
Worded(s) == \E i \in 1..Len(s) : ~IsBlank(s[i])

Spans(s, a, b) ==
    /\ a \in 1..Len(s) /\ b \in a..Len(s)
    /\ ~IsBlank(s[a]) /\ ~IsBlank(s[b])
    /\ \A i \in 1..Len(s) : ~IsBlank(s[i]) => a <= i /\ i <= b

LEMMA RStripShape ==
    ASSUME NEW C, NEW s \in Seq(C)
    PROVE  /\ ~Worded(s) => RStrip(s) = <<>>
           /\ Worded(s) => \E b \in 1..Len(s) :
                /\ ~IsBlank(s[b]) /\ \A i \in 1..Len(s) : ~IsBlank(s[i]) => i <= b
                /\ RStrip(s) = SubSeq(s, 1, b)
  <1> DEFINE I == {i \in 1..Len(s) : ~IsBlank(s[i])}
  <1>1. RStrip(s) = SubSeq(s, 1, IF I # {} THEN Max(I) ELSE 0)
    BY DEF RStrip, SelectLastInSeq
  <1>2. CASE I = {}
    <2>1. RStrip(s) = SubSeq(s, 1, 0)
      BY <1>1, <1>2
    <2>2. SubSeq(s, 1, 0) = <<>>
      OBVIOUS
    <2> QED BY <1>2, <2>1, <2>2 DEF Worded
  <1>3. CASE I # {}
    <2>1. I \in SUBSET (1..Len(s)) /\ Len(s) \in Nat
      OBVIOUS
    <2>2. Max(I) \in I /\ \A i \in I : i <= Max(I)
      <3> HIDE DEF I
      <3> QED BY <1>3, <2>1, MaxOfSome
    <2>3. RStrip(s) = SubSeq(s, 1, Max(I))
      BY <1>1, <1>3
    <2> QED BY <1>3, <2>2, <2>3 DEF Worded
  <1> QED BY <1>2, <1>3

LEMMA StripShape ==
    ASSUME NEW C, NEW s \in Seq(C)
    PROVE  /\ ~Worded(s) => Strip(s) = <<>>
           /\ Worded(s) => \E a, b \in 1..Len(s) : Spans(s, a, b) /\ Strip(s) = SubSeq(s, a, b)
  <1> DEFINE I == {i \in 1..Len(s) : ~IsBlank(s[i])}
             first == IF I # {} THEN Min(I) ELSE 0
  <1>1. Strip(s) = IF first = 0 THEN <<>> ELSE RStrip(SubSeq(s, first, Len(s)))
    BY DEF Strip, SelectInSeq
  <1>2. CASE I = {}
    BY <1>1, <1>2 DEF Worded
  <1>3. CASE I # {}
    <2>1. I \in SUBSET (1..Len(s)) /\ Len(s) \in Nat
      OBVIOUS
    <2>2. Min(I) \in I /\ \A i \in I : Min(I) <= i
      <3> HIDE DEF I
      <3> QED BY <1>3, <2>1, MinOfSome
    <2>3. PICK a \in 1..Len(s) : a = Min(I)
      BY <2>2
    <2>4. ~IsBlank(s[a]) /\ \A i \in 1..Len(s) : ~IsBlank(s[i]) => a <= i
      BY <2>2, <2>3
    <2>5. Strip(s) = RStrip(SubSeq(s, a, Len(s)))
      BY <1>1, <1>3, <2>3
    <2> DEFINE t == SubSeq(s, a, Len(s))
               n == Len(s)
    <2>6. a \in 1..n + 1 /\ n \in a - 1..n
      OBVIOUS
    <2>7. t \in Seq(C) /\ Len(t) = n - a + 1 /\ \A i \in 1..n - a + 1 : t[i] = s[a + i - 1]
      BY <2>6, SubSeqShape
    <2> HIDE DEF t, I
    <2>8. 1 \in 1..Len(t) /\ ~IsBlank(t[1])
      BY <2>4, <2>7
    <2>9. PICK e \in 1..Len(t) :
                /\ ~IsBlank(t[e]) /\ \A i \in 1..Len(t) : ~IsBlank(t[i]) => i <= e
                /\ RStrip(t) = SubSeq(t, 1, e)
      <3>1. Worded(t)
        BY <2>8 DEF Worded
      <3> QED BY <2>7, <3>1, RStripShape
    <2>10. PICK b \in a..n : b = a + e - 1
      BY <2>7
    <2>11. ~IsBlank(s[b])
      BY <2>7, <2>9, <2>10
    <2>12. ASSUME NEW i \in 1..n, ~IsBlank(s[i]) PROVE i <= b
      <3>1. a <= i
        BY <2>4, <2>12
      <3>2. i - a + 1 \in 1..Len(t) /\ t[i - a + 1] = s[i]
        BY <2>7, <3>1
      <3>3. i - a + 1 <= e
        BY <2>9, <2>12, <3>2
      <3> QED BY <2>10, <3>3
    <2>13. SubSeq(t, 1, e) = SubSeq(s, a, b)
      <3>1. 1 \in 1..Len(t) + 1 /\ e \in 1 - 1..Len(t) /\ b \in a - 1..Len(s)
        OBVIOUS
      <3> DEFINE p == SubSeq(t, 1, e)
                 q == SubSeq(s, a, b)
      <3>2. p \in Seq(C) /\ Len(p) = e /\ \A i \in 1..e : p[i] = t[i]
        BY <2>7
      <3>3. q \in Seq(C) /\ Len(q) = b - a + 1 /\ \A i \in 1..b - a + 1 : q[i] = s[a + i - 1]
        BY <2>6, <3>1, SubSeqShape
      <3> HIDE DEF p, q
      <3>4. Len(p) = Len(q) /\ e \in Nat /\ e = b - a + 1
        BY <2>10, <3>2, <3>3
      <3>6. ASSUME NEW i \in 1..e PROVE p[i] = q[i]
        <4>1. p[i] = t[i] /\ i \in 1..n - a + 1
          BY <2>7, <3>2
        <4>2. t[i] = s[a + i - 1]
          BY <2>7, <4>1
        <4>3. q[i] = s[a + i - 1]
          BY <3>3, <3>4
        <4> QED BY <4>1, <4>2, <4>3
      <3>5. p = q
        BY <3>2, <3>3, <3>4, <3>6, SameSeq
      <3> QED BY <3>5 DEF p, q
    <2>14. Spans(s, a, b)
      BY <2>4, <2>10, <2>11, <2>12 DEF Spans
    <2>15. Strip(s) = SubSeq(s, a, b) /\ b \in 1..Len(s)
      BY <2>5, <2>9, <2>10, <2>13 DEF t
    <2>16. Worded(s)
      BY <2>4 DEF Worded
    <2> QED BY <2>14, <2>15, <2>16
  <1> QED BY <1>2, <1>3

LEMMA StripFacts ==
    ASSUME NEW C, NEW s \in Seq(C)
    PROVE  /\ Strip(s) \in Seq(C) /\ Len(Strip(s)) <= Len(s)
           /\ ~Worded(s) => Strip(s) = <<>>
           /\ Worded(s) => /\ Worded(Strip(s)) /\ Len(Strip(s)) > 0
                           /\ ~IsBlank(Strip(s)[1]) /\ ~IsBlank(Strip(s)[Len(Strip(s))])
  <1>1. CASE ~Worded(s)
    <2>1. Strip(s) = <<>>
      BY <1>1, StripShape
    <2> QED BY <1>1, <2>1
  <1>2. CASE Worded(s)
    <2>1. PICK a, b \in 1..Len(s) : Spans(s, a, b) /\ Strip(s) = SubSeq(s, a, b)
      BY <1>2, StripShape
    <2>2. a <= b /\ ~IsBlank(s[a]) /\ ~IsBlank(s[b])
      BY <2>1 DEF Spans
    <2>3. a \in 1..Len(s) + 1 /\ b \in a - 1..Len(s)
      BY <2>2
    <2> DEFINE t == Strip(s)
    <2>4. t \in Seq(C) /\ Len(t) = b - a + 1 /\ \A i \in 1..b - a + 1 : t[i] = s[a + i - 1]
      BY <2>1, <2>3, SubSeqShape
    <2> HIDE DEF t
    <2>5. 1 \in 1..Len(t) /\ Len(t) \in 1..Len(t) /\ Len(t) <= Len(s) /\ Len(t) > 0
      BY <2>2, <2>4
    <2>6. t[1] = s[a] /\ t[Len(t)] = s[b]
      BY <2>2, <2>4, <2>5
    <2>7. Worded(t)
      BY <2>2, <2>5, <2>6 DEF Worded
    <2> QED BY <1>2, <2>2, <2>4, <2>5, <2>6, <2>7 DEF t
  <1> QED BY <1>1, <1>2

(* Two pieces that are joined by a space. *)
LEMMA SpacedShape ==
    ASSUME NEW C, NEW c \in Seq(C), NEW f \in Seq(C), Space \in C
    PROVE  LET s == c \o <<Space>> \o f
           IN  /\ s \in Seq(C) /\ Len(s) = Len(c) + 1 + Len(f)
               /\ \A i \in 1..Len(c) : s[i] = c[i]
               /\ s[Len(c) + 1] = Space
               /\ \A i \in 1..Len(f) : s[Len(c) + 1 + i] = f[i]
  <1> DEFINE g == c \o <<Space>>
  <1>1. <<Space>> \in Seq(C) /\ Len(<<Space>>) = 1 /\ <<Space>>[1] = Space
    OBVIOUS
  <1>2. /\ g \in Seq(C) /\ Len(g) = Len(c) + 1 /\ g[Len(c) + 1] = Space
        /\ \A i \in 1..Len(c) : g[i] = c[i]
    BY <1>1
  <1> HIDE DEF g
  <1>3. /\ g \o f \in Seq(C) /\ Len(g \o f) = Len(g) + Len(f)
        /\ \A i \in 1..Len(g) : (g \o f)[i] = g[i]
        /\ \A i \in 1..Len(f) : (g \o f)[Len(g) + i] = f[i]
    BY <1>2
  <1>4. \A i \in 1..Len(c) : i \in 1..Len(g)
    BY <1>2
  <1>5. Len(c) + 1 \in 1..Len(g)
    BY <1>2
  <1> QED BY <1>2, <1>3, <1>4, <1>5 DEF g

Trimmed(x) == x = <<>> \/ (~IsBlank(x[1]) /\ ~IsBlank(x[Len(x)]))

LEMMA StripJoins ==
    ASSUME NEW C, NEW c \in Seq(C), NEW f \in Seq(C), Space \in C
    PROVE  LET t == Strip(c \o <<Space>> \o f)
           IN  /\ t \in Seq(C) /\ Len(t) <= Len(c) + 1 + Len(f)
               /\ Worded(c) \/ Worded(f) => Worded(t)
               /\ c = <<>> => Len(t) <= Len(f)
               /\ ~Worded(f) => Len(t) <= Len(c)
               /\ IsPrefix(Strip(c), t)
               /\ \A x \in Seq(C) : IsPrefix(x, c) /\ Trimmed(x) => IsPrefix(x, t)
  <1> DEFINE s == c \o <<Space>> \o f
             t == Strip(s)
  <1>1. /\ s \in Seq(C) /\ Len(s) = Len(c) + 1 + Len(f)
        /\ \A i \in 1..Len(c) : s[i] = c[i]
        /\ s[Len(c) + 1] = Space
        /\ \A i \in 1..Len(f) : s[Len(c) + 1 + i] = f[i]
    BY SpacedShape
  <1>2. IsBlank(Space)
    BY DEF Space, Char, IsBlank
  <1> HIDE DEF s
  <1>3. /\ t \in Seq(C) /\ Len(t) <= Len(s) /\ (~Worded(s) => t = <<>>)
        /\ Worded(s) => Worded(t)
    BY <1>1, StripFacts
  <1>4. Worded(c) => Worded(s)
    BY <1>1 DEF Worded
  <1>5. Worded(f) => Worded(s)
    <2> SUFFICES ASSUME NEW i \in 1..Len(f), ~IsBlank(f[i]) PROVE Worded(s)
      BY DEF Worded
    <2>1. Len(c) + 1 + i \in 1..Len(s) /\ s[Len(c) + 1 + i] = f[i]
      BY <1>1
    <2> QED BY <2>1 DEF Worded
  <1>6. CASE ~Worded(s)
    <2>1. t = <<>> /\ ~Worded(c) /\ ~Worded(f)
      BY <1>3, <1>4, <1>5, <1>6
    <2>2. Strip(c) = <<>>
      BY <2>1, StripFacts
    <2>3. IsPrefix(<<>>, t)
      BY <1>3, EmptyIsPrefix
    <2>4. ASSUME NEW x \in Seq(C), IsPrefix(x, c), Trimmed(x) PROVE IsPrefix(x, t)
      <3>1. CASE x = <<>>
        BY <2>3, <3>1
      <3>2. CASE x # <<>>
        <4>1. Len(x) >= 1 /\ Len(x) <= Len(c) /\ x[1] = c[1] /\ 1 \in 1..Len(c)
          BY <2>4, <3>2, PrefixIs
        <4> QED BY <2>1, <2>4, <3>2, <4>1 DEF Worded, Trimmed
      <3> QED BY <3>1, <3>2
    <2>5. Len(t) = 0
      BY <2>1
    <2> HIDE DEF t
    <2> QED BY <1>3, <2>1, <2>2, <2>3, <2>4, <2>5 DEF s, t
  <1>7. CASE Worded(s)
    <2>1. PICK a, b \in 1..Len(s) : Spans(s, a, b) /\ t = SubSeq(s, a, b)
      BY <1>1, <1>7, StripShape
    <2>2. /\ a <= b /\ ~IsBlank(s[a]) /\ ~IsBlank(s[b])
          /\ \A i \in 1..Len(s) : ~IsBlank(s[i]) => a <= i /\ i <= b
      BY <2>1 DEF Spans
    <2>3. a \in 1..Len(s) + 1 /\ b \in a - 1..Len(s)
      BY <2>2
    <2>4. Len(t) = b - a + 1 /\ \A i \in 1..b - a + 1 : t[i] = s[a + i - 1]
      BY <1>1, <2>1, <2>3, SubSeqShape
    <2> HIDE DEF t
    <2>5. ASSUME c = <<>> PROVE Len(t) <= Len(f)
      <3>1. Len(c) = 0 /\ s[1] = Space /\ a # 1
        BY <1>1, <1>2, <2>2, <2>5
      <3> QED BY <1>1, <2>4, <3>1
    <2>6. ASSUME ~Worded(f) PROVE Len(t) <= Len(c)
      <3>1. \A i \in 1..Len(f) : IsBlank(f[i])
        BY <2>6 DEF Worded
      <3>2. b <= Len(c)
        <4> SUFFICES ASSUME b > Len(c) PROVE FALSE
          OBVIOUS
        <4>1. CASE b = Len(c) + 1
          BY <1>1, <1>2, <2>2, <4>1
        <4>2. CASE b > Len(c) + 1
          <5>1. PICK i \in 1..Len(f) : b = Len(c) + 1 + i
            <6>1. b - Len(c) - 1 \in 1..Len(f) /\ b = Len(c) + 1 + (b - Len(c) - 1)
              BY <1>1, <4>2
            <6> QED BY <6>1
          <5> QED BY <1>1, <2>2, <3>1, <5>1
        <4> QED BY <4>1, <4>2
      <3> QED BY <2>4, <3>2
    <2>7. IsPrefix(Strip(c), t)
      <3>1. CASE ~Worded(c)
        <4>1. Strip(c) = <<>>
          BY <3>1, StripFacts
        <4> QED BY <1>3, <4>1, EmptyIsPrefix
      <3>2. CASE Worded(c)
        <4>1. PICK d, e \in 1..Len(c) : Spans(c, d, e) /\ Strip(c) = SubSeq(c, d, e)
          BY <3>2, StripShape
        <4>2. /\ d <= e /\ ~IsBlank(c[d]) /\ ~IsBlank(c[e])
              /\ \A i \in 1..Len(c) : ~IsBlank(c[i]) => d <= i /\ i <= e
          BY <4>1 DEF Spans
        <4>3. d \in 1..Len(c) + 1 /\ e \in d - 1..Len(c)
          BY <4>2
        <4> DEFINE q == Strip(c)
        <4>4. q \in Seq(C) /\ Len(q) = e - d + 1 /\ \A i \in 1..e - d + 1 : q[i] = c[d + i - 1]
          BY <4>1, <4>3, SubSeqShape
        <4> HIDE DEF q
        <4>5. a <= d /\ e <= b
          BY <1>1, <2>2, <4>2
        <4>6. a = d
          <5>1. a \in 1..Len(c) /\ s[a] = c[a]
            BY <1>1, <4>5
          <5> QED BY <2>2, <4>2, <4>5, <5>1
        <4>7. ASSUME NEW i \in 1..Len(q) PROVE q[i] = t[i]
          <5>1. q[i] = c[d + i - 1] /\ d + i - 1 \in 1..Len(c)
            BY <4>2, <4>4
          <5>2. t[i] = s[a + i - 1]
            BY <2>4, <4>4, <4>5, <4>6
          <5> QED BY <1>1, <4>6, <5>1, <5>2
        <4>8. Len(q) <= Len(t)
          BY <2>4, <4>4, <4>5, <4>6
        <4>9. IsPrefix(q, t)
          BY <1>3, <4>4, <4>7, <4>8, PrefixIs
        <4> QED BY <4>9 DEF q
      <3> QED BY <3>1, <3>2
    <2>8. ASSUME NEW x \in Seq(C), IsPrefix(x, c), Trimmed(x) PROVE IsPrefix(x, t)
      <3>1. Len(x) <= Len(c) /\ \A i \in 1..Len(x) : x[i] = c[i]
        BY <2>8, PrefixIs
      <3>2. CASE x = <<>>
        BY <1>3, <3>2, EmptyIsPrefix
      <3>3. CASE x # <<>>
        <4>1. /\ Len(x) \in 1..Len(x) /\ 1 \in 1..Len(x)
              /\ ~IsBlank(x[1]) /\ ~IsBlank(x[Len(x)])
          BY <2>8, <3>3 DEF Trimmed
        <4>2. s[1] = x[1] /\ s[Len(x)] = x[Len(x)] /\ 1 \in 1..Len(s) /\ Len(x) \in 1..Len(s)
          BY <1>1, <3>1, <4>1
        <4>3. a = 1 /\ Len(x) <= b
          BY <2>2, <4>1, <4>2
        <4>4. ASSUME NEW i \in 1..Len(x) PROVE x[i] = t[i]
          <5>1. x[i] = c[i] /\ i \in 1..Len(c)
            BY <3>1
          <5>2. t[i] = s[i]
            BY <2>4, <4>3
          <5> QED BY <1>1, <5>1, <5>2
        <4>5. Len(x) <= Len(t)
          BY <2>4, <4>3
        <4> QED BY <1>3, <4>4, <4>5, PrefixIs
      <3> QED BY <3>2, <3>3
    <2> QED BY <1>1, <1>3, <1>7, <2>5, <2>6, <2>7, <2>8 DEF s, t
  <1> QED BY <1>6, <1>7

-----------------------------------------------------------------------------
(* _tail *)
LEMMA CarriedShape ==
    ASSUME NEW C, NEW s \in Seq(C), NEW overlap \in Nat
    PROVE  /\ Carried(s, overlap) = LastOf(s, overlap)
           /\ Carried(s, overlap) \in Seq(C) /\ Len(Carried(s, overlap)) <= overlap
           /\ overlap = 0 => Carried(s, overlap) = <<>>
           /\ overlap > 0 /\ Len(s) > 0 /\ ~IsBlank(s[Len(s)]) => Worded(Carried(s, overlap))
  <1> DEFINE n == Len(s)
             a == IF n > overlap THEN n - overlap + 1 ELSE 1
             t == SubSeq(s, a, n)
  <1>1. Carried(s, overlap) = t /\ LastOf(s, overlap) = t
    BY DEF Carried, LastOf
  <1>2. a \in 1..n + 1 /\ n \in a - 1..n /\ n - a + 1 <= overlap
    OBVIOUS
  <1>3. t \in Seq(C) /\ Len(t) = n - a + 1 /\ \A i \in 1..n - a + 1 : t[i] = s[a + i - 1]
    <2> HIDE DEF a
    <2> QED BY <1>2, SubSeqShape
  <1>4. ASSUME overlap > 0, n > 0 PROVE Len(t) \in 1..n - a + 1 /\ t[Len(t)] = s[n]
    <2>1. n - a + 1 >= 1
      BY <1>4
    <2> HIDE DEF a, t
    <2> QED BY <1>2, <1>3, <2>1
  <1>5. overlap = 0 => Len(t) = 0
    <2> HIDE DEF t
    <2> QED BY <1>2, <1>3
  <1> HIDE DEF t, a
  <1>6. overlap > 0 /\ n > 0 /\ ~IsBlank(s[n]) => Worded(t)
    BY <1>3, <1>4 DEF Worded
  <1> QED BY <1>1, <1>2, <1>3, <1>5, <1>6

(* A chunk begins with the end of the one before it. *)
Carries(c, d, overlap) == IsPrefix(Strip(LastOf(c, overlap)), d)

Fits(c, size, overlap) == Worded(c) /\ Len(c) <= size + overlap + 1

(* What the loop of _merge_with_overlap keeps from its first turn on: the  *)
(* current piece is not blank, and where it exceeds the size it is for     *)
(* what was carried over, and stripped.                                    *)
ChunksFit(chunks, size, overlap) ==
    /\ \A i \in 1..Len(chunks) : Fits(chunks[i], size, overlap)
    /\ \A i \in 1..Len(chunks) - 1 : Carries(chunks[i], chunks[i + 1], overlap)

Packed(m, size, overlap) ==
    /\ ChunksFit(m.chunks, size, overlap)
    /\ Fits(m.current, size, overlap)
    /\ \/ Len(m.current) <= size
       \/ overlap > 0 /\ ~IsBlank(m.current[Len(m.current)])
    /\ Len(m.chunks) > 0 => Carries(m.chunks[Len(m.chunks)], m.current, overlap)

Packings(C) == [chunks : Seq(Seq(C)), current : Seq(C)]

LEMMA StartPacks ==
    ASSUME NEW C, NEW size \in Nat, NEW overlap \in Nat, NEW f \in Seq(C),
           Len(f) <= size, Worded(f)
    PROVE  LET m == Merged([chunks |-> <<>>, current |-> <<>>], f, size, overlap)
           IN  m \in Packings(C) /\ Packed(m, size, overlap)
  <1>1. Merged([chunks |-> <<>>, current |-> <<>>], f, size, overlap)
            = [chunks |-> <<>>, current |-> f]
    BY DEF Merged
  <1>2. <<>> \in Seq(Seq(C)) /\ Len(<<>>) = 0
    OBVIOUS
  <1>3. [chunks |-> <<>>, current |-> f] \in Packings(C)
    BY <1>2 DEF Packings
  <1>4. Packed([chunks |-> <<>>, current |-> f], size, overlap)
    BY <1>2 DEF Packed, ChunksFit, Fits
  <1> QED BY <1>1, <1>3, <1>4

LEMMA ChunksGrow ==
    ASSUME NEW C, NEW size \in Nat, NEW overlap \in Nat, NEW chunks \in Seq(Seq(C)),
           NEW c \in Seq(C), ChunksFit(chunks, size, overlap), Fits(c, size, overlap),
           Len(chunks) > 0 => Carries(chunks[Len(chunks)], c, overlap)
    PROVE  /\ Append(chunks, c) \in Seq(Seq(C)) /\ Len(Append(chunks, c)) = Len(chunks) + 1
           /\ Append(chunks, c)[Len(chunks) + 1] = c
           /\ ChunksFit(Append(chunks, c), size, overlap)
  <1> DEFINE d == Append(chunks, c)
             n == Len(chunks)
  <1>1. /\ d \in Seq(Seq(C)) /\ Len(d) = n + 1 /\ d[n + 1] = c /\ n \in Nat
        /\ \A i \in 1..n : d[i] = chunks[i]
    OBVIOUS
  <1> HIDE DEF d
  <1>2. ASSUME NEW i \in 1..n + 1 PROVE Fits(d[i], size, overlap)
    <2>1. CASE i = n + 1
      BY <1>1, <2>1
    <2>2. CASE i # n + 1
      <3>1. i \in 1..n
        BY <1>1, <2>2
      <3> QED BY <1>1, <3>1 DEF ChunksFit
    <2> QED BY <2>1, <2>2
  <1>3. ASSUME NEW i \in 1..n PROVE Carries(d[i], d[i + 1], overlap)
    <2>1. CASE i = n
      <3>1. d[i] = chunks[n] /\ d[i + 1] = c /\ n > 0
        BY <1>1, <2>1
      <3> QED BY <3>1
    <2>2. CASE i # n
      <3>1. i \in 1..n - 1 /\ i + 1 \in 1..n
        BY <1>1, <2>2
      <3>2. d[i] = chunks[i] /\ d[i + 1] = chunks[i + 1]
        BY <1>1, <3>1
      <3> QED BY <3>1, <3>2 DEF ChunksFit
    <2> QED BY <2>1, <2>2
  <1>4. ChunksFit(d, size, overlap)
    BY <1>1, <1>2, <1>3 DEF ChunksFit
  <1> QED BY <1>1, <1>4 DEF d

LEMMA MergedPacks ==
    ASSUME NEW C, Space \in C, NEW size \in Nat, NEW overlap \in Nat,
           NEW m \in Packings(C), Packed(m, size, overlap), NEW f \in Seq(C), Len(f) <= size
    PROVE  /\ Merged(m, f, size, overlap) \in Packings(C)
           /\ Packed(Merged(m, f, size, overlap), size, overlap)
  <1> DEFINE c == m.current
             joined == Strip(c \o <<Space>> \o f)
             tail == Carried(c, overlap)
             next == Strip(tail \o <<Space>> \o f)
  <1>1. /\ m.chunks \in Seq(Seq(C)) /\ c \in Seq(C) /\ m = [chunks |-> m.chunks, current |-> c]
    BY DEF Packings
  <1>2. /\ ChunksFit(m.chunks, size, overlap) /\ Fits(c, size, overlap) /\ Worded(c)
        /\ Len(c) <= size \/ (overlap > 0 /\ ~IsBlank(c[Len(c)]))
        /\ Len(m.chunks) > 0 => Carries(m.chunks[Len(m.chunks)], c, overlap)
    BY DEF Packed, Fits
  <1>3. c # <<>> /\ Len(c) > 0
    BY <1>1, <1>2 DEF Worded
  <1>4. /\ joined \in Seq(C) /\ Worded(joined)
        /\ ~Worded(f) => Len(joined) <= Len(c)
        /\ \A x \in Seq(C) : IsPrefix(x, c) /\ Trimmed(x) => IsPrefix(x, joined)
    BY <1>1, <1>2, StripJoins
  <1>5. CASE Len(joined) <= size
    <2>1. Merged(m, f, size, overlap) = [chunks |-> m.chunks, current |-> joined]
      BY <1>1, <1>3, <1>5 DEF Merged
    <2> HIDE DEF joined
    <2>2. [chunks |-> m.chunks, current |-> joined] \in Packings(C)
      BY <1>1, <1>4 DEF Packings
    <2>3. ASSUME Len(m.chunks) > 0
          PROVE  Carries(m.chunks[Len(m.chunks)], joined, overlap)
      <3> DEFINE l == m.chunks[Len(m.chunks)]
                 x == Strip(LastOf(l, overlap))
      <3>1. l \in Seq(C)
        BY <1>1, <2>3
      <3>2. LastOf(l, overlap) \in Seq(C)
        <4> HIDE DEF l
        <4> QED BY <3>1, CarriedShape
      <3>3. x \in Seq(C) /\ Trimmed(x)
        <4> DEFINE y == LastOf(l, overlap)
        <4> HIDE DEF y
        <4>1. Strip(y) \in Seq(C) /\ Trimmed(Strip(y))
          BY <3>2, StripFacts DEF Trimmed, y
        <4> QED BY <4>1 DEF y
      <3>4. IsPrefix(x, c)
        BY <1>2, <2>3 DEF Carries
      <3>5. IsPrefix(x, joined)
        <4> HIDE DEF x
        <4> QED BY <1>4, <3>3, <3>4
      <3> QED BY <3>5 DEF Carries
    <2>4. Len(joined) <= size + overlap + 1
      BY <1>4, <1>5
    <2>5. Packed([chunks |-> m.chunks, current |-> joined], size, overlap)
      BY <1>2, <1>4, <1>5, <2>3, <2>4 DEF Packed, Fits
    <2> QED BY <2>1, <2>2, <2>5
  <1>6. CASE ~(Len(joined) <= size)
    <2>1. Merged(m, f, size, overlap) = [chunks |-> Append(m.chunks, c), current |-> next]
      BY <1>1, <1>3, <1>6 DEF Merged
    <2>2. /\ tail = LastOf(c, overlap) /\ tail \in Seq(C) /\ Len(tail) <= overlap
          /\ overlap = 0 => tail = <<>>
          /\ overlap > 0 /\ ~IsBlank(c[Len(c)]) => Worded(tail)
      BY <1>1, <1>3, CarriedShape
    <2> HIDE DEF joined, tail
    <2>3. /\ next \in Seq(C) /\ Len(next) <= Len(tail) + 1 + Len(f)
          /\ Worded(tail) \/ Worded(f) => Worded(next)
          /\ tail = <<>> => Len(next) <= Len(f)
          /\ IsPrefix(Strip(tail), next)
      BY <2>2, StripJoins
    <2>4. Worded(f) \/ Worded(tail)
      <3> SUFFICES ASSUME ~Worded(f) PROVE Worded(tail)
        OBVIOUS
      <3>1. ~(Len(c) <= size)
        BY <1>1, <1>4, <1>6
      <3> QED BY <1>2, <2>2, <3>1
    <2>5. Worded(next) /\ Len(next) > 0 /\ ~IsBlank(next[Len(next)])
      <3>1. tail \o <<Space>> \o f \in Seq(C)
        BY <2>2, SpacedShape
      <3>2. Worded(next)
        BY <2>3, <2>4
      <3> DEFINE y == tail \o <<Space>> \o f
      <3> HIDE DEF y
      <3>3. Worded(Strip(y)) => Worded(y)
        <4>1. ~Worded(y) => Strip(y) = <<>>
          BY <3>1, StripFacts DEF y
        <4>2. ~Worded(<<>>)
          BY DEF Worded
        <4> QED BY <4>1, <4>2
      <3>4. Worded(y) => Len(Strip(y)) > 0 /\ ~IsBlank(Strip(y)[Len(Strip(y))])
        BY <3>1, StripFacts DEF y
      <3> QED BY <3>2, <3>3, <3>4 DEF y
    <2>6. Len(next) <= size + overlap + 1 /\ (Len(next) <= size \/ overlap > 0)
      BY <2>2, <2>3
    <2> HIDE DEF next
    <2>7. /\ Append(m.chunks, c) \in Seq(Seq(C))
          /\ Len(Append(m.chunks, c)) = Len(m.chunks) + 1
          /\ Append(m.chunks, c)[Len(m.chunks) + 1] = c
          /\ ChunksFit(Append(m.chunks, c), size, overlap)
      <3> DEFINE chunks == m.chunks
      <3> HIDE DEF chunks, c
      <3>1. /\ chunks \in Seq(Seq(C)) /\ c \in Seq(C) /\ ChunksFit(chunks, size, overlap)
            /\ Fits(c, size, overlap)
            /\ Len(chunks) > 0 => Carries(chunks[Len(chunks)], c, overlap)
        BY <1>1, <1>2 DEF chunks
      <3>2. /\ Append(chunks, c) \in Seq(Seq(C)) /\ Len(Append(chunks, c)) = Len(chunks) + 1
            /\ Append(chunks, c)[Len(chunks) + 1] = c
            /\ ChunksFit(Append(chunks, c), size, overlap)
        BY <3>1, ChunksGrow
      <3> QED BY <3>2 DEF chunks
    <2> DEFINE more == Append(m.chunks, c)
               n    == [chunks |-> more, current |-> next]
    <2>8. Carries(more[Len(more)], next, overlap)
      <3> HIDE DEF c
      <3>1. more[Len(more)] = c
        BY <2>7
      <3> QED BY <2>2, <2>3, <3>1 DEF Carries
    <2> HIDE DEF more
    <2>9. n \in Packings(C)
      BY <2>3, <2>7 DEF Packings, more
    <2>10. Packed(n, size, overlap)
      BY <2>5, <2>6, <2>7, <2>8 DEF Packed, Fits, more
    <2> QED BY <2>1, <2>9, <2>10 DEF more
  <1> QED BY <1>5, <1>6

LEMMA MergedTyped ==
    ASSUME NEW C, Space \in C, NEW size \in Nat, NEW overlap \in Nat,
           NEW m \in Packings(C), NEW f \in Seq(C), Len(f) <= size
    PROVE  Merged(m, f, size, overlap) \in Packings(C)
  <1> DEFINE c == m.current
             joined == Strip(c \o <<Space>> \o f)
             next == Strip(Carried(c, overlap) \o <<Space>> \o f)
  <1>1. m.chunks \in Seq(Seq(C)) /\ c \in Seq(C) /\ m = [chunks |-> m.chunks, current |-> c]
    BY DEF Packings
  <1>2. joined \in Seq(C)
    BY <1>1, StripJoins
  <1>3. next \in Seq(C)
    <2>1. Carried(c, overlap) \in Seq(C)
      BY <1>1, CarriedShape
    <2> QED BY <2>1, StripJoins
  <1>4. Append(m.chunks, c) \in Seq(Seq(C))
    BY <1>1
  <1>5. CASE c = <<>>
    <2>1. Merged(m, f, size, overlap) = [chunks |-> m.chunks, current |-> f]
      BY <1>1, <1>5 DEF Merged
    <2> QED BY <1>1, <2>1 DEF Packings
  <1>6. CASE c # <<>>
    <2>1. \/ Merged(m, f, size, overlap) = [chunks |-> m.chunks, current |-> joined]
          \/ Merged(m, f, size, overlap) = [chunks |-> Append(m.chunks, c), current |-> next]
      BY <1>1, <1>6 DEF Merged
    <2> HIDE DEF joined, next
    <2>2. [chunks |-> m.chunks, current |-> joined] \in Packings(C)
      BY <1>1, <1>2 DEF Packings
    <2>3. [chunks |-> Append(m.chunks, c), current |-> next] \in Packings(C)
      BY <1>3, <1>4 DEF Packings
    <2> QED BY <2>1, <2>2, <2>3
  <1> QED BY <1>5, <1>6

(* The states of the packing loop, after each fragment. *)
MergesBy(t, fragments, n, size, overlap) ==
    /\ t[0] = [chunks |-> <<>>, current |-> <<>>]
    /\ \A i \in 1..n : t[i] = Merged(t[i - 1], fragments[i], size, overlap)
    /\ t[n] = Merge(fragments, size, overlap)

LEMMA MergePasses ==
    ASSUME NEW C, Space \in C, NEW size \in Nat, NEW overlap \in Nat, NEW n \in Nat,
           NEW fragments \in Seq(Seq(C)), n = Len(fragments),
           \A i \in 1..n : Len(fragments[i]) <= size
    PROVE  \E t \in [0..n -> Packings(C)] : MergesBy(t, fragments, n, size, overlap)
  <1> DEFINE V    == Packings(C)
             base == [chunks |-> <<>>, current |-> <<>>]
             F    == [p \in V \X (1..n) |-> Merged(p[1], fragments[p[2]], size, overlap)]
             C1(h) == h = [s \in SUBSET (1..n) |->
                              IF s = {} THEN base
                              ELSE Merged(h[s \ {Max(s)}], fragments[Max(s)], size, overlap)]
             it   == CHOOSE h : C1(h)
  <1>1. DOMAIN fragments = 1..n /\ \A i \in 1..n : fragments[i] \in Seq(C)
    OBVIOUS
  <1>2. base \in V
    <2>1. <<>> \in Seq(Seq(C)) /\ <<>> \in Seq(C)
      OBVIOUS
    <2> QED BY <2>1 DEF Packings
  <1>3. F \in [V \X (1..n) -> V]
    <2> HIDE DEF V
    <2> SUFFICES ASSUME NEW p \in V \X (1..n)
                 PROVE  Merged(p[1], fragments[p[2]], size, overlap) \in V
      OBVIOUS
    <2>1. p[1] \in Packings(C) /\ p[2] \in 1..n
      BY DEF V
    <2> QED BY <1>1, <2>1, MergedTyped DEF V
  <1>4. \A v \in V, i \in 1..n : F[<<v, i>>] = Merged(v, fragments[i], size, overlap)
    <2> HIDE DEF V
    <2> QED OBVIOUS
  <1>5. Merge(fragments, size, overlap) = it[1..n]
    BY <1>1 DEF Merge, FoldLeft, MapThenFoldSet
  <1> HIDE DEF F, V, base
  <1>6. C1(it)
    <2>1. PICK g \in [SUBSET (1..n) -> V] : IsFold(g, F, base, n)
      BY <1>2, <1>3, FoldExists
    <2>2. ASSUME NEW s \in SUBSET (1..n), s # {}
          PROVE  g[s] = Merged(g[s \ {Max(s)}], fragments[Max(s)], size, overlap)
      <3>1. g[s] = F[<<g[s \ {Max(s)}], Max(s)>>]
        BY <2>1, <2>2 DEF IsFold
      <3>2. Max(s) \in 1..n /\ g[s \ {Max(s)}] \in V
        BY <2>2, MaxOfSome
      <3> QED BY <1>4, <3>1, <3>2
    <2>3. g[{}] = base /\ g = [s \in SUBSET (1..n) |-> g[s]]
      BY <2>1 DEF IsFold
    <2>4. C1(g)
      BY <2>2, <2>3
    <2> HIDE DEF C1
    <2> QED BY <2>4
  <1> HIDE DEF it
  <1>7. Advances(it, F, base, n, V)
    <2>1. it[{}] = base
      BY <1>6
    <2>2. ASSUME NEW i \in 1..n, it[1..(i - 1)] \in V
          PROVE  it[1..i] = F[<<it[1..(i - 1)], i>>]
      <3>1. 1..i \in SUBSET (1..n) /\ 1..i # {} /\ Max(1..i) = i /\ (1..i) \ {i} = 1..(i - 1)
        BY MaxOfFirst
      <3>2. it[1..i] = Merged(it[1..(i - 1)], fragments[i], size, overlap)
        BY <1>6, <3>1
      <3> QED BY <1>4, <2>2, <3>2
    <2> QED BY <1>2, <1>3, <2>1, <2>2 DEF Advances
  <1>8. PICK t \in [0..n -> V] : Passes(t, F, base, n) /\ t[n] = it[1..n]
    BY <1>7, FoldPasses
  <1>9. t[0] = base /\ \A i \in 1..n : t[i] = F[<<t[i - 1], i>>]
    BY <1>8 DEF Passes
  <1>10. ASSUME NEW i \in 1..n
         PROVE  t[i] = Merged(t[i - 1], fragments[i], size, overlap)
    <2>1. i - 1 \in 0..n
      OBVIOUS
    <2> QED BY <1>4, <1>8, <1>9, <2>1
  <1> QED BY <1>5, <1>8, <1>9, <1>10 DEF V, base, MergesBy

(* Pieces that fit the size and begin with one that is not blank become    *)
(* chunks that are not blank, that carry over the end of the one before,   *)
(* and exceed the size by no more than that and a space.                   *)
THEOREM PackingIsFair ==
    ASSUME NEW C, Space \in C, NEW size \in Nat, NEW overlap \in Nat,
           NEW fragments \in Seq(Seq(C)), Len(fragments) > 0, Worded(fragments[1]),
           \A i \in 1..Len(fragments) : Len(fragments[i]) <= size
    PROVE  LET chunks == AllChunks(Merge(fragments, size, overlap))
           IN  chunks \in Seq(Seq(C)) /\ ChunksFit(chunks, size, overlap)
  <1> DEFINE n == Len(fragments)
  <1>1. n \in Nat /\ n >= 1 /\ \A i \in 1..n : fragments[i] \in Seq(C) /\ Len(fragments[i]) <= size
    OBVIOUS
  <1> HIDE DEF n
  <1>2. PICK t \in [0..n -> Packings(C)] : MergesBy(t, fragments, n, size, overlap)
    BY <1>1, MergePasses DEF n
  <1>3. /\ t[0] = [chunks |-> <<>>, current |-> <<>>]
        /\ \A i \in 1..n : t[i] = Merged(t[i - 1], fragments[i], size, overlap)
        /\ t[n] = Merge(fragments, size, overlap)
    BY <1>2 DEF MergesBy
  <1>4. Packed(t[1], size, overlap)
    <2>1. 1 \in 1..n /\ 1 - 1 = 0
      BY <1>1
    <2>2. t[1] = Merged([chunks |-> <<>>, current |-> <<>>], fragments[1], size, overlap)
      BY <1>3, <2>1
    <2> DEFINE f == fragments[1]
    <2>3. f \in Seq(C) /\ Len(f) <= size /\ Worded(f)
      BY <1>1, <2>1
    <2> HIDE DEF f
    <2>4. Packed(Merged([chunks |-> <<>>, current |-> <<>>], f, size, overlap), size, overlap)
      BY <2>3, StartPacks
    <2> QED BY <2>2, <2>4 DEF f
  <1>5. ASSUME NEW i \in 1..n, i < n, Packed(t[i], size, overlap)
        PROVE  Packed(t[i + 1], size, overlap)
    <2> DEFINE m == t[i]
               f == fragments[i + 1]
    <2>1. i + 1 \in 1..n /\ (i + 1) - 1 = i /\ i \in 0..n
      BY <1>1, <1>5
    <2>2. t[i + 1] = Merged(m, f, size, overlap)
      BY <1>3, <2>1
    <2>3. m \in Packings(C) /\ f \in Seq(C) /\ Len(f) <= size
      BY <1>1, <1>2, <2>1
    <2>4. Packed(m, size, overlap)
      BY <1>5
    <2> HIDE DEF m, f
    <2>5. Packed(Merged(m, f, size, overlap), size, overlap)
      BY <2>3, <2>4, MergedPacks
    <2> QED BY <2>2, <2>5
  <1>6. Packed(t[n], size, overlap)
    <2> DEFINE S == {i \in 0..n : i = 0 \/ Packed(t[i], size, overlap)}
    <2>1. 0 \in S
      BY <1>1
    <2>2. ASSUME NEW i \in 0..n, i \in S /\ i < n PROVE i + 1 \in S
      <3>1. CASE i = 0
        BY <1>1, <1>4, <3>1
      <3>2. CASE i # 0
        <4>1. i \in 1..n /\ i + 1 \in 0..n
          BY <1>1, <2>2, <3>2
        <4> QED BY <1>5, <2>2, <3>2, <4>1
      <3> QED BY <3>1, <3>2
    <2>3. \A i \in 0..n : i \in S
      <3> HIDE DEF S
      <3> QED BY <1>1, <2>1, <2>2, InductionUpTo
    <2>4. n \in S /\ n # 0
      BY <1>1, <2>3
    <2> QED BY <2>4
  <1> DEFINE m == t[n]
  <1>7. m \in Packings(C) /\ Packed(m, size, overlap) /\ m = Merge(fragments, size, overlap)
    BY <1>1, <1>2, <1>3, <1>6
  <1> HIDE DEF m
  <1>8. /\ m.chunks \in Seq(Seq(C)) /\ m.current \in Seq(C)
        /\ ChunksFit(m.chunks, size, overlap) /\ Fits(m.current, size, overlap)
        /\ Len(m.chunks) > 0 => Carries(m.chunks[Len(m.chunks)], m.current, overlap)
    BY <1>7 DEF Packings, Packed
  <1>9. m.current # <<>>
    BY <1>8 DEF Fits, Worded
  <1>10. AllChunks(m) = Append(m.chunks, m.current)
    BY <1>9 DEF AllChunks
  <1> DEFINE chunks == m.chunks
             c == m.current
  <1>11. /\ chunks \in Seq(Seq(C)) /\ c \in Seq(C)
         /\ ChunksFit(chunks, size, overlap) /\ Fits(c, size, overlap)
         /\ Len(chunks) > 0 => Carries(chunks[Len(chunks)], c, overlap)
    BY <1>8
  <1> HIDE DEF chunks, c
  <1>12. Append(chunks, c) \in Seq(Seq(C)) /\ ChunksFit(Append(chunks, c), size, overlap)
    BY <1>11, ChunksGrow
  <1> QED BY <1>7, <1>10, <1>12 DEF chunks, c

-----------------------------------------------------------------------------
(* Where a separator is found from i on, and where the first one ends. *)
FoundFrom(s, sep, i) ==
    {j \in i..Len(s) - Len(sep) + 1 : KindsOf(SubSeq(s, j, j + Len(sep) - 1)) = sep}

After(s, sep, i) == IF FoundFrom(s, sep, i) = {} THEN 0 ELSE Min(FoundFrom(s, sep, i)) + Len(sep)

LEMMA AfterIsAhead ==
    ASSUME NEW C, NEW s \in Seq(C), NEW sep \in Seq(Kinds), Len(sep) > 0,
           NEW i \in 1..Len(s) + 1
    PROVE  /\ FoundFrom(s, sep, i) # {} =>
                /\ Min(FoundFrom(s, sep, i)) \in i..Len(s) - Len(sep) + 1
                /\ Min(FoundFrom(s, sep, i)) \in FoundFrom(s, sep, i)
           /\ After(s, sep, i) \in 0..Len(s) + 1
           /\ After(s, sep, i) = 0 \/ After(s, sep, i) > i
           /\ After(s, sep, i) = 0 <=> FoundFrom(s, sep, i) = {}
  <1> DEFINE I == FoundFrom(s, sep, i)
             n == Len(s)
             k == Len(sep)
  <1>1. I \in SUBSET (i..n - k + 1) /\ I \in SUBSET (1..n) /\ n \in Nat /\ k \in Nat /\ k > 0
    BY DEF FoundFrom
  <1> HIDE DEF I, n, k
  <1>2. I # {} => Min(I) \in I
    BY <1>1, MinOfSome
  <1>3. I # {} => Min(I) \in i..n - k + 1
    BY <1>1, <1>2
  <1>4. After(s, sep, i) = IF I = {} THEN 0 ELSE Min(I) + k
    BY DEF After, I, k
  <1>5. After(s, sep, i) \in 0..n + 1 /\ (After(s, sep, i) = 0 \/ After(s, sep, i) > i)
        /\ (After(s, sep, i) = 0 <=> I = {})
    <2>1. CASE I = {}
      BY <1>1, <1>4, <2>1
    <2>2. CASE I # {}
      <3>1. PICK x \in i..n - k + 1 : x = Min(I)
        BY <1>3, <2>2
      <3>2. After(s, sep, i) = x + k
        BY <1>4, <2>2, <3>1
      <3>3. i \in Int /\ i >= 1 /\ x \in Int /\ i <= x /\ x <= n - k + 1
        BY <1>1, <3>1
      <3>4. x + k \in 0..n + 1 /\ x + k > i
        BY <1>1, <3>3
      <3>5. x + k # 0
        BY <1>1, <3>3
      <3> QED BY <2>2, <3>2, <3>4, <3>5
    <2> QED BY <2>1, <2>2
  <1> QED BY <1>2, <1>3, <1>5 DEF I, n, k

Lists(C) == {p \in Seq(Seq(C)) : Len(p) > 0}

(* What str.split makes of the text from each of its characters on. *)
PartsBy(g, s, sep) ==
    /\ g[1] = Parts(s, sep)
    /\ \A i \in 1..Len(s) + 1 :
         g[i] = IF FoundFrom(s, sep, i) = {} THEN << SubSeq(s, i, Len(s)) >>
                ELSE << SubSeq(s, i, Min(FoundFrom(s, sep, i)) - 1) >>
                     \o g[Min(FoundFrom(s, sep, i)) + Len(sep)]

LEMMA PartsPasses ==
    ASSUME NEW C, NEW s \in Seq(C), NEW sep \in Seq(Kinds), Len(sep) > 0
    PROVE  \E g \in [1..Len(s) + 1 -> Lists(C)] : PartsBy(g, s, sep)
  <1> DEFINE n    == Len(s)
             k    == Len(sep)
             V    == Lists(C)
             E(h) == h = [i \in 1..n + 1 |->
                             IF FoundFrom(s, sep, i) = {} THEN << SubSeq(s, i, n) >>
                             ELSE << SubSeq(s, i, Min(FoundFrom(s, sep, i)) - 1) >>
                                  \o h[Min(FoundFrom(s, sep, i)) + k]]
             it   == CHOOSE h : E(h)
             A    == [i \in 1..n + 1 |-> << SubSeq(s, i, n) >>]
             J    == [i \in 1..n + 1 |-> After(s, sep, i)]
             cut(i) == IF FoundFrom(s, sep, i) = {} THEN <<>>
                       ELSE SubSeq(s, i, Min(FoundFrom(s, sep, i)) - 1)
             F    == [p \in V \X (1..n + 1) |-> << cut(p[2]) >> \o p[1]]
  <1>1. n + 1 \in Nat /\ 1 \in 1..n + 1 /\ n \in Nat /\ k \in Nat
    OBVIOUS
  <1>2. Parts(s, sep) = it[1]
    BY DEF Parts, FoundFrom
  <1>3. ASSUME NEW i \in 1..n + 1
        PROVE  J[i] \in 0..n + 1 /\ (J[i] = 0 \/ J[i] > i)
               /\ (J[i] = 0 <=> FoundFrom(s, sep, i) = {})
               /\ (J[i] # 0 => J[i] = Min(FoundFrom(s, sep, i)) + k)
    BY AfterIsAhead DEF After
  <1>4. ASSUME NEW i \in 1..n + 1
        PROVE  cut(i) \in Seq(C)
    <2>1. CASE FoundFrom(s, sep, i) = {}
      BY <2>1
    <2>2. CASE FoundFrom(s, sep, i) # {}
      <3>1. PICK j \in i..n - k + 1 : j = Min(FoundFrom(s, sep, i))
        BY <2>2, AfterIsAhead
      <3>2. i \in 1..n + 1 /\ j - 1 \in i - 1..n
        BY <1>1, <3>1
      <3>3. SubSeq(s, i, j - 1) \in Seq(C)
        BY <3>2, SubSeqShape
      <3> QED BY <2>2, <3>1, <3>3
    <2> QED BY <2>1, <2>2
  <1>5. A \in [1..n + 1 -> V]
    <2> SUFFICES ASSUME NEW i \in 1..n + 1 PROVE << SubSeq(s, i, n) >> \in V
      OBVIOUS
    <2>1. SubSeq(s, i, n) \in Seq(C)
      BY SubSeqShape
    <2> DEFINE x == SubSeq(s, i, n)
    <2> HIDE DEF x
    <2>2. << x >> \in Seq(Seq(C)) /\ Len(<< x >>) > 0
      BY <2>1 DEF x
    <2> QED BY <2>2 DEF Lists, x
  <1>6. F \in [V \X (1..n + 1) -> V]
    <2> HIDE DEF V, cut, n
    <2> SUFFICES ASSUME NEW p \in V \X (1..n + 1) PROVE << cut(p[2]) >> \o p[1] \in V
      OBVIOUS
    <2> DEFINE x == cut(p[2])
               q == p[1]
    <2>1. x \in Seq(C) /\ q \in Seq(Seq(C))
      BY <1>4 DEF V, Lists
    <2> HIDE DEF x, q
    <2>2. << x >> \o q \in Seq(Seq(C)) /\ Len(<< x >> \o q) = 1 + Len(q) /\ Len(q) \in Nat
      BY <2>1
    <2>3. << x >> \o q \in V
      BY <2>2 DEF V, Lists
    <2> QED BY <2>3 DEF x, q
  <1>7. J \in [1..n + 1 -> 0..n + 1]
    BY <1>3
  <1>8. \A v \in V, i \in 1..n + 1 : F[<<v, i>>] = << cut(i) >> \o v
    <2> HIDE DEF V, cut
    <2> QED OBVIOUS
  <1> HIDE DEF V, A, J, F, cut, n, k
  <1>9. PICK g \in [1..n + 1 -> V] : Leaps(g, A, J, F, n + 1)
    BY <1>1, <1>3, <1>5, <1>6, <1>7, LeapsExist
  <1>10. E(g)
    <2>1. ASSUME NEW i \in 1..n + 1
          PROVE  g[i] = IF FoundFrom(s, sep, i) = {} THEN << SubSeq(s, i, n) >>
                        ELSE << SubSeq(s, i, Min(FoundFrom(s, sep, i)) - 1) >>
                             \o g[Min(FoundFrom(s, sep, i)) + k]
      <3>1. g[i] = IF J[i] = 0 THEN A[i] ELSE F[<<g[J[i]], i>>]
        BY <1>9 DEF Leaps
      <3>2. CASE FoundFrom(s, sep, i) = {}
        BY <1>3, <3>1, <3>2 DEF A
      <3>3. CASE FoundFrom(s, sep, i) # {}
        <4>1. J[i] # 0 /\ J[i] \in 1..n + 1 /\ J[i] = Min(FoundFrom(s, sep, i)) + k
          BY <1>1, <1>3, <3>3
        <4>2. g[J[i]] \in V
          BY <4>1
        <4>3. F[<<g[J[i]], i>>] = << cut(i) >> \o g[J[i]]
          BY <1>8, <4>2
        <4> QED BY <3>1, <3>3, <4>1, <4>3 DEF cut
      <3> QED BY <3>2, <3>3
    <2>2. g = [i \in 1..n + 1 |-> g[i]]
      OBVIOUS
    <2> QED BY <2>1, <2>2
  <1>11. E(it)
    <2> HIDE DEF E
    <2> QED BY <1>10
  <1> HIDE DEF it
  <1>12. ASSUME NEW i \in 1..n + 1
         PROVE  /\ J[i] = 0 => it[i] = A[i]
                /\ J[i] # 0 => it[i] = << cut(i) >> \o it[J[i]]
    BY <1>3, <1>11 DEF A, cut
  <1>13. \A i \in 1..n + 1 : it[i] \in V
    <2>1. \A i \in 1..n + 1 : J[i] # 0 /\ it[J[i]] \in V => it[i] = F[<<it[J[i]], i>>]
      BY <1>8, <1>12
    <2>2. \A i \in 1..n + 1 : J[i] = 0 => it[i] = A[i]
      BY <1>12
    <2>3. \A i \in 1..n + 1 : J[i] = 0 \/ J[i] > i
      BY <1>3
    <2> DEFINE N == n + 1
    <2>4. /\ N \in Nat /\ A \in [1..N -> V] /\ J \in [1..N -> 0..N] /\ F \in [V \X (1..N) -> V]
          /\ \A i \in 1..N : J[i] = 0 \/ J[i] > i
      BY <1>1, <1>5, <1>6, <1>7, <2>3
    <2>6. LeapsIn(it, A, J, F, V, N)
      BY <2>1, <2>2 DEF LeapsIn
    <2> HIDE DEF E, N
    <2>5. \A i \in 1..N : it[i] \in V
      BY <2>4, <2>6, LeapsStay
    <2> QED BY <2>5 DEF N
  <1>14. it \in [1..n + 1 -> V]
    <2>1. it = [i \in 1..n + 1 |-> it[i]]
      BY <1>11
    <2> HIDE DEF E
    <2> QED BY <1>13, <2>1
  <1>15. PartsBy(it, s, sep)
    BY <1>2, <1>11 DEF PartsBy, n, k
  <1> QED BY <1>14, <1>15 DEF V, n

LEMMA PartsStart ==
    ASSUME NEW C, NEW s \in Seq(C), NEW sep \in Seq(Kinds), Len(sep) > 0
    PROVE  /\ Parts(s, sep) \in Lists(C)
           /\ \/ Parts(s, sep)[1] = s
              \/ \E j \in FoundFrom(s, sep, 1) : Parts(s, sep)[1] = SubSeq(s, 1, j - 1)
  <1>1. PICK g \in [1..Len(s) + 1 -> Lists(C)] : PartsBy(g, s, sep)
    BY PartsPasses
  <1>2. 1 \in 1..Len(s) + 1 /\ g[1] = Parts(s, sep) /\ g[1] \in Lists(C)
    BY <1>1 DEF PartsBy
  <1>3. CASE FoundFrom(s, sep, 1) = {}
    <2>1. g[1] = << SubSeq(s, 1, Len(s)) >>
      BY <1>1, <1>2, <1>3 DEF PartsBy
    <2>2. SubSeq(s, 1, Len(s)) = s
      OBVIOUS
    <2> QED BY <1>2, <2>1, <2>2
  <1>4. CASE FoundFrom(s, sep, 1) # {}
    <2> DEFINE one == 1
               j == Min(FoundFrom(s, sep, 1))
               x == SubSeq(s, one, j - 1)
               v == g[j + Len(sep)]
    <2>1. j \in FoundFrom(s, sep, 1) /\ j \in 1..Len(s) - Len(sep) + 1
      BY <1>2, <1>4, AfterIsAhead
    <2>2. g[1] = << x >> \o v
      BY <1>1, <1>2, <1>4 DEF PartsBy
    <2>3. v \in Seq(Seq(C))
      <3>1. j + Len(sep) \in 1..Len(s) + 1
        BY <2>1
      <3> QED BY <3>1 DEF Lists
    <2>4. x \in Seq(C)
      <3>1. one \in 1..Len(s) + 1 /\ j - 1 \in one - 1..Len(s)
        BY <2>1
      <3> HIDE DEF one
      <3> QED BY <3>1, SubSeqShape
    <2>5. (<< x >> \o v)[1] = x
      <3> HIDE DEF x, v
      <3> QED BY <2>3, <2>4
    <2> QED BY <1>2, <2>1, <2>2, <2>5
  <1> QED BY <1>2, <1>3, <1>4

-----------------------------------------------------------------------------
Chars == [kind : Kinds, pos : Nat]

Starts(s) == Len(s) > 0 /\ ~IsBlank(s[1])

(* A separator that does not split into characters. *)
Splits(sep) ==
    sep \in Seq(Kinds) /\ Len(sep) > 0 /\ ("line" \in ToSet(sep) => sep[1] = "line")

LEMMA RStripStarts ==
    ASSUME NEW C, NEW s \in Seq(C)
    PROVE  RStrip(s) \in Seq(C) /\ (Starts(s) => Starts(RStrip(s)))
  <1>1. CASE ~Worded(s)
    <2>1. RStrip(s) = <<>>
      BY <1>1, RStripShape
    <2>2. ~Starts(s)
      BY <1>1 DEF Worded, Starts
    <2> QED BY <2>1, <2>2
  <1>2. CASE Worded(s)
    <2>1. PICK b \in 1..Len(s) : RStrip(s) = SubSeq(s, 1, b)
      BY <1>2, RStripShape
    <2> DEFINE one == 1
               x == SubSeq(s, one, b)
    <2>2. one \in 1..Len(s) + 1 /\ b \in one - 1..Len(s)
      OBVIOUS
    <2>3. x \in Seq(C) /\ Len(x) = b - one + 1
          /\ \A i \in 1..b - one + 1 : x[i] = s[one + i - 1]
      <3> HIDE DEF one
      <3> QED BY <2>2, SubSeqShape
    <2>4. RStrip(s) = x
      BY <2>1
    <2> HIDE DEF x
    <2>5. Len(x) > 0 /\ x[1] = s[1]
      BY <2>3
    <2> QED BY <2>3, <2>4, <2>5 DEF Starts
  <1> QED BY <1>1, <1>2

LEMMA RejoinedStarts ==
    ASSUME NEW part \in Seq(Chars), NEW sep, Splits(sep)
    PROVE  /\ Rejoined(part, sep) \in Seq(Chars)
           /\ Starts(part) \/ (part = <<>> /\ sep[1] \notin {"space", "line"})
                => Starts(Rejoined(part, sep))
  <1> DEFINE back == [i \in DOMAIN sep |-> Char(sep[i], 0)]
             joined == part \o back
  <1>1. sep \in Seq(Kinds) /\ Len(sep) > 0 /\ DOMAIN sep = 1..Len(sep) /\ Len(sep) \in Nat
    BY DEF Splits
  <1>2. back \in Seq(Chars) /\ Len(back) = Len(sep) /\ back[1] = Char(sep[1], 0)
    <2>1. \A i \in 1..Len(sep) : Char(sep[i], 0) \in Chars
      BY <1>1 DEF Char, Chars
    <2> QED BY <1>1, <2>1
  <1> HIDE DEF back
  <1>3. /\ joined \in Seq(Chars) /\ Len(joined) = Len(part) + Len(back)
        /\ \A i \in 1..Len(part) : joined[i] = part[i]
        /\ \A i \in 1..Len(back) : joined[Len(part) + i] = back[i]
    BY <1>2
  <1> HIDE DEF joined
  <1>4. ASSUME Starts(part) \/ (part = <<>> /\ sep[1] \notin {"space", "line"})
        PROVE  Starts(joined)
    <2>1. CASE Starts(part)
      <3>1. 1 \in 1..Len(part) /\ ~IsBlank(part[1])
        BY <2>1 DEF Starts
      <3> QED BY <1>1, <1>2, <1>3, <3>1 DEF Starts
    <2>2. CASE part = <<>> /\ sep[1] \notin {"space", "line"}
      <3>1. Len(part) = 0 /\ 1 \in 1..Len(back)
        BY <1>1, <1>2, <2>2
      <3>2. joined[1] = Char(sep[1], 0)
        BY <1>2, <1>3, <3>1
      <3>3. ~IsBlank(joined[1])
        BY <2>2, <3>2 DEF IsBlank, Char
      <3> QED BY <1>1, <1>2, <1>3, <3>1, <3>3 DEF Starts
    <2> QED BY <1>4, <2>1, <2>2
  <1>5. Rejoined(part, sep) = IF "line" \in ToSet(sep) THEN RStrip(joined) ELSE joined
    BY DEF Rejoined, joined, back
  <1>6. RStrip(joined) \in Seq(Chars) /\ (Starts(joined) => Starts(RStrip(joined)))
    BY <1>3, RStripStarts
  <1> QED BY <1>3, <1>4, <1>5, <1>6

(* The first piece begins with the first character of the text, or with    *)
(* the separator with which it begins; no separator begins with a blank    *)
(* where the text does not.                                                *)
LEMMA FirstPartStarts ==
    ASSUME NEW s \in Seq(Chars), Starts(s), NEW sep, Splits(sep)
    PROVE  Parts(s, sep) \in Lists(Chars) /\ Starts(Rejoined(Parts(s, sep)[1], sep))
  <1> DEFINE p == Parts(s, sep)[1]
  <1>1. sep \in Seq(Kinds) /\ Len(sep) > 0 /\ Len(s) > 0 /\ ~IsBlank(s[1])
    BY DEF Splits, Starts
  <1>2. /\ Parts(s, sep) \in Lists(Chars)
        /\ p = s \/ \E j \in FoundFrom(s, sep, 1) : p = SubSeq(s, 1, j - 1)
    BY <1>1, PartsStart
  <1>3. p \in Seq(Chars)
    BY <1>2 DEF Lists
  <1> HIDE DEF p
  <1>4. Starts(p) \/ (p = <<>> /\ sep[1] \notin {"space", "line"})
    <2>1. CASE p = s
      BY <2>1
    <2>2. ASSUME NEW j \in FoundFrom(s, sep, 1), p = SubSeq(s, 1, j - 1)
          PROVE  Starts(p) \/ (p = <<>> /\ sep[1] \notin {"space", "line"})
      <3>1. j \in 1..Len(s) - Len(sep) + 1 /\ KindsOf(SubSeq(s, j, j + Len(sep) - 1)) = sep
        BY DEF FoundFrom
      <3>2. CASE j = 1
        <4>1. p = <<>>
          <5>1. SubSeq(s, 1, 1 - 1) = <<>>
            OBVIOUS
          <5> QED BY <2>2, <3>2, <5>1
        <4> DEFINE l == Len(sep)
                   x == SubSeq(s, 1, l)
        <4>2. 1 \in DOMAIN x /\ x[1] = s[1]
          BY <1>1, <3>1
        <4>3. sep = [i \in DOMAIN x |-> x[i].kind]
          BY <3>1, <3>2 DEF KindsOf
        <4> HIDE DEF x
        <4>4. sep[1] = s[1].kind
          BY <4>2, <4>3
        <4> QED BY <1>1, <4>1, <4>4 DEF IsBlank
      <3>3. CASE j # 1
        <4> DEFINE one == 1
                   b == j - 1
                   x == SubSeq(s, one, b)
        <4>1. one \in 1..Len(s) + 1 /\ b \in one - 1..Len(s) /\ b >= 1
          BY <1>1, <3>1, <3>3
        <4>2. Len(x) = b - one + 1 /\ \A i \in 1..b - one + 1 : x[i] = s[one + i - 1]
          <5> HIDE DEF one, b
          <5> QED BY <4>1, SubSeqShape
        <4>3. p = x
          BY <2>2
        <4> HIDE DEF x, b
        <4>4. Len(x) > 0 /\ x[1] = s[1]
          BY <4>1, <4>2
        <4> QED BY <1>1, <4>3, <4>4 DEF Starts
      <3> QED BY <3>2, <3>3
    <2> QED BY <1>2, <2>1, <2>2
  <1>5. Starts(Rejoined(p, sep))
    BY <1>3, <1>4, RejoinedStarts
  <1> QED BY <1>2, <1>5 DEF p

-----------------------------------------------------------------------------
(* The loop of _recursive_split over the parts of a text. *)
KeptWith(kept, part, sep) ==
    IF Rejoined(part, sep) = <<>> THEN kept ELSE Append(kept, Rejoined(part, sep))

LEMMA KeptTyped ==
    ASSUME NEW kept \in Seq(Seq(Chars)), NEW part \in Seq(Chars), NEW sep, Splits(sep)
    PROVE  KeptWith(kept, part, sep) \in Seq(Seq(Chars))
  <1> DEFINE x == Rejoined(part, sep)
  <1>1. x \in Seq(Chars)
    BY RejoinedStarts
  <1> HIDE DEF x
  <1>2. Append(kept, x) \in Seq(Seq(Chars))
    BY <1>1
  <1> QED BY <1>2 DEF KeptWith, x

KeepsBy(t, parts, n, sep, pieces) ==
    /\ t[0] = <<>> /\ \A i \in 1..n : t[i] = KeptWith(t[i - 1], parts[i], sep)
    /\ t[n] = pieces

LEMMA PiecesPasses ==
    ASSUME NEW text, NEW sep, Splits(sep), NEW parts \in Seq(Seq(Chars)), parts = Parts(text, sep),
           NEW n, n = Len(parts)
    PROVE  \E t \in [0..n -> Seq(Seq(Chars))] : KeepsBy(t, parts, n, sep, Pieces(text, sep))
  <1> DEFINE V    == Seq(Seq(Chars))
             F    == [p \in V \X (1..n) |-> KeptWith(p[1], parts[p[2]], sep)]
             C1(h) == h = [s \in SUBSET (1..n) |->
                              IF s = {} THEN <<>>
                              ELSE KeptWith(h[s \ {Max(s)}], parts[Max(s)], sep)]
             it   == CHOOSE h : C1(h)
  <1>1. DOMAIN parts = 1..n /\ n \in Nat /\ \A i \in 1..n : parts[i] \in Seq(Chars)
    OBVIOUS
  <1>2. <<>> \in V
    OBVIOUS
  <1>3. F \in [V \X (1..n) -> V]
    <2> HIDE DEF V
    <2> SUFFICES ASSUME NEW p \in V \X (1..n)
                 PROVE  KeptWith(p[1], parts[p[2]], sep) \in V
      OBVIOUS
    <2>1. p[1] \in Seq(Seq(Chars)) /\ p[2] \in 1..n
      BY DEF V
    <2> QED BY <1>1, <2>1, KeptTyped DEF V
  <1>4. \A v \in V, i \in 1..n : F[<<v, i>>] = KeptWith(v, parts[i], sep)
    <2> HIDE DEF V
    <2> QED OBVIOUS
  <1>5. Pieces(text, sep) = it[1..n]
    BY <1>1 DEF Pieces, KeptWith, Splits, FoldLeft, MapThenFoldSet
  <1> HIDE DEF F, V
  <1>6. C1(it)
    <2>1. PICK g \in [SUBSET (1..n) -> V] : IsFold(g, F, <<>>, n)
      BY <1>1, <1>2, <1>3, FoldExists
    <2>2. ASSUME NEW s \in SUBSET (1..n), s # {}
          PROVE  g[s] = KeptWith(g[s \ {Max(s)}], parts[Max(s)], sep)
      <3>1. g[s] = F[<<g[s \ {Max(s)}], Max(s)>>]
        BY <2>1, <2>2 DEF IsFold
      <3>2. Max(s) \in 1..n /\ g[s \ {Max(s)}] \in V
        BY <1>1, <2>2, MaxOfSome
      <3> QED BY <1>4, <3>1, <3>2
    <2>3. g[{}] = <<>> /\ g = [s \in SUBSET (1..n) |-> g[s]]
      BY <2>1 DEF IsFold
    <2>4. C1(g)
      BY <2>2, <2>3
    <2> HIDE DEF C1
    <2> QED BY <2>4
  <1> HIDE DEF it
  <1>7. Advances(it, F, <<>>, n, V)
    <2>1. it[{}] = <<>>
      BY <1>6
    <2>2. ASSUME NEW i \in 1..n, it[1..(i - 1)] \in V
          PROVE  it[1..i] = F[<<it[1..(i - 1)], i>>]
      <3>1. 1..i \in SUBSET (1..n) /\ 1..i # {} /\ Max(1..i) = i /\ (1..i) \ {i} = 1..(i - 1)
        BY <1>1, MaxOfFirst
      <3>2. it[1..i] = KeptWith(it[1..(i - 1)], parts[i], sep)
        BY <1>6, <3>1
      <3> QED BY <1>4, <2>2, <3>2
    <2> QED BY <1>2, <1>3, <2>1, <2>2 DEF Advances
  <1>8. PICK t \in [0..n -> V] : Passes(t, F, <<>>, n) /\ t[n] = it[1..n]
    BY <1>1, <1>7, FoldPasses
  <1>9. t[0] = <<>> /\ \A i \in 1..n : t[i] = F[<<t[i - 1], i>>]
    BY <1>8 DEF Passes
  <1>10. ASSUME NEW i \in 1..n
         PROVE  t[i] = KeptWith(t[i - 1], parts[i], sep)
    <2>1. i - 1 \in 0..n
      BY <1>1
    <2> QED BY <1>4, <1>8, <1>9, <2>1
  <1> QED BY <1>5, <1>8, <1>9, <1>10 DEF V, KeepsBy

-----------------------------------------------------------------------------
(* The first of the pieces begins with a character that is not blank. *)
Opens(pieces) == Len(pieces) > 0 /\ Starts(pieces[1])

LEMMA OpensStill ==
    ASSUME NEW n \in Nat, n > 0, NEW t, Opens(t[1]),
           \A i \in 1..n : i < n /\ Opens(t[i]) => Opens(t[i + 1])
    PROVE  Opens(t[n])
  <1> DEFINE S == {i \in 0..n : i = 0 \/ Opens(t[i])}
  <1>1. 0 \in S
    OBVIOUS
  <1>2. ASSUME NEW i \in 0..n, i \in S /\ i < n PROVE i + 1 \in S
    <2>1. CASE i = 0
      BY <2>1
    <2>2. CASE i # 0
      <3>1. i \in 1..n /\ i + 1 \in 0..n /\ Opens(t[i])
        BY <1>2, <2>2
      <3> QED BY <1>2, <3>1
    <2> QED BY <2>1, <2>2
  <1>3. \A i \in 0..n : i \in S
    <2> HIDE DEF S
    <2> QED BY <1>1, <1>2, InductionUpTo
  <1>4. n \in S /\ n # 0
    <2> HIDE DEF S
    <2> QED BY <1>3
  <1> QED BY <1>4

LEMMA OpensLonger ==
    ASSUME NEW a \in Seq(Seq(Chars)), NEW b \in Seq(Seq(Chars))
    PROVE  /\ a \o b \in Seq(Seq(Chars))
           /\ Opens(a) => Opens(a \o b)
           /\ a = <<>> => a \o b = b
  <1>1. /\ a \o b \in Seq(Seq(Chars)) /\ Len(a \o b) = Len(a) + Len(b)
        /\ \A i \in 1..Len(a) : (a \o b)[i] = a[i]
    OBVIOUS
  <1>2. Opens(a) => Opens(a \o b)
    BY <1>1 DEF Opens
  <1> QED BY <1>1, <1>2

LEMMA KeptOpens ==
    ASSUME NEW kept \in Seq(Seq(Chars)), NEW part \in Seq(Chars), NEW sep, Splits(sep)
    PROVE  /\ Opens(kept) => Opens(KeptWith(kept, part, sep))
           /\ kept = <<>> /\ Starts(Rejoined(part, sep)) => Opens(KeptWith(kept, part, sep))
  <1> DEFINE x == Rejoined(part, sep)
  <1>1. x \in Seq(Chars)
    BY RejoinedStarts
  <1>2. KeptWith(kept, part, sep) = IF x = <<>> THEN kept ELSE Append(kept, x)
    BY DEF KeptWith
  <1> HIDE DEF x
  <1>3. /\ Len(Append(kept, x)) = Len(kept) + 1
        /\ \A i \in 1..Len(kept) : Append(kept, x)[i] = kept[i]
        /\ Append(kept, x)[Len(kept) + 1] = x
    BY <1>1
  <1>4. Opens(kept) => Opens(Append(kept, x))
    BY <1>3 DEF Opens
  <1>5. ASSUME kept = <<>>, Starts(x) PROVE x # <<>> /\ Opens(Append(kept, x))
    <2>1. Len(kept) = 0
      BY <1>5
    <2>2. x # <<>>
      BY <1>5 DEF Starts
    <2> QED BY <1>3, <1>5, <2>1, <2>2 DEF Opens
  <1> QED BY <1>2, <1>4, <1>5 DEF x

LEMMA PiecesStart ==
    ASSUME NEW s \in Seq(Chars), NEW sep, sep = <<>> \/ Splits(sep)
    PROVE  /\ Pieces(s, sep) \in Seq(Seq(Chars))
           /\ Starts(s) => Opens(Pieces(s, sep))
           /\ sep = <<>> => \A i \in 1..Len(Pieces(s, sep)) : Len(Pieces(s, sep)[i]) = 1
  <1>1. CASE sep = <<>>
    <2> DEFINE alone(i) == << s[i] >>
               p == [i \in DOMAIN s |-> alone(i)]
    <2>1. Pieces(s, sep) = p
      BY <1>1 DEF Pieces
    <2>2. \A i \in 1..Len(s) :
            alone(i) \in Seq(Chars) /\ Len(alone(i)) = 1 /\ alone(i)[1] = s[i]
      OBVIOUS
    <2>3. p \in Seq(Seq(Chars)) /\ Len(p) = Len(s) /\ \A i \in 1..Len(s) : p[i] = alone(i)
      <3> HIDE DEF alone
      <3>1. DOMAIN s = 1..Len(s) /\ Len(s) \in Nat
        OBVIOUS
      <3> QED BY <2>2, <3>1
    <2> HIDE DEF alone
    <2> HIDE DEF p
    <2>4. ASSUME Starts(s) PROVE Opens(p)
      <3>1. Len(p) > 0 /\ 1 \in 1..Len(s) /\ p[1] = alone(1)
        BY <2>3, <2>4 DEF Starts
      <3>2. Len(p[1]) > 0 /\ p[1][1] = s[1]
        BY <2>2, <3>1
      <3> QED BY <2>4, <3>1, <3>2 DEF Opens, Starts
    <2> QED BY <2>1, <2>2, <2>3, <2>4
  <1>2. CASE sep # <<>>
    <2> DEFINE parts == Parts(s, sep)
               n     == Len(parts)
    <2>1. Splits(sep) /\ sep \in Seq(Kinds) /\ Len(sep) > 0
      BY <1>2 DEF Splits
    <2>2. parts \in Seq(Seq(Chars)) /\ n \in Nat /\ n > 0
      <3>1. parts \in Lists(Chars)
        BY <2>1, PartsStart
      <3> HIDE DEF parts
      <3> QED BY <3>1 DEF Lists
    <2> HIDE DEF parts
    <2>3. PICK t \in [0..n -> Seq(Seq(Chars))] : KeepsBy(t, parts, n, sep, Pieces(s, sep))
      BY <2>1, <2>2, PiecesPasses DEF parts
    <2>4. /\ t[0] = <<>> /\ \A i \in 1..n : t[i] = KeptWith(t[i - 1], parts[i], sep)
          /\ t[n] = Pieces(s, sep)
      BY <2>3 DEF KeepsBy
    <2>5. \A i \in 1..n : parts[i] \in Seq(Chars)
      BY <2>2
    <2> HIDE DEF n
    <2>6. ASSUME Starts(s) PROVE Opens(t[n])
      <3>1. Starts(Rejoined(parts[1], sep))
        BY <2>1, <2>6, FirstPartStarts DEF parts
      <3>2. Opens(t[1])
        <4>1. 1 \in 1..n /\ 1 - 1 = 0 /\ 0 \in 0..n
          BY <2>2
        <4>2. t[1] = KeptWith(<<>>, parts[1], sep) /\ <<>> \in Seq(Seq(Chars))
          BY <2>4, <4>1
        <4> QED BY <2>1, <2>5, <3>1, <4>1, <4>2, KeptOpens
      <3>3. ASSUME NEW i \in 1..n, i < n, Opens(t[i]) PROVE Opens(t[i + 1])
        <4>1. i + 1 \in 1..n /\ (i + 1) - 1 = i /\ i \in 0..n
          BY <2>2, <3>3
        <4>2. t[i + 1] = KeptWith(t[i], parts[i + 1], sep)
          BY <2>4, <4>1
        <4>3. t[i] \in Seq(Seq(Chars)) /\ parts[i + 1] \in Seq(Chars)
          BY <2>5, <4>1
        <4> QED BY <2>1, <3>3, <4>2, <4>3, KeptOpens
      <3> QED BY <2>2, <3>2, <3>3, OpensStill
    <2>7. t[n] \in Seq(Seq(Chars))
      BY <2>2
    <2> QED BY <1>2, <2>4, <2>6, <2>7
  <1> QED BY <1>1, <1>2

(* What _recursive_split makes of one more fragment. *)
Refine(all, f, sep, size) == all \o IF Len(f) > size THEN Pieces(f, sep) ELSE << f >>

LEMMA RefineTyped ==
    ASSUME NEW all \in Seq(Seq(Chars)), NEW f \in Seq(Chars), NEW sep,
           sep = <<>> \/ Splits(sep), NEW size
    PROVE  /\ Refine(all, f, sep, size) \in Seq(Seq(Chars))
           /\ Opens(all) => Opens(Refine(all, f, sep, size))
           /\ all = <<>> /\ Starts(f) => Opens(Refine(all, f, sep, size))
  <1> DEFINE more == IF Len(f) > size THEN Pieces(f, sep) ELSE << f >>
  <1>1. more \in Seq(Seq(Chars)) /\ (Starts(f) => Opens(more))
    <2>1. CASE Len(f) > size
      BY <2>1, PiecesStart
    <2>2. CASE ~(Len(f) > size)
      <3>1. << f >> \in Seq(Seq(Chars)) /\ Len(<< f >>) = 1 /\ << f >>[1] = f
        OBVIOUS
      <3>2. Starts(f) => Opens(<< f >>)
        BY <3>1 DEF Opens
      <3> QED BY <2>2, <3>1, <3>2
    <2> QED BY <2>1, <2>2
  <1>2. Refine(all, f, sep, size) = all \o more
    BY DEF Refine
  <1> HIDE DEF more
  <1>3. /\ all \o more \in Seq(Seq(Chars))
        /\ Opens(all) => Opens(all \o more)
        /\ all = <<>> => all \o more = more
    BY <1>1, OpensLonger
  <1> QED BY <1>1, <1>2, <1>3

RefinesBy(t, fragments, n, sep, size) ==
    /\ t[0] = <<>> /\ \A i \in 1..n : t[i] = Refine(t[i - 1], fragments[i], sep, size)
    /\ t[n] = Refined(fragments, sep, size)

LEMMA RefinedPasses ==
    ASSUME NEW sep, sep = <<>> \/ Splits(sep), NEW size, NEW fragments \in Seq(Seq(Chars)),
           NEW n, n = Len(fragments)
    PROVE  \E t \in [0..n -> Seq(Seq(Chars))] : RefinesBy(t, fragments, n, sep, size)
  <1> DEFINE V    == Seq(Seq(Chars))
             F    == [p \in V \X (1..n) |-> Refine(p[1], fragments[p[2]], sep, size)]
             C1(h) == h = [s \in SUBSET (1..n) |->
                              IF s = {} THEN <<>>
                              ELSE Refine(h[s \ {Max(s)}], fragments[Max(s)], sep, size)]
             it   == CHOOSE h : C1(h)
  <1>1. DOMAIN fragments = 1..n /\ n \in Nat /\ \A i \in 1..n : fragments[i] \in Seq(Chars)
    OBVIOUS
  <1>2. <<>> \in V
    OBVIOUS
  <1>3. F \in [V \X (1..n) -> V]
    <2> HIDE DEF V
    <2> SUFFICES ASSUME NEW p \in V \X (1..n)
                 PROVE  Refine(p[1], fragments[p[2]], sep, size) \in V
      OBVIOUS
    <2>1. p[1] \in Seq(Seq(Chars)) /\ p[2] \in 1..n
      BY DEF V
    <2> QED BY <1>1, <2>1, RefineTyped DEF V
  <1>4. \A v \in V, i \in 1..n : F[<<v, i>>] = Refine(v, fragments[i], sep, size)
    <2> HIDE DEF V
    <2> QED OBVIOUS
  <1>5. Refined(fragments, sep, size) = it[1..n]
    BY <1>1 DEF Refined, Refine, FoldLeft, MapThenFoldSet
  <1> HIDE DEF F, V
  <1>6. C1(it)
    <2>1. PICK g \in [SUBSET (1..n) -> V] : IsFold(g, F, <<>>, n)
      BY <1>1, <1>2, <1>3, FoldExists
    <2>2. ASSUME NEW s \in SUBSET (1..n), s # {}
          PROVE  g[s] = Refine(g[s \ {Max(s)}], fragments[Max(s)], sep, size)
      <3>1. g[s] = F[<<g[s \ {Max(s)}], Max(s)>>]
        BY <2>1, <2>2 DEF IsFold
      <3>2. Max(s) \in 1..n /\ g[s \ {Max(s)}] \in V
        BY <1>1, <2>2, MaxOfSome
      <3> QED BY <1>4, <3>1, <3>2
    <2>3. g[{}] = <<>> /\ g = [s \in SUBSET (1..n) |-> g[s]]
      BY <2>1 DEF IsFold
    <2>4. C1(g)
      BY <2>2, <2>3
    <2> HIDE DEF C1
    <2> QED BY <2>4
  <1> HIDE DEF it
  <1>7. Advances(it, F, <<>>, n, V)
    <2>1. it[{}] = <<>>
      BY <1>6
    <2>2. ASSUME NEW i \in 1..n, it[1..(i - 1)] \in V
          PROVE  it[1..i] = F[<<it[1..(i - 1)], i>>]
      <3>1. 1..i \in SUBSET (1..n) /\ 1..i # {} /\ Max(1..i) = i /\ (1..i) \ {i} = 1..(i - 1)
        BY <1>1, MaxOfFirst
      <3>2. it[1..i] = Refine(it[1..(i - 1)], fragments[i], sep, size)
        BY <1>6, <3>1
      <3> QED BY <1>4, <2>2, <3>2
    <2> QED BY <1>2, <1>3, <2>1, <2>2 DEF Advances
  <1>8. PICK t \in [0..n -> V] : Passes(t, F, <<>>, n) /\ t[n] = it[1..n]
    BY <1>1, <1>7, FoldPasses
  <1>9. t[0] = <<>> /\ \A i \in 1..n : t[i] = F[<<t[i - 1], i>>]
    BY <1>8 DEF Passes
  <1>10. ASSUME NEW i \in 1..n
         PROVE  t[i] = Refine(t[i - 1], fragments[i], sep, size)
    <2>1. i - 1 \in 0..n
      BY <1>1
    <2> QED BY <1>4, <1>8, <1>9, <2>1
  <1> QED BY <1>5, <1>8, <1>9, <1>10 DEF V, RefinesBy

Short(pieces, size) == \A i \in 1..Len(pieces) : Len(pieces[i]) <= size

LEMMA RefineShort ==
    ASSUME NEW all \in Seq(Seq(Chars)), NEW f \in Seq(Chars), NEW size \in Nat, size > 0,
           Short(all, size)
    PROVE  Short(Refine(all, f, <<>>, size), size)
  <1> DEFINE more == IF Len(f) > size THEN Pieces(f, <<>>) ELSE << f >>
  <1>1. more \in Seq(Seq(Chars)) /\ Short(more, size)
    <2>1. CASE Len(f) > size
      <3> DEFINE p == Pieces(f, <<>>)
                 none == <<>>
      <3>1. p \in Seq(Seq(Chars)) /\ \A i \in 1..Len(p) : Len(p[i]) = 1
        <4>1. /\ Pieces(f, none) \in Seq(Seq(Chars))
              /\ \A i \in 1..Len(Pieces(f, none)) : Len(Pieces(f, none)[i]) = 1
          <5>1. none = <<>>
            OBVIOUS
          <5> HIDE DEF none
          <5> QED BY <5>1, PiecesStart
        <4> QED BY <4>1
      <3> HIDE DEF p
      <3>2. Short(p, size)
        <4> SUFFICES ASSUME NEW i \in 1..Len(p) PROVE Len(p[i]) <= size
          BY DEF Short
        <4>1. Len(p[i]) = 1
          BY <3>1
        <4> QED BY <4>1
      <3> QED BY <2>1, <3>1, <3>2 DEF p
    <2>2. CASE ~(Len(f) > size)
      <3>1. << f >> \in Seq(Seq(Chars)) /\ Len(<< f >>) = 1 /\ << f >>[1] = f
            /\ Len(f) \in Nat
        OBVIOUS
      <3>2. Short(<< f >>, size)
        BY <2>2, <3>1 DEF Short
      <3> QED BY <2>2, <3>1, <3>2
    <2> QED BY <2>1, <2>2
  <1>2. Refine(all, f, <<>>, size) = all \o more
    BY DEF Refine
  <1> HIDE DEF more
  <1>3. /\ Len(all \o more) = Len(all) + Len(more)
        /\ \A i \in 1..Len(all) : (all \o more)[i] = all[i]
        /\ \A i \in 1..Len(more) : (all \o more)[Len(all) + i] = more[i]
    BY <1>1
  <1>4. ASSUME NEW i \in 1..Len(all \o more) PROVE Len((all \o more)[i]) <= size
    <2>1. CASE i <= Len(all)
      <3>1. i \in 1..Len(all)
        BY <2>1
      <3> QED BY <1>3, <3>1 DEF Short
    <2>2. CASE ~(i <= Len(all))
      <3>1. i - Len(all) \in 1..Len(more) /\ Len(all) + (i - Len(all)) = i
        BY <1>1, <1>3, <2>2
      <3> QED BY <1>1, <1>3, <3>1 DEF Short
    <2> QED BY <2>1, <2>2
  <1> QED BY <1>2, <1>4 DEF Short

LEMMA RefinedTyped ==
    ASSUME NEW fragments \in Seq(Seq(Chars)), NEW sep, sep = <<>> \/ Splits(sep), NEW size
    PROVE  /\ Refined(fragments, sep, size) \in Seq(Seq(Chars))
           /\ Opens(fragments) => Opens(Refined(fragments, sep, size))
           /\ sep = <<>> /\ size \in Nat /\ size > 0 => Short(Refined(fragments, sep, size), size)
  <1> DEFINE n == Len(fragments)
  <1>1. n \in Nat /\ \A i \in 1..n : fragments[i] \in Seq(Chars)
    OBVIOUS
  <1>2. PICK t \in [0..n -> Seq(Seq(Chars))] : RefinesBy(t, fragments, n, sep, size)
    BY RefinedPasses
  <1>3. /\ t[0] = <<>> /\ \A i \in 1..n : t[i] = Refine(t[i - 1], fragments[i], sep, size)
        /\ t[n] = Refined(fragments, sep, size)
    BY <1>2 DEF RefinesBy
  <1> HIDE DEF n
  <1>4. t[n] \in Seq(Seq(Chars))
    BY <1>1
  <1>5. ASSUME Opens(fragments) PROVE Opens(t[n])
    <2>1. n > 0 /\ Starts(fragments[1])
      BY <1>5 DEF Opens, n
    <2>2. Opens(t[1])
      <3>1. 1 \in 1..n /\ 1 - 1 = 0 /\ 0 \in 0..n
        BY <1>1, <2>1
      <3>2. t[1] = Refine(<<>>, fragments[1], sep, size) /\ <<>> \in Seq(Seq(Chars))
        BY <1>3, <3>1
      <3> QED BY <1>1, <2>1, <3>1, <3>2, RefineTyped
    <2>3. ASSUME NEW i \in 1..n, i < n, Opens(t[i]) PROVE Opens(t[i + 1])
      <3>1. i + 1 \in 1..n /\ (i + 1) - 1 = i /\ i \in 0..n
        BY <1>1, <2>3
      <3>2. t[i + 1] = Refine(t[i], fragments[i + 1], sep, size)
        BY <1>3, <3>1
      <3>3. t[i] \in Seq(Seq(Chars)) /\ fragments[i + 1] \in Seq(Chars)
        BY <1>1, <3>1
      <3> QED BY <2>3, <3>2, <3>3, RefineTyped
    <2> QED BY <1>1, <2>1, <2>2, <2>3, OpensStill
  <1>6. ASSUME sep = <<>>, size \in Nat, size > 0 PROVE Short(t[n], size)
    <2> DEFINE S == {i \in 0..n : Short(t[i], size)}
    <2>1. 0 \in S
      <3>1. Len(<<>>) = 0
        OBVIOUS
      <3> QED BY <1>1, <1>3, <3>1 DEF Short
    <2>2. ASSUME NEW i \in 0..n, i \in S /\ i < n PROVE i + 1 \in S
      <3>1. i + 1 \in 1..n /\ (i + 1) - 1 = i /\ i + 1 \in 0..n
        BY <1>1, <2>2
      <3>2. t[i + 1] = Refine(t[i], fragments[i + 1], <<>>, size)
        BY <1>3, <1>6, <3>1
      <3>3. t[i] \in Seq(Seq(Chars)) /\ fragments[i + 1] \in Seq(Chars)
        BY <1>1, <3>1
      <3> QED BY <1>6, <2>2, <3>1, <3>2, <3>3, RefineShort
    <2>3. \A i \in 0..n : i \in S
      <3> HIDE DEF S
      <3> QED BY <1>1, <2>1, <2>2, InductionUpTo
    <2>4. n \in S
      <3> HIDE DEF S
      <3> QED BY <1>1, <2>3
    <2> QED BY <2>4
  <1> QED BY <1>3, <1>4, <1>5, <1>6

LEMMA SeparatorsSplit ==
    /\ Len(Separators) = 5 /\ DOMAIN Separators = 1..5
    /\ \A i \in 1..5 : Separators[i] = <<>> \/ Splits(Separators[i])
    /\ Separators[5] = <<>>
  <1>1. /\ Len(Separators) = 5 /\ DOMAIN Separators = 1..5 /\ Separators[5] = <<>>
        /\ Separators[1] = <<"line", "line">> /\ Separators[2] = <<"line">>
        /\ Separators[3] = <<"dot", "space">> /\ Separators[4] = <<"space">>
    BY DEF Separators
  <1>2. Splits(<<"line", "line">>)
    BY DEF Splits, Kinds
  <1>3. Splits(<<"line">>)
    BY DEF Splits, Kinds
  <1>4. Splits(<<"dot", "space">>)
    <2>1. "line" \notin ToSet(<<"dot", "space">>)
      BY DEF ToSet
    <2> QED BY <2>1 DEF Splits, Kinds
  <1>5. Splits(<<"space">>)
    <2>1. "line" \notin ToSet(<<"space">>)
      BY DEF ToSet
    <2> QED BY <2>1 DEF Splits, Kinds
  <1> QED BY <1>1, <1>2, <1>3, <1>4, <1>5

SplitsBy(t, n, s, size) ==
    /\ t[0] = << s >> /\ \A i \in 1..n : t[i] = Refined(t[i - 1], Separators[i], size)
    /\ t[n] = Fragments(s, size)

LEMMA FragmentsPasses ==
    ASSUME NEW text \in Seq(Chars), NEW size, NEW n, n = Len(Separators)
    PROVE  \E t \in [0..n -> Seq(Seq(Chars))] : SplitsBy(t, n, text, size)
  <1> DEFINE V    == Seq(Seq(Chars))
             F    == [p \in V \X (1..n) |-> Refined(p[1], Separators[p[2]], size)]
             C1(h) == h = [s \in SUBSET (1..n) |->
                              IF s = {} THEN << text >>
                              ELSE Refined(h[s \ {Max(s)}], Separators[Max(s)], size)]
             it   == CHOOSE h : C1(h)
  <1>1. /\ DOMAIN Separators = 1..n /\ n \in Nat
        /\ \A i \in 1..n : Separators[i] = <<>> \/ Splits(Separators[i])
    BY SeparatorsSplit
  <1>2. << text >> \in V
    OBVIOUS
  <1>3. F \in [V \X (1..n) -> V]
    <2> HIDE DEF V
    <2> SUFFICES ASSUME NEW p \in V \X (1..n)
                 PROVE  Refined(p[1], Separators[p[2]], size) \in V
      OBVIOUS
    <2>1. p[1] \in Seq(Seq(Chars)) /\ p[2] \in 1..n
      BY DEF V
    <2> QED BY <1>1, <2>1, RefinedTyped DEF V
  <1>4. \A v \in V, i \in 1..n : F[<<v, i>>] = Refined(v, Separators[i], size)
    <2> HIDE DEF V
    <2> QED OBVIOUS
  <1>5. Fragments(text, size) = it[1..n]
    BY <1>1 DEF Fragments, FoldLeft, MapThenFoldSet
  <1> HIDE DEF F, V
  <1>6. C1(it)
    <2>1. PICK g \in [SUBSET (1..n) -> V] : IsFold(g, F, << text >>, n)
      BY <1>1, <1>2, <1>3, FoldExists
    <2>2. ASSUME NEW s \in SUBSET (1..n), s # {}
          PROVE  g[s] = Refined(g[s \ {Max(s)}], Separators[Max(s)], size)
      <3>1. g[s] = F[<<g[s \ {Max(s)}], Max(s)>>]
        BY <2>1, <2>2 DEF IsFold
      <3>2. Max(s) \in 1..n /\ g[s \ {Max(s)}] \in V
        BY <1>1, <2>2, MaxOfSome
      <3> QED BY <1>4, <3>1, <3>2
    <2>3. g[{}] = << text >> /\ g = [s \in SUBSET (1..n) |-> g[s]]
      BY <2>1 DEF IsFold
    <2>4. C1(g)
      BY <2>2, <2>3
    <2> HIDE DEF C1
    <2> QED BY <2>4
  <1> HIDE DEF it
  <1>7. Advances(it, F, << text >>, n, V)
    <2>1. it[{}] = << text >>
      BY <1>6
    <2>2. ASSUME NEW i \in 1..n, it[1..(i - 1)] \in V
          PROVE  it[1..i] = F[<<it[1..(i - 1)], i>>]
      <3>1. 1..i \in SUBSET (1..n) /\ 1..i # {} /\ Max(1..i) = i /\ (1..i) \ {i} = 1..(i - 1)
        BY <1>1, MaxOfFirst
      <3>2. it[1..i] = Refined(it[1..(i - 1)], Separators[i], size)
        BY <1>6, <3>1
      <3> QED BY <1>4, <2>2, <3>2
    <2> QED BY <1>2, <1>3, <2>1, <2>2 DEF Advances
  <1>8. PICK t \in [0..n -> V] : Passes(t, F, << text >>, n) /\ t[n] = it[1..n]
    <2> DEFINE base == << text >>
    <2>1. Advances(it, F, base, n, V)
      BY <1>7
    <2> HIDE DEF base
    <2>2. \E t \in [0..n -> V] : Passes(t, F, base, n) /\ t[n] = it[1..n]
      BY <1>1, <2>1, FoldPasses
    <2> QED BY <2>2 DEF base
  <1>9. t[0] = << text >> /\ \A i \in 1..n : t[i] = F[<<t[i - 1], i>>]
    BY <1>8 DEF Passes
  <1>10. ASSUME NEW i \in 1..n
         PROVE  t[i] = Refined(t[i - 1], Separators[i], size)
    <2>1. i - 1 \in 0..n
      BY <1>1
    <2> QED BY <1>4, <1>8, <1>9, <2>1
  <1> QED BY <1>5, <1>8, <1>9, <1>10 DEF V, SplitsBy

(* Down to single characters every piece fits. *)
LEMMA FragmentsFit ==
    ASSUME NEW s \in Seq(Chars), Starts(s), NEW size \in Nat, size > 0
    PROVE  /\ Fragments(s, size) \in Seq(Seq(Chars))
           /\ Opens(Fragments(s, size)) /\ Short(Fragments(s, size), size)
  <1> DEFINE n == 5
  <1>1. n = 5
    OBVIOUS
  <1> HIDE DEF n
  <1>2. PICK t \in [0..n -> Seq(Seq(Chars))] : SplitsBy(t, n, s, size)
    BY <1>1, SeparatorsSplit, FragmentsPasses
  <1>3. /\ t[0] = << s >> /\ \A i \in 1..n : t[i] = Refined(t[i - 1], Separators[i], size)
        /\ t[n] = Fragments(s, size)
    BY <1>2 DEF SplitsBy
  <1>4. Opens(t[0])
    BY <1>3 DEF Opens
  <1>5. ASSUME NEW i \in 0..n, i < n, Opens(t[i])
        PROVE  /\ t[i] \in Seq(Seq(Chars)) /\ i + 1 \in 1..n
               /\ t[i + 1] = Refined(t[i], Separators[i + 1], size)
               /\ Opens(t[i + 1])
    <2>1. i + 1 \in 1..n /\ (i + 1) - 1 = i
      BY <1>1, <1>5
    <2>2. t[i + 1] = Refined(t[i], Separators[i + 1], size) /\ t[i] \in Seq(Seq(Chars))
      BY <1>3, <2>1
    <2>3. Separators[i + 1] = <<>> \/ Splits(Separators[i + 1])
      BY <1>1, <2>1, SeparatorsSplit
    <2> QED BY <1>5, <2>1, <2>2, <2>3, RefinedTyped
  <1>6. Opens(t[4]) /\ Opens(t[5]) /\ t[5] = Refined(t[4], <<>>, size) /\ t[4] \in Seq(Seq(Chars))
    <2>1. Opens(t[1])
      BY <1>1, <1>4, <1>5
    <2>2. Opens(t[2])
      BY <1>1, <1>5, <2>1
    <2>3. Opens(t[3])
      BY <1>1, <1>5, <2>2
    <2>4. Opens(t[4])
      BY <1>1, <1>5, <2>3
    <2> QED BY <1>1, <1>5, <2>4, SeparatorsSplit
  <1> DEFINE none == <<>>
             f == t[4]
  <1>7. f \in Seq(Seq(Chars)) /\ none = <<>> /\ t[5] = Refined(f, none, size)
    BY <1>6
  <1> HIDE DEF none, f
  <1>8. Refined(f, none, size) \in Seq(Seq(Chars)) /\ Short(Refined(f, none, size), size)
    BY <1>7, RefinedTyped
  <1> QED BY <1>1, <1>3, <1>6, <1>7, <1>8

-----------------------------------------------------------------------------
(* Chunks that are listed are the pieces, none blank, each with the end of *)
(* the one before it and of at most the size, the overlap and one space.   *)
THEOREM SplitIsFair ==
    ASSUME NEW text \in Seq(Chars), NEW size \in Nat, size > 0, NEW overlap \in Nat
    PROVE  /\ Split(text, size, overlap) \in Seq(Seq(Chars))
           /\ ChunksFit(Split(text, size, overlap), size, overlap)
  <1> DEFINE s == Strip(text)
             fragments == Fragments(s, size)
             chunks == AllChunks(Merge(fragments, size, overlap))
  <1>1. s \in Seq(Chars) /\ (s = <<>> \/ Starts(s))
    <2>1. ~Worded(text) => s = <<>>
      BY StripFacts
    <2>2. Worded(text) => Len(s) > 0 /\ ~IsBlank(s[1])
      BY StripFacts
    <2>3. s \in Seq(Chars)
      BY StripFacts
    <2> QED BY <2>1, <2>2, <2>3 DEF Starts
  <1>2. Split(text, size, overlap) = IF s = <<>> THEN <<>> ELSE chunks
    BY DEF Split
  <1> HIDE DEF s
  <1>3. CASE s = <<>>
    <2>1. <<>> \in Seq(Seq(Chars)) /\ Len(<<>>) = 0
      OBVIOUS
    <2>2. ChunksFit(<<>>, size, overlap)
      BY <2>1 DEF ChunksFit
    <2> QED BY <1>2, <1>3, <2>1, <2>2
  <1>4. CASE s # <<>>
    <2>1. fragments \in Seq(Seq(Chars)) /\ Opens(fragments) /\ Short(fragments, size)
      BY <1>1, <1>4, FragmentsFit
    <2> HIDE DEF fragments
    <2>2. /\ Len(fragments) > 0 /\ Worded(fragments[1])
          /\ \A i \in 1..Len(fragments) : Len(fragments[i]) <= size
      <3>1. Len(fragments) > 0 /\ Starts(fragments[1]) /\ fragments[1] \in Seq(Chars)
        BY <2>1 DEF Opens
      <3>2. 1 \in 1..Len(fragments[1]) /\ ~IsBlank(fragments[1][1])
        BY <3>1 DEF Starts
      <3>3. Worded(fragments[1])
        BY <3>2 DEF Worded
      <3> QED BY <2>1, <3>1, <3>3 DEF Short
    <2>3. Space \in Chars
      BY DEF Space, Char, Chars, Kinds
    <2>4. chunks \in Seq(Seq(Chars)) /\ ChunksFit(chunks, size, overlap)
      BY <2>1, <2>2, <2>3, PackingIsFair
    <2> QED BY <1>2, <1>4, <2>4
  <1> QED BY <1>3, <1>4

-----------------------------------------------------------------------------
Numbered(p, m) == {[ordinal |-> j - 1, text |-> p[j]] : j \in 1..m}

LEMMA NumberedCount ==
    ASSUME NEW p, NEW m \in Nat
    PROVE  IsFiniteSet(Numbered(p, m)) /\ Cardinality(Numbered(p, m)) = m
  <1> DEFINE f == [j \in 1..m |-> [ordinal |-> j - 1, text |-> p[j]]]
  <1>1. f \in [1..m -> Numbered(p, m)]
    BY DEF Numbered
  <1>2. ASSUME NEW i \in 1..m, NEW j \in 1..m, f[i] = f[j] PROVE i = j
    <2>1. f[i].ordinal = i - 1 /\ f[j].ordinal = j - 1
      OBVIOUS
    <2> HIDE DEF f
    <2> QED BY <1>2, <2>1
  <1>3. \A c \in Numbered(p, m) : \E j \in 1..m : f[j] = c
    BY DEF Numbered
  <1> HIDE DEF f
  <1>4. f \in Bijection(1..m, Numbered(p, m))
    BY <1>1, <1>2, <1>3 DEF Bijection, Injection, Surjection, IsInjective
  <1>5. ExistsBijection(1..m, Numbered(p, m))
    BY <1>4 DEF ExistsBijection
  <1>6. IsFiniteSet(1..m) /\ Cardinality(1..m) = m
    BY FS_Interval
  <1> QED BY <1>5, <1>6, FS_Bijection

(* They are listed in the order in which they are numbered. *)
LEMMA ListIsInOrder ==
    ASSUME NEW X, NEW p \in Seq(X)
    PROVE  ChunkList(Numbered(p, Len(p))) = p
  <1> DEFINE n == Len(p)
             stored == Numbered(p, n)
             before(c) == {d \in stored : d.ordinal < c.ordinal}
             at(i) == (CHOOSE c \in stored : Cardinality(before(c)) = i - 1).text
  <1>1. n \in Nat /\ Cardinality(stored) = n
    BY NumberedCount
  <1>2. ChunkList(stored) = [i \in 1..n |-> at(i)]
    BY <1>1 DEF ChunkList
  <1> HIDE DEF n
  <1>3. ASSUME NEW j \in 1..n, NEW c, c = [ordinal |-> j - 1, text |-> p[j]]
        PROVE  Cardinality(before(c)) = j - 1
    <2>1. before(c) = Numbered(p, j - 1)
      <3>1. ASSUME NEW d \in before(c) PROVE d \in Numbered(p, j - 1)
        <4>1. PICK i \in 1..n : d = [ordinal |-> i - 1, text |-> p[i]]
          BY DEF Numbered
        <4>2. d.ordinal = i - 1 /\ c.ordinal = j - 1 /\ d.ordinal < c.ordinal
          BY <1>3, <4>1
        <4>3. i \in 1..j - 1
          BY <1>1, <4>2
        <4> QED BY <4>1, <4>3 DEF Numbered
      <3>2. ASSUME NEW d \in Numbered(p, j - 1) PROVE d \in before(c)
        <4>1. PICK i \in 1..j - 1 : d = [ordinal |-> i - 1, text |-> p[i]]
          BY DEF Numbered
        <4>2. i \in 1..n /\ d.ordinal < c.ordinal
          BY <1>1, <1>3, <4>1
        <4> QED BY <4>1, <4>2 DEF Numbered
      <3> QED BY <3>1, <3>2
    <2>2. j - 1 \in Nat
      BY <1>1
    <2> HIDE DEF before
    <2> QED BY <2>1, <2>2, NumberedCount
  <1>4. ASSUME NEW i \in 1..n PROVE at(i) = p[i]
    <2> DEFINE c == [ordinal |-> i - 1, text |-> p[i]]
               d == CHOOSE e \in stored : Cardinality(before(e)) = i - 1
    <2>1. c \in stored /\ Cardinality(before(c)) = i - 1
      <3>1. c \in stored
        BY DEF Numbered
      <3> HIDE DEF before
      <3> QED BY <1>3, <3>1
    <2>2. d \in stored /\ Cardinality(before(d)) = i - 1
      <3> HIDE DEF before, stored, c
      <3> QED BY <2>1
    <2> HIDE DEF d
    <2>3. PICK j \in 1..n : d = [ordinal |-> j - 1, text |-> p[j]]
      BY <2>2 DEF Numbered
    <2>4. Cardinality(before(d)) = j - 1
      <3> HIDE DEF before
      <3> QED BY <1>3, <2>3
    <2>5. i = j
      <3> HIDE DEF before
      <3> QED BY <1>1, <2>2, <2>4
    <2>6. d.text = p[i]
      BY <2>3, <2>5
    <2> QED BY <2>6 DEF d
  <1>5. ChunkList(stored) = [i \in 1..n |-> p[i]]
    <2> HIDE DEF at
    <2> QED BY <1>2, <1>4
  <1>6. p = [i \in 1..n |-> p[i]]
    BY DEF n
  <1> QED BY <1>5, <1>6 DEF n

(* No piece of a text is refused. *)
LEMMA PiecesAreListed ==
    ASSUME NEW p \in Seq(Seq(Chars)), NEW size, NEW overlap, ChunksFit(p, size, overlap)
    PROVE  ~ChunksOf(p).refused /\ ChunkList(ChunksOf(p).stored) = p
  <1>1. DOMAIN p = 1..Len(p) /\ \A i \in 1..Len(p) : p[i] \in Seq(Chars)
    OBVIOUS
  <1>2. ASSUME NEW i \in DOMAIN p PROVE Strip(p[i]) # <<>>
    <2>1. p[i] \in Seq(Chars) /\ Worded(p[i])
      BY <1>1 DEF ChunksFit, Fits
    <2>2. Len(Strip(p[i])) > 0
      BY <2>1, StripFacts
    <2> QED BY <2>2
  <1> DEFINE stored == {[ordinal |-> i - 1, text |-> p[i]] : i \in DOMAIN p}
  <1>3. ChunksOf(p) = [refused |-> FALSE, stored |-> stored]
    BY <1>2, Zenon DEF ChunksOf
  <1>4. stored = Numbered(p, Len(p))
    BY <1>1 DEF Numbered
  <1> HIDE DEF stored
  <1>5. ChunkList(Numbered(p, Len(p))) = p
    BY ListIsInOrder
  <1> QED BY <1>3, <1>4, <1>5

-----------------------------------------------------------------------------
(* All letters of the one set stand before those of the other. *)
Precede(before, after) == \A x \in before, y \in after : x.pos < y.pos

LettersIn(s, a, b) == {s[i] : i \in {j \in a..b : s[j].kind = "letter"}}

LEMMA LettersAt ==
    ASSUME NEW s \in Seq(Chars)
    PROVE  /\ Letters(s) = LettersIn(s, 1, Len(s))
           /\ Letters(s) \in SUBSET Chars
           /\ \A i \in 1..Len(s) : s[i].kind = "letter" => s[i] \in Letters(s)
           /\ \A c \in Letters(s) : \E i \in 1..Len(s) : c = s[i] /\ s[i].kind = "letter"
  <1>1. DOMAIN s = 1..Len(s) /\ ToSet(s) = {s[i] : i \in DOMAIN s}
    BY DEF ToSet
  <1>2. ToSet(s) \in SUBSET Chars
    BY <1>1
  <1> QED BY <1>1, <1>2 DEF Letters, LettersIn

(* A part of a piece, and what it has of the letters. *)
LEMMA CutLetters ==
    ASSUME NEW s \in Seq(Chars), NEW a \in 1..Len(s) + 1, NEW b \in a - 1..Len(s)
    PROVE  /\ SubSeq(s, a, b) \in Seq(Chars)
           /\ Letters(SubSeq(s, a, b)) = LettersIn(s, a, b)
           /\ LettersIn(s, a, b) \in SUBSET Letters(s)
           /\ Ascends(s) => Ascends(SubSeq(s, a, b))
  <1> DEFINE t == SubSeq(s, a, b)
  <1>1. /\ t \in Seq(Chars) /\ Len(t) = b - a + 1
        /\ \A i \in 1..b - a + 1 : t[i] = s[a + i - 1]
    BY SubSeqShape
  <1> HIDE DEF t
  <1>2. ASSUME NEW c \in Letters(t) PROVE c \in LettersIn(s, a, b)
    <2>1. PICK i \in 1..Len(t) : c = t[i] /\ t[i].kind = "letter"
      BY <1>1, LettersAt
    <2>2. a + i - 1 \in a..b /\ t[i] = s[a + i - 1]
      BY <1>1
    <2> QED BY <2>1, <2>2 DEF LettersIn
  <1>3. ASSUME NEW c \in LettersIn(s, a, b) PROVE c \in Letters(t) /\ c \in Letters(s)
    <2>1. PICK j \in a..b : c = s[j] /\ s[j].kind = "letter"
      BY DEF LettersIn
    <2>2. j \in 1..Len(s) /\ j - a + 1 \in 1..Len(t) /\ t[j - a + 1] = s[j]
      BY <1>1
    <2> QED BY <1>1, <2>1, <2>2, LettersAt
  <1>4. ASSUME Ascends(s) PROVE Ascends(t)
    <2> SUFFICES ASSUME NEW i \in 1..Len(t), NEW j \in 1..Len(t), i < j,
                        t[i].kind = "letter", t[j].kind = "letter"
                 PROVE  t[i].pos < t[j].pos
      BY <1>1 DEF Ascends
    <2>1. t[i] = s[a + i - 1] /\ t[j] = s[a + j - 1]
      BY <1>1
    <2>2. a + i - 1 \in 1..Len(s) /\ a + j - 1 \in 1..Len(s) /\ a + i - 1 < a + j - 1
      BY <1>1
    <2> QED BY <1>4, <2>1, <2>2 DEF Ascends
  <1> QED BY <1>1, <1>2, <1>3, <1>4 DEF t

LEMMA JoinLetters ==
    ASSUME NEW s \in Seq(Chars), NEW t \in Seq(Chars)
    PROVE  /\ s \o t \in Seq(Chars) /\ Letters(s \o t) = Letters(s) \cup Letters(t)
           /\ Ascends(s) /\ Ascends(t) /\ Precede(Letters(s), Letters(t)) => Ascends(s \o t)
  <1> DEFINE u == s \o t
             m == Len(s)
             n == Len(t)
  <1>1. /\ u \in Seq(Chars) /\ Len(u) = m + n /\ m \in Nat /\ n \in Nat
        /\ \A i \in 1..m : u[i] = s[i]
        /\ \A i \in 1..n : u[m + i] = t[i]
    BY JoinShape
  <1> HIDE DEF u
  <1>2. ASSUME NEW i \in 1..Len(u)
        PROVE  \/ i \in 1..m /\ u[i] = s[i]
               \/ i - m \in 1..n /\ u[i] = t[i - m]
    <2>1. CASE i <= m
      BY <1>1, <2>1
    <2>2. CASE ~(i <= m)
      <3>1. i - m \in 1..n /\ m + (i - m) = i
        BY <1>1, <2>2
      <3> QED BY <1>1, <3>1
    <2> QED BY <2>1, <2>2
  <1>3. ASSUME NEW c \in Letters(u) PROVE c \in Letters(s) \cup Letters(t)
    <2>1. PICK i \in 1..Len(u) : c = u[i] /\ u[i].kind = "letter"
      BY <1>1, LettersAt
    <2> QED BY <1>2, <2>1, LettersAt
  <1>4. ASSUME NEW c \in Letters(s) PROVE c \in Letters(u)
    <2>1. PICK i \in 1..m : c = s[i] /\ s[i].kind = "letter"
      BY LettersAt
    <2>2. i \in 1..Len(u) /\ u[i] = s[i]
      BY <1>1
    <2> QED BY <1>1, <2>1, <2>2, LettersAt
  <1>5. ASSUME NEW c \in Letters(t) PROVE c \in Letters(u)
    <2>1. PICK i \in 1..n : c = t[i] /\ t[i].kind = "letter"
      BY LettersAt
    <2>2. m + i \in 1..Len(u) /\ u[m + i] = t[i]
      BY <1>1
    <2> QED BY <1>1, <2>1, <2>2, LettersAt
  <1>6. ASSUME Ascends(s), Ascends(t), Precede(Letters(s), Letters(t)) PROVE Ascends(u)
    <2> SUFFICES ASSUME NEW i \in 1..Len(u), NEW j \in 1..Len(u), i < j,
                        u[i].kind = "letter", u[j].kind = "letter"
                 PROVE  u[i].pos < u[j].pos
      BY <1>1 DEF Ascends
    <2>1. CASE i \in 1..m /\ u[i] = s[i] /\ j \in 1..m /\ u[j] = s[j]
      BY <1>6, <2>1 DEF Ascends
    <2>2. CASE i \in 1..m /\ u[i] = s[i] /\ j - m \in 1..n /\ u[j] = t[j - m]
      <3>1. s[i] \in Letters(s) /\ t[j - m] \in Letters(t)
        BY <2>2, LettersAt
      <3> QED BY <1>6, <2>2, <3>1 DEF Precede
    <2>3. CASE i - m \in 1..n /\ u[i] = t[i - m] /\ j - m \in 1..n /\ u[j] = t[j - m]
      <3>1. i - m < j - m
        BY <1>1
      <3> QED BY <1>6, <2>3, <3>1 DEF Ascends
    <2>4. CASE i - m \in 1..n /\ j \in 1..m
      BY <1>1, <2>4
    <2> QED BY <1>2, <2>1, <2>2, <2>3, <2>4
  <1> QED BY <1>1, <1>3, <1>4, <1>5, <1>6 DEF u

(* A piece without letters, as what the chunker itself puts in. *)
LEMMA WithoutLetters ==
    ASSUME NEW s \in Seq(Chars), \A i \in 1..Len(s) : s[i].kind # "letter"
    PROVE  Letters(s) = {} /\ Ascends(s)
  <1>1. DOMAIN s = 1..Len(s)
    OBVIOUS
  <1>2. Letters(s) = {}
    BY LettersAt
  <1> QED BY <1>1, <1>2 DEF Ascends

(* Blanks are no letters, and stripping them is no harm. *)
LEMMA StripLetters ==
    ASSUME NEW s \in Seq(Chars)
    PROVE  /\ RStrip(s) \in Seq(Chars) /\ Letters(RStrip(s)) = Letters(s)
           /\ Ascends(s) => Ascends(RStrip(s))
           /\ Strip(s) \in Seq(Chars) /\ Letters(Strip(s)) = Letters(s)
           /\ Ascends(s) => Ascends(Strip(s))
  <1>1. CASE ~Worded(s)
    <2>1. RStrip(s) = <<>> /\ Strip(s) = <<>>
      BY <1>1, RStripShape, StripShape
    <2>2. \A i \in 1..Len(s) : s[i].kind # "letter"
      BY <1>1 DEF Worded, IsBlank
    <2> DEFINE none == <<>>
    <2>3. none \in Seq(Chars) /\ Len(none) = 0 /\ RStrip(s) = none /\ Strip(s) = none
          /\ \A i \in 1..Len(none) : none[i].kind # "letter"
      BY <2>1
    <2> HIDE DEF none
    <2>4. Letters(none) = {} /\ Ascends(none)
      BY <2>3, WithoutLetters
    <2>5. Letters(s) = {}
      BY <2>2, WithoutLetters
    <2> QED BY <2>3, <2>4, <2>5
  <1>2. CASE Worded(s)
    <2>0. \A i \in 1..Len(s) : s[i].kind = "letter" => ~IsBlank(s[i])
      BY DEF IsBlank
    <2>1. PICK b \in 1..Len(s) : /\ \A i \in 1..Len(s) : ~IsBlank(s[i]) => i <= b
                                 /\ RStrip(s) = SubSeq(s, 1, b)
      BY <1>2, RStripShape
    <2>2. PICK c, d \in 1..Len(s) : Spans(s, c, d) /\ Strip(s) = SubSeq(s, c, d)
      BY <1>2, StripShape
    <2>3. c <= d /\ \A i \in 1..Len(s) : ~IsBlank(s[i]) => c <= i /\ i <= d
      BY <2>2 DEF Spans
    <2> DEFINE one == 1
    <2>4. one \in 1..Len(s) + 1 /\ b \in one - 1..Len(s)
          /\ c \in 1..Len(s) + 1 /\ d \in c - 1..Len(s)
      BY <2>3
    <2>5. LettersIn(s, one, b) = Letters(s)
      BY <2>0, <2>1, LettersAt DEF LettersIn
    <2>6. LettersIn(s, c, d) = Letters(s)
      BY <2>0, <2>3, LettersAt DEF LettersIn
    <2>7. RStrip(s) = SubSeq(s, one, b)
      BY <2>1
    <2> HIDE DEF one
    <2> QED BY <2>2, <2>4, <2>5, <2>6, <2>7, CutLetters
  <1> QED BY <1>1, <1>2

LEMMA SpacedLetters ==
    ASSUME NEW s \in Seq(Chars), NEW t \in Seq(Chars)
    PROVE  LET u == Strip(s \o <<Space>> \o t)
           IN  /\ u \in Seq(Chars) /\ Letters(u) = Letters(s) \cup Letters(t)
               /\ Ascends(s) /\ Ascends(t) /\ Precede(Letters(s), Letters(t)) => Ascends(u)
  <1> DEFINE space == <<Space>>
             g == s \o space
  <1>1. space \in Seq(Chars) /\ \A i \in 1..Len(space) : space[i].kind # "letter"
    BY DEF Space, Char, Chars, Kinds
  <1> HIDE DEF space
  <1>2. Letters(space) = {} /\ Ascends(space)
    BY <1>1, WithoutLetters
  <1>3. Precede(Letters(s), Letters(space))
    BY <1>2 DEF Precede
  <1>4. g \in Seq(Chars) /\ Letters(g) = Letters(s) /\ (Ascends(s) => Ascends(g))
    <2>1. /\ g \in Seq(Chars) /\ Letters(g) = Letters(s) \cup Letters(space)
          /\ Ascends(s) /\ Ascends(space) /\ Precede(Letters(s), Letters(space)) => Ascends(g)
      BY <1>1, JoinLetters
    <2> HIDE DEF g
    <2> QED BY <1>2, <1>3, <2>1
  <1> HIDE DEF g
  <1> DEFINE u == g \o t
  <1>5. /\ u \in Seq(Chars) /\ Letters(u) = Letters(s) \cup Letters(t)
        /\ Ascends(g) /\ Ascends(t) /\ Precede(Letters(s), Letters(t)) => Ascends(u)
    BY <1>4, JoinLetters
  <1>6. s \o <<Space>> \o t = u
    BY DEF u, g, space
  <1> HIDE DEF u
  <1>7. /\ Strip(u) \in Seq(Chars) /\ Letters(Strip(u)) = Letters(u)
        /\ Ascends(u) => Ascends(Strip(u))
    BY <1>5, StripLetters
  <1> QED BY <1>4, <1>5, <1>6, <1>7

-----------------------------------------------------------------------------
(* A list of pieces has these letters, each once and in their order. *)
Spells(pieces, letters) ==
    /\ \A i \in 1..Len(pieces) : Ascends(pieces[i])
    /\ \A i, j \in 1..Len(pieces) : i < j => Precede(Letters(pieces[i]), Letters(pieces[j]))
    /\ letters = UNION {Letters(pieces[i]) : i \in 1..Len(pieces)}

LEMMA SpellsOne ==
    ASSUME NEW s \in Seq(Chars), Ascends(s)
    PROVE  << s >> \in Seq(Seq(Chars)) /\ Spells(<< s >>, Letters(s))
  <1> DEFINE p == << s >>
  <1>1. p \in Seq(Seq(Chars)) /\ Len(p) = 1 /\ \A i \in 1..1 : p[i] = s
    OBVIOUS
  <1> HIDE DEF p
  <1>2. \A i \in 1..1 : i = 1
    OBVIOUS
  <1>3. UNION {Letters(p[i]) : i \in 1..Len(p)} = Letters(s)
    BY <1>1
  <1>4. Spells(p, Letters(s))
    BY <1>1, <1>2, <1>3 DEF Spells
  <1> QED BY <1>1, <1>4 DEF p

LEMMA SpellsNothing ==
    <<>> \in Seq(Seq(Chars)) /\ Spells(<<>>, {})
  <1>1. <<>> \in Seq(Seq(Chars)) /\ Len(<<>>) = 0
    OBVIOUS
  <1>2. \A i \in 1..0 : FALSE
    OBVIOUS
  <1> QED BY <1>1, <1>2 DEF Spells

LEMMA SpellsJoin ==
    ASSUME NEW p \in Seq(Seq(Chars)), NEW q \in Seq(Seq(Chars)), NEW S, NEW R,
           Spells(p, S), Spells(q, R), Precede(S, R)
    PROVE  p \o q \in Seq(Seq(Chars)) /\ Spells(p \o q, S \cup R)
  <1> DEFINE u == p \o q
             m == Len(p)
             n == Len(q)
  <1>1. /\ u \in Seq(Seq(Chars)) /\ Len(u) = m + n /\ m \in Nat /\ n \in Nat
        /\ \A i \in 1..m : u[i] = p[i]
        /\ \A i \in 1..n : u[m + i] = q[i]
    <2> DEFINE C == Seq(Chars)
    <2>1. p \in Seq(C) /\ q \in Seq(C)
      OBVIOUS
    <2> HIDE DEF C
    <2>2. /\ p \o q \in Seq(C) /\ Len(p \o q) = Len(p) + Len(q)
          /\ \A i \in 1..Len(p) : (p \o q)[i] = p[i]
          /\ \A i \in 1..Len(q) : (p \o q)[Len(p) + i] = q[i]
      BY <2>1, JoinShape
    <2> QED BY <2>1, <2>2 DEF C
  <1> HIDE DEF u
  <1>2. ASSUME NEW i \in 1..m + n
        PROVE  \/ i \in 1..m /\ u[i] = p[i]
               \/ i - m \in 1..n /\ u[i] = q[i - m]
    <2>1. CASE i <= m
      BY <1>1, <2>1
    <2>2. CASE ~(i <= m)
      <3>1. i - m \in 1..n /\ m + (i - m) = i
        BY <1>1, <2>2
      <3> QED BY <1>1, <3>1
    <2> QED BY <2>1, <2>2
  <1>3. /\ \A i \in 1..m : Ascends(p[i]) /\ Letters(p[i]) \in SUBSET S
        /\ \A i \in 1..n : Ascends(q[i]) /\ Letters(q[i]) \in SUBSET R
    BY DEF Spells
  <1>4. \A i \in 1..m + n : Ascends(u[i])
    BY <1>2, <1>3
  <1>5. ASSUME NEW i \in 1..m + n, NEW j \in 1..m + n, i < j
        PROVE  Precede(Letters(u[i]), Letters(u[j]))
    <2>1. CASE i \in 1..m /\ u[i] = p[i] /\ j \in 1..m /\ u[j] = p[j]
      BY <1>5, <2>1 DEF Spells
    <2>2. CASE i \in 1..m /\ u[i] = p[i] /\ j - m \in 1..n /\ u[j] = q[j - m]
      BY <1>3, <2>2 DEF Precede
    <2>3. CASE i - m \in 1..n /\ u[i] = q[i - m] /\ j - m \in 1..n /\ u[j] = q[j - m]
      <3>1. i - m < j - m
        BY <1>1, <1>5
      <3> QED BY <2>3, <3>1 DEF Spells
    <2>4. CASE i - m \in 1..n /\ j \in 1..m
      BY <1>1, <1>5, <2>4
    <2> QED BY <1>2, <2>1, <2>2, <2>3, <2>4
  <1>6. UNION {Letters(u[i]) : i \in 1..m + n} = S \cup R
    <2> DEFINE U == UNION {Letters(u[i]) : i \in 1..m + n}
    <2>1. ASSUME NEW c \in U PROVE c \in S \cup R
      <3>1. PICK i \in 1..m + n : c \in Letters(u[i])
        OBVIOUS
      <3> QED BY <1>2, <1>3, <3>1
    <2>2. ASSUME NEW c \in S PROVE c \in U
      <3>1. PICK i \in 1..m : c \in Letters(p[i])
        BY DEF Spells
      <3>2. i \in 1..m + n /\ u[i] = p[i]
        BY <1>1
      <3> QED BY <3>1, <3>2
    <2>3. ASSUME NEW c \in R PROVE c \in U
      <3>1. PICK i \in 1..n : c \in Letters(q[i])
        BY DEF Spells
      <3>2. m + i \in 1..m + n /\ u[m + i] = q[i]
        BY <1>1
      <3> QED BY <3>1, <3>2
    <2> HIDE DEF U
    <2>4. U = S \cup R
      BY <2>1, <2>2, <2>3
    <2> QED BY <2>4 DEF U
  <1> QED BY <1>1, <1>4, <1>5, <1>6 DEF Spells, u

(* The letters of the first pieces. *)
LettersUpTo(pieces, n) == UNION {Letters(pieces[i]) : i \in 1..n}

LEMMA SpellsUpTo ==
    ASSUME NEW p \in Seq(Seq(Chars)), NEW S, Spells(p, S)
    PROVE  /\ LettersUpTo(p, 0) = {} /\ LettersUpTo(p, Len(p)) = S
           /\ \A i \in 1..Len(p) :
                /\ LettersUpTo(p, i) = LettersUpTo(p, i - 1) \cup Letters(p[i])
                /\ Precede(LettersUpTo(p, i - 1), Letters(p[i]))
                /\ Ascends(p[i])
  <1>1. LettersUpTo(p, 0) = {} /\ LettersUpTo(p, Len(p)) = S
    BY DEF LettersUpTo, Spells
  <1>2. ASSUME NEW i \in 1..Len(p)
        PROVE  /\ LettersUpTo(p, i) = LettersUpTo(p, i - 1) \cup Letters(p[i])
               /\ Precede(LettersUpTo(p, i - 1), Letters(p[i]))
               /\ Ascends(p[i])
    <2>1. 1..i = (1..i - 1) \cup {i}
      OBVIOUS
    <2>2. LettersUpTo(p, i) = LettersUpTo(p, i - 1) \cup Letters(p[i])
      BY <2>1 DEF LettersUpTo
    <2>3. \A j \in 1..i - 1 : j \in 1..Len(p) /\ j < i
      OBVIOUS
    <2>4. Precede(LettersUpTo(p, i - 1), Letters(p[i]))
      BY <2>3 DEF LettersUpTo, Spells, Precede
    <2> QED BY <2>2, <2>4 DEF Spells
  <1> QED BY <1>1, <1>2

-----------------------------------------------------------------------------
(* Separators have no letter. *)
Wordless(sep) == \A i \in 1..Len(sep) : sep[i] # "letter"

LEMMA SeparatorsWordless ==
    \A i \in 1..Len(Separators) : Wordless(Separators[i])
  BY DEF Separators, Wordless

(* The text from its character number i on is the piece up to the next     *)
(* separator, the separator, and the text after it.                        *)
LEMMA FoundLetters ==
    ASSUME NEW s \in Seq(Chars), Ascends(s), NEW sep \in Seq(Kinds), Len(sep) > 0,
           Wordless(sep), NEW i \in 1..Len(s) + 1, NEW j \in FoundFrom(s, sep, i)
    PROVE  LET k == j + Len(sep)
               n == Len(s)
           IN  /\ j - 1 \in i - 1..n /\ k \in i + 1..n + 1
               /\ LettersIn(s, i, n) = LettersIn(s, i, j - 1) \cup LettersIn(s, k, n)
               /\ Precede(LettersIn(s, i, j - 1), LettersIn(s, k, n))
  <1> DEFINE l == Len(sep)
             k == j + l
             n == Len(s)
  <1>1. /\ j \in i..n - l + 1 /\ KindsOf(SubSeq(s, j, k - 1)) = sep
        /\ l \in Nat /\ l > 0 /\ n \in Nat
    BY DEF FoundFrom
  <1>2. ASSUME NEW x \in j..k - 1 PROVE s[x].kind # "letter"
    <2> DEFINE e == k - 1
               t == SubSeq(s, j, e)
    <2>1. j \in 1..n + 1 /\ e \in j - 1..n
      BY <1>1
    <2>2. t \in Seq(Chars) /\ Len(t) = e - j + 1 /\ \A y \in 1..e - j + 1 : t[y] = s[j + y - 1]
      <3> HIDE DEF e
      <3> QED BY <2>1, SubSeqShape
    <2>3. sep = [y \in DOMAIN t |-> t[y].kind]
      BY <1>1 DEF KindsOf
    <2> DEFINE y == x - j + 1
    <2> HIDE DEF t
    <2>4. y \in 1..l /\ y \in DOMAIN t /\ t[y] = s[x]
      BY <1>1, <2>2
    <2>5. sep[y] = s[x].kind
      BY <2>3, <2>4
    <2> QED BY <2>4, <2>5 DEF Wordless
  <1>3. j - 1 \in i - 1..n /\ k \in i + 1..n + 1
    BY <1>1
  <1> HIDE DEF k
  <1>4. i..n = (i..j - 1) \cup (j..k - 1) \cup (k..n)
    BY <1>1, <1>3 DEF k
  <1>5. LettersIn(s, i, n) = LettersIn(s, i, j - 1) \cup LettersIn(s, k, n)
    BY <1>2, <1>4 DEF LettersIn
  <1>6. \A x \in i..j - 1, y \in k..n : x \in DOMAIN s /\ y \in DOMAIN s /\ x < y
    BY <1>1, <1>3 DEF k
  <1>7. Precede(LettersIn(s, i, j - 1), LettersIn(s, k, n))
    BY <1>6 DEF LettersIn, Precede, Ascends
  <1> QED BY <1>3, <1>5, <1>7 DEF k

LEMMA PartsSpell ==
    ASSUME NEW s \in Seq(Chars), Ascends(s), NEW sep \in Seq(Kinds), Len(sep) > 0,
           Wordless(sep)
    PROVE  Parts(s, sep) \in Seq(Seq(Chars)) /\ Spells(Parts(s, sep), Letters(s))
  <1> DEFINE n == Len(s)
  <1>1. PICK g \in [1..n + 1 -> Lists(Chars)] : PartsBy(g, s, sep)
    BY PartsPasses
  <1>2. /\ n \in Nat /\ g[1] = Parts(s, sep)
        /\ \A i \in 1..n + 1 : g[i] \in Seq(Seq(Chars))
        /\ \A i \in 1..n + 1 :
             g[i] = IF FoundFrom(s, sep, i) = {} THEN << SubSeq(s, i, n) >>
                    ELSE << SubSeq(s, i, Min(FoundFrom(s, sep, i)) - 1) >>
                         \o g[Min(FoundFrom(s, sep, i)) + Len(sep)]
    <2>1. n \in Nat /\ g[1] = Parts(s, sep) /\ \A i \in 1..n + 1 : g[i] \in Lists(Chars)
      BY <1>1 DEF PartsBy
    <2> HIDE DEF n
    <2> QED BY <1>1, <2>1 DEF PartsBy, Lists, n
  <1> DEFINE T == {m \in 0..n + 1 : \A i \in 1..n + 1 :
                     i > n + 1 - m => Spells(g[i], LettersIn(s, i, n))}
  <1>3. 0 \in T
    OBVIOUS
  <1>4. ASSUME NEW m \in 0..n + 1, m \in T, m < n + 1 PROVE m + 1 \in T
    <2> SUFFICES ASSUME NEW i \in 1..n + 1, i > n + 1 - (m + 1)
                 PROVE  Spells(g[i], LettersIn(s, i, n))
      BY <1>4
    <2>1. CASE FoundFrom(s, sep, i) = {}
      <3> DEFINE x == SubSeq(s, i, n)
      <3>1. n \in i - 1..n
        OBVIOUS
      <3>2. x \in Seq(Chars) /\ Ascends(x) /\ Letters(x) = LettersIn(s, i, n)
        <4> HIDE DEF T
        <4> QED BY <3>1, CutLetters
      <3>3. g[i] = << x >>
        BY <1>2, <2>1
      <3> HIDE DEF x
      <3> QED BY <3>2, <3>3, SpellsOne
    <2>2. CASE FoundFrom(s, sep, i) # {}
      <3>1. PICK j \in FoundFrom(s, sep, i) : j = Min(FoundFrom(s, sep, i))
        BY <2>2, AfterIsAhead
      <3> DEFINE k == j + Len(sep)
                 e == j - 1
                 x == SubSeq(s, i, e)
                 X == << x >>
      <3>2. /\ e \in i - 1..n /\ k \in i + 1..n + 1
            /\ LettersIn(s, i, n) = LettersIn(s, i, e) \cup LettersIn(s, k, n)
            /\ Precede(LettersIn(s, i, e), LettersIn(s, k, n))
        <4> HIDE DEF T
        <4> QED BY FoundLetters
      <3>3. g[i] = X \o g[k]
        BY <1>2, <2>2, <3>1
      <3>4. k \in 1..n + 1 /\ Spells(g[k], LettersIn(s, k, n)) /\ g[k] \in Seq(Seq(Chars))
        <4>1. k \in 1..n + 1 /\ k > n + 1 - m
          BY <3>2
        <4> HIDE DEF k
        <4> QED BY <1>2, <1>4, <4>1
      <3> HIDE DEF T, e
      <3>5. x \in Seq(Chars) /\ Ascends(x) /\ Letters(x) = LettersIn(s, i, e)
        BY <3>2, CutLetters
      <3> HIDE DEF x
      <3>6. X \in Seq(Seq(Chars)) /\ Spells(X, LettersIn(s, i, e))
        BY <3>5, SpellsOne
      <3> HIDE DEF X
      <3>7. Spells(X \o g[k], LettersIn(s, i, e) \cup LettersIn(s, k, n))
        BY <3>2, <3>4, <3>6, SpellsJoin
      <3> QED BY <3>2, <3>3, <3>7
    <2> QED BY <2>1, <2>2
  <1>5. n + 1 \in T
    <2> HIDE DEF T
    <2> DEFINE N == n + 1
    <2>1. N \in Nat /\ \A i \in 0..N : i \in T /\ i < N => i + 1 \in T
      BY <1>2, <1>4
    <2> HIDE DEF N
    <2>2. \A i \in 0..N : i \in T
      BY <1>3, <2>1, InductionUpTo
    <2> QED BY <2>1, <2>2 DEF N
  <1>6. Spells(g[1], LettersIn(s, 1, n))
    <2>1. 1 \in 1..n + 1 /\ 1 > n + 1 - (n + 1)
      BY <1>2
    <2> QED BY <1>5, <2>1
  <1>7. LettersIn(s, 1, n) = Letters(s)
    BY LettersAt
  <1>8. 1 \in 1..n + 1
    BY <1>2
  <1> QED BY <1>2, <1>6, <1>7, <1>8

(* A part that gets its separator back. *)
LEMMA RejoinedLetters ==
    ASSUME NEW part \in Seq(Chars), NEW sep, Splits(sep), Wordless(sep)
    PROVE  /\ Rejoined(part, sep) \in Seq(Chars)
           /\ Letters(Rejoined(part, sep)) = Letters(part)
           /\ Ascends(part) => Ascends(Rejoined(part, sep))
  <1> DEFINE back == [i \in DOMAIN sep |-> Char(sep[i], 0)]
             joined == part \o back
  <1>1. sep \in Seq(Kinds) /\ DOMAIN sep = 1..Len(sep) /\ Len(sep) \in Nat
    BY DEF Splits
  <1>2. back \in Seq(Chars) /\ \A i \in 1..Len(back) : back[i].kind # "letter"
    <2>1. \A i \in 1..Len(sep) : Char(sep[i], 0) \in Chars /\ Char(sep[i], 0).kind # "letter"
      BY <1>1 DEF Char, Chars, Wordless
    <2>2. back \in Seq(Chars) /\ Len(back) = Len(sep)
          /\ \A i \in 1..Len(sep) : back[i] = Char(sep[i], 0)
      BY <1>1, <2>1
    <2> QED BY <2>1, <2>2
  <1> HIDE DEF back
  <1>3. Letters(back) = {} /\ Ascends(back)
    BY <1>2, WithoutLetters
  <1>4. joined \in Seq(Chars) /\ Letters(joined) = Letters(part)
        /\ (Ascends(part) => Ascends(joined))
    <2>1. Precede(Letters(part), Letters(back))
      BY <1>3 DEF Precede
    <2>2. /\ joined \in Seq(Chars) /\ Letters(joined) = Letters(part) \cup Letters(back)
          /\ Ascends(part) /\ Ascends(back) /\ Precede(Letters(part), Letters(back))
               => Ascends(joined)
      BY <1>2, JoinLetters
    <2> HIDE DEF joined
    <2> QED BY <1>3, <2>1, <2>2
  <1> HIDE DEF joined
  <1>5. /\ RStrip(joined) \in Seq(Chars) /\ Letters(RStrip(joined)) = Letters(joined)
        /\ Ascends(joined) => Ascends(RStrip(joined))
    BY <1>4, StripLetters
  <1>6. Rejoined(part, sep) = IF "line" \in ToSet(sep) THEN RStrip(joined) ELSE joined
    BY DEF Rejoined, joined, back
  <1> QED BY <1>4, <1>5, <1>6

LEMMA PiecesSpell ==
    ASSUME NEW s \in Seq(Chars), Ascends(s), NEW sep, sep = <<>> \/ Splits(sep), Wordless(sep)
    PROVE  Pieces(s, sep) \in Seq(Seq(Chars)) /\ Spells(Pieces(s, sep), Letters(s))
  <1>1. CASE sep = <<>>
    <2> DEFINE alone(i) == << s[i] >>
               p == [i \in DOMAIN s |-> alone(i)]
               n == Len(s)
    <2>1. Pieces(s, sep) = p
      BY <1>1 DEF Pieces
    <2>2. ASSUME NEW i \in 1..n
          PROVE  /\ alone(i) \in Seq(Chars) /\ Len(alone(i)) = 1 /\ alone(i)[1] = s[i]
                 /\ Letters(alone(i)) = LettersIn(s, i, i) /\ Ascends(alone(i))
      <3> DEFINE x == alone(i)
      <3>1. x \in Seq(Chars) /\ Len(x) = 1 /\ x[1] = s[i] /\ \A j \in 1..1 : j = 1
        OBVIOUS
      <3> HIDE DEF x
      <3>2. Letters(x) = LettersIn(x, 1, 1)
        BY <3>1, LettersAt
      <3>3. LettersIn(x, 1, 1) = LettersIn(s, i, i)
        <4>1. 1..1 = {1} /\ i..i = {i}
          OBVIOUS
        <4> QED BY <3>1, <4>1 DEF LettersIn
      <3>4. Ascends(x)
        BY <3>1 DEF Ascends
      <3> QED BY <3>1, <3>2, <3>3, <3>4 DEF x
    <2>3. p \in Seq(Seq(Chars)) /\ Len(p) = n /\ \A i \in 1..n : p[i] = alone(i)
      <3> HIDE DEF alone
      <3>1. DOMAIN s = 1..n /\ n \in Nat
        OBVIOUS
      <3> QED BY <2>2, <3>1
    <2> HIDE DEF alone, p
    <2>4. ASSUME NEW i \in 1..n, NEW j \in 1..n, i < j
          PROVE  Precede(Letters(p[i]), Letters(p[j]))
      <3>1. Letters(p[i]) = LettersIn(s, i, i) /\ Letters(p[j]) = LettersIn(s, j, j)
        BY <2>2, <2>3
      <3>2. i..i = {i} /\ j..j = {j} /\ i \in DOMAIN s /\ j \in DOMAIN s
        OBVIOUS
      <3> QED BY <2>4, <3>1, <3>2 DEF LettersIn, Precede, Ascends
    <2>5. Letters(s) = UNION {Letters(p[i]) : i \in 1..n}
      <3>1. \A i \in 1..n : i..i = {i}
        OBVIOUS
      <3>2. \A i \in 1..n : Letters(p[i]) = {s[j] : j \in {l \in {i} : s[l].kind = "letter"}}
        BY <2>2, <2>3, <3>1 DEF LettersIn
      <3>3. ASSUME NEW i \in 1..n, NEW c \in Letters(p[i]) PROVE c \in LettersIn(s, 1, n)
        <4>1. c = s[i] /\ s[i].kind = "letter"
          BY <3>2
        <4> QED BY <4>1 DEF LettersIn
      <3>4. ASSUME NEW c \in LettersIn(s, 1, n) PROVE \E i \in 1..n : c \in Letters(p[i])
        <4>1. PICK i \in 1..n : c = s[i] /\ s[i].kind = "letter"
          BY DEF LettersIn
        <4>2. c \in Letters(p[i])
          BY <3>2, <4>1
        <4> QED BY <4>2
      <3>5. UNION {Letters(p[i]) : i \in 1..n} = LettersIn(s, 1, n)
        BY <3>3, <3>4
      <3> QED BY <3>5, LettersAt
    <2>6. Spells(p, Letters(s))
      BY <2>2, <2>3, <2>4, <2>5 DEF Spells
    <2> QED BY <2>1, <2>3, <2>6
  <1>2. CASE sep # <<>>
    <2> DEFINE parts == Parts(s, sep)
               n     == Len(parts)
    <2>1. Splits(sep) /\ sep \in Seq(Kinds) /\ Len(sep) > 0
      BY <1>2 DEF Splits
    <2>2. parts \in Seq(Seq(Chars)) /\ Spells(parts, Letters(s))
      BY <2>1, PartsSpell
    <2>3. n \in Nat /\ \A i \in 1..n : parts[i] \in Seq(Chars)
      BY <2>2
    <2> HIDE DEF parts
    <2>4. PICK t \in [0..n -> Seq(Seq(Chars))] : KeepsBy(t, parts, n, sep, Pieces(s, sep))
      BY <2>1, <2>2, PiecesPasses DEF parts
    <2>5. /\ t[0] = <<>> /\ \A i \in 1..n : t[i] = KeptWith(t[i - 1], parts[i], sep)
          /\ t[n] = Pieces(s, sep)
      BY <2>4 DEF KeepsBy
    <2>6. /\ LettersUpTo(parts, 0) = {} /\ LettersUpTo(parts, n) = Letters(s)
          /\ \A i \in 1..n :
                /\ LettersUpTo(parts, i) = LettersUpTo(parts, i - 1) \cup Letters(parts[i])
                /\ Precede(LettersUpTo(parts, i - 1), Letters(parts[i]))
                /\ Ascends(parts[i])
      BY <2>2, SpellsUpTo
    <2> HIDE DEF n
    <2> DEFINE T == {i \in 0..n : Spells(t[i], LettersUpTo(parts, i))}
    <2>7. 0 \in T
      <3>1. t[0] = <<>> /\ LettersUpTo(parts, 0) = {}
        BY <2>5, <2>6
      <3>2. Spells(t[0], LettersUpTo(parts, 0))
        BY <3>1, SpellsNothing, Zenon
      <3>3. 0 \in 0..n
        BY <2>3
      <3> QED BY <3>2, <3>3
    <2>8. ASSUME NEW i \in 0..n, i \in T, i < n PROVE i + 1 \in T
      <3> DEFINE part == parts[i + 1]
                 x    == Rejoined(part, sep)
                 kept == t[i]
                 S    == LettersUpTo(parts, i)
                 X    == << x >>
      <3>1. i + 1 \in 1..n /\ i + 1 \in 0..n /\ (i + 1) - 1 = i
        BY <2>3, <2>8
      <3>2. part \in Seq(Chars) /\ kept \in Seq(Seq(Chars)) /\ Spells(kept, S)
        BY <2>3, <2>8, <3>1
      <3>3. /\ LettersUpTo(parts, i + 1) = S \cup Letters(part)
            /\ Precede(S, Letters(part)) /\ Ascends(part)
        BY <2>6, <3>1
      <3>4. t[i + 1] = IF x = <<>> THEN kept ELSE Append(kept, x)
        BY <2>5, <3>1 DEF KeptWith
      <3> HIDE DEF T, part, S, kept
      <3>5. x \in Seq(Chars) /\ Letters(x) = Letters(part) /\ Ascends(x)
        BY <2>1, <3>2, <3>3, RejoinedLetters
      <3> HIDE DEF x
      <3>6. CASE x = <<>>
        <4>1. Letters(x) = {}
          <5>1. \A j \in 1..Len(x) : x[j].kind # "letter"
            BY <3>6
          <5> QED BY <3>5, <5>1, WithoutLetters
        <4>2. t[i + 1] = kept /\ LettersUpTo(parts, i + 1) = S
          BY <3>3, <3>4, <3>5, <3>6, <4>1
        <4> QED BY <3>1, <3>2, <4>2 DEF T
      <3>7. CASE x # <<>>
        <4>1. X \in Seq(Seq(Chars)) /\ Spells(X, Letters(part))
          BY <3>5, SpellsOne
        <4>2. t[i + 1] = kept \o X
          <5>1. Append(kept, x) = kept \o X
            BY <3>2, <3>5
          <5> QED BY <3>4, <3>7, <5>1
        <4> HIDE DEF X
        <4>3. Spells(kept \o X, S \cup Letters(part))
          BY <3>2, <3>3, <4>1, SpellsJoin
        <4> QED BY <3>1, <3>3, <4>2, <4>3 DEF T
      <3> QED BY <3>6, <3>7
    <2>9. \A i \in 0..n : i \in T
      <3> HIDE DEF T
      <3> QED BY <2>3, <2>7, <2>8, InductionUpTo
    <2>10. Spells(t[n], Letters(s)) /\ t[n] \in Seq(Seq(Chars))
      BY <2>3, <2>6, <2>9
    <2> QED BY <2>5, <2>10
  <1> QED BY <1>1, <1>2

(* One turn of splitting finer, and all turns on one separator. *)
LEMMA RefinedSpell ==
    ASSUME NEW fragments \in Seq(Seq(Chars)), NEW S, Spells(fragments, S), NEW size,
           NEW sep, sep = <<>> \/ Splits(sep), Wordless(sep)
    PROVE  /\ Refined(fragments, sep, size) \in Seq(Seq(Chars))
           /\ Spells(Refined(fragments, sep, size), S)
  <1> DEFINE n == Len(fragments)
  <1>1. PICK t \in [0..n -> Seq(Seq(Chars))] : RefinesBy(t, fragments, n, sep, size)
    BY RefinedPasses
  <1>2. /\ t[0] = <<>> /\ \A i \in 1..n : t[i] = Refine(t[i - 1], fragments[i], sep, size)
        /\ t[n] = Refined(fragments, sep, size)
    BY <1>1 DEF RefinesBy
  <1>3. n \in Nat /\ \A i \in 1..n : fragments[i] \in Seq(Chars)
    OBVIOUS
  <1>4. /\ LettersUpTo(fragments, 0) = {} /\ LettersUpTo(fragments, n) = S
        /\ \A i \in 1..n :
             /\ LettersUpTo(fragments, i) = LettersUpTo(fragments, i - 1) \cup Letters(fragments[i])
             /\ Precede(LettersUpTo(fragments, i - 1), Letters(fragments[i]))
             /\ Ascends(fragments[i])
    BY SpellsUpTo
  <1> HIDE DEF n
  <1> DEFINE T == {i \in 0..n : Spells(t[i], LettersUpTo(fragments, i))}
  <1>5. 0 \in T
    <2>1. t[0] = <<>> /\ LettersUpTo(fragments, 0) = {}
      BY <1>2, <1>4
    <2>2. Spells(t[0], LettersUpTo(fragments, 0))
      BY <2>1, SpellsNothing, Zenon
    <2>3. 0 \in 0..n
      BY <1>3
    <2> QED BY <2>2, <2>3
  <1>6. ASSUME NEW i \in 0..n, i \in T, i < n PROVE i + 1 \in T
    <2> DEFINE f    == fragments[i + 1]
               all  == t[i]
               L    == LettersUpTo(fragments, i)
               more == IF Len(f) > size THEN Pieces(f, sep) ELSE << f >>
    <2>1. i + 1 \in 1..n /\ i + 1 \in 0..n /\ (i + 1) - 1 = i
      BY <1>3, <1>6
    <2>2. f \in Seq(Chars) /\ all \in Seq(Seq(Chars)) /\ Spells(all, L)
      BY <1>3, <1>6, <2>1
    <2>3. /\ LettersUpTo(fragments, i + 1) = L \cup Letters(f)
          /\ Precede(L, Letters(f)) /\ Ascends(f)
      BY <1>4, <2>1
    <2>4. t[i + 1] = all \o more
      BY <1>2, <2>1 DEF Refine
    <2> HIDE DEF T, f, L, all
    <2>5. more \in Seq(Seq(Chars)) /\ Spells(more, Letters(f))
      BY <2>2, <2>3, PiecesSpell, SpellsOne
    <2> HIDE DEF more
    <2>6. Spells(all \o more, L \cup Letters(f))
      BY <2>2, <2>3, <2>5, SpellsJoin
    <2> QED BY <2>1, <2>3, <2>4, <2>6 DEF T
  <1>7. \A i \in 0..n : i \in T
    <2> HIDE DEF T
    <2> QED BY <1>3, <1>5, <1>6, InductionUpTo
  <1>8. Spells(t[n], S) /\ t[n] \in Seq(Seq(Chars))
    BY <1>3, <1>4, <1>7
  <1> QED BY <1>2, <1>8

(* Splitting keeps the letters and their order. *)
LEMMA FragmentsSpell ==
    ASSUME NEW s \in Seq(Chars), Ascends(s), NEW size
    PROVE  Spells(Fragments(s, size), Letters(s))
  <1> DEFINE n == Len(Separators)
  <1>1. n \in Nat /\ \A i \in 1..n : Separators[i] = <<>> \/ Splits(Separators[i])
    BY SeparatorsSplit
  <1>2. PICK t \in [0..n -> Seq(Seq(Chars))] : SplitsBy(t, n, s, size)
    BY FragmentsPasses
  <1>3. /\ t[0] = << s >> /\ \A i \in 1..n : t[i] = Refined(t[i - 1], Separators[i], size)
        /\ t[n] = Fragments(s, size)
    BY <1>2 DEF SplitsBy
  <1>4. \A i \in 1..n : Wordless(Separators[i])
    BY SeparatorsWordless
  <1> HIDE DEF n
  <1> DEFINE T == {i \in 0..n : Spells(t[i], Letters(s))}
  <1>5. 0 \in T
    <2>1. Spells(t[0], Letters(s)) /\ 0 \in 0..n
      BY <1>1, <1>3, SpellsOne
    <2> QED BY <2>1
  <1>6. ASSUME NEW i \in 0..n, i \in T, i < n PROVE i + 1 \in T
    <2>1. i + 1 \in 1..n /\ i + 1 \in 0..n /\ (i + 1) - 1 = i
      BY <1>1, <1>6
    <2> DEFINE f == t[i]
               S == Letters(s)
               sep == Separators[i + 1]
    <2>2. f \in Seq(Seq(Chars)) /\ Spells(f, S) /\ t[i + 1] = Refined(f, sep, size)
          /\ (sep = <<>> \/ Splits(sep)) /\ Wordless(sep)
      BY <1>1, <1>3, <1>4, <1>6, <2>1
    <2> HIDE DEF T, f, S, sep
    <2>3. Spells(Refined(f, sep, size), S)
      BY <2>2, RefinedSpell
    <2> QED BY <2>1, <2>2, <2>3 DEF T, S
  <1>7. \A i \in 0..n : i \in T
    <2> HIDE DEF T
    <2> QED BY <1>1, <1>5, <1>6, InductionUpTo
  <1> QED BY <1>1, <1>3, <1>7

-----------------------------------------------------------------------------
(* A piece with the last of these letters. *)
EndsWith(piece, letters) ==
    /\ Ascends(piece) /\ Letters(piece) \subseteq letters
    /\ \A c \in Letters(piece), x \in letters : c.pos <= x.pos => x \in Letters(piece)

LEMMA EndIsRun ==
    ASSUME NEW piece \in Seq(Chars), NEW S \in SUBSET Chars, EndsWith(piece, S)
    PROVE  IsRunOf(piece, S)
  <1>1. \A x \in Chars : x.pos \in Nat
    BY DEF Chars
  <1>2. Letters(piece) \in SUBSET Chars
    BY LettersAt
  <1> QED BY <1>1, <1>2 DEF EndsWith, IsRunOf

(* Letters that come after all others do not part a run. *)
LEMMA RunStays ==
    ASSUME NEW piece \in Seq(Chars), NEW S \in SUBSET Chars, NEW R \in SUBSET Chars,
           IsRunOf(piece, S), Precede(S, R)
    PROVE  IsRunOf(piece, S \cup R)
  <1>1. \A x \in Chars : x.pos \in Nat
    BY DEF Chars
  <1>2. Letters(piece) \in SUBSET Chars /\ Letters(piece) \in SUBSET S
    BY LettersAt DEF IsRunOf
  <1>3. ASSUME NEW c \in Letters(piece), NEW d \in Letters(piece), NEW x \in S \cup R,
               x.pos \in c.pos..d.pos
        PROVE  x \in Letters(piece)
    <2>1. CASE x \in S
      BY <1>3, <2>1 DEF IsRunOf
    <2>2. CASE x \in R
      <3>1. d.pos < x.pos
        BY <1>2, <2>2 DEF Precede
      <3> QED BY <1>1, <1>2, <1>3, <2>2, <3>1
    <2> QED BY <2>1, <2>2
  <1> QED BY <1>2, <1>3 DEF IsRunOf

LEMMA EndGoesOn ==
    ASSUME NEW c \in Seq(Chars), NEW f \in Seq(Chars), NEW u \in Seq(Chars),
           NEW S \in SUBSET Chars, EndsWith(c, S), Precede(S, Letters(f)),
           Ascends(u), Letters(u) = Letters(c) \cup Letters(f)
    PROVE  EndsWith(u, S \cup Letters(f))
  <1>1. \A x \in Chars : x.pos \in Nat
    BY DEF Chars
  <1>2. Letters(c) \in SUBSET S /\ Letters(f) \in SUBSET Chars
    BY LettersAt DEF EndsWith
  <1>3. ASSUME NEW l \in Letters(u), NEW x \in S \cup Letters(f), l.pos <= x.pos
        PROVE  x \in Letters(u)
    <2>1. CASE x \in Letters(f)
      BY <2>1
    <2>2. CASE x \in S /\ l \in Letters(c)
      BY <1>3, <2>2 DEF EndsWith
    <2>3. CASE x \in S /\ l \in Letters(f)
      <3>1. x.pos < l.pos
        BY <2>3 DEF Precede
      <3> QED BY <1>1, <1>2, <1>3, <2>3, <3>1
    <2> QED BY <2>1, <2>2, <2>3
  <1> QED BY <1>2, <1>3 DEF EndsWith

(* What is carried over is the end of the chunk, also of its letters. *)
LEMMA CarriedEnds ==
    ASSUME NEW c \in Seq(Chars), NEW S \in SUBSET Chars, EndsWith(c, S), NEW overlap \in Nat
    PROVE  Carried(c, overlap) \in Seq(Chars) /\ EndsWith(Carried(c, overlap), S)
  <1> DEFINE n == Len(c)
             a == IF n > overlap THEN n - overlap + 1 ELSE 1
             t == SubSeq(c, a, n)
  <1>1. a \in 1..n + 1 /\ n \in a - 1..n /\ Carried(c, overlap) = t
    BY DEF Carried
  <1> HIDE DEF a
  <1>2. /\ t \in Seq(Chars) /\ Letters(t) = LettersIn(c, a, n)
        /\ LettersIn(c, a, n) \in SUBSET Letters(c) /\ Ascends(t)
    BY <1>1, CutLetters DEF EndsWith
  <1> HIDE DEF t
  <1>3. ASSUME NEW l \in Letters(t), NEW x \in S, l.pos <= x.pos PROVE x \in Letters(t)
    <2>1. PICK p \in a..n : l = c[p] /\ c[p].kind = "letter"
      BY <1>2 DEF LettersIn
    <2>2. x \in Letters(c)
      BY <1>2, <1>3 DEF EndsWith
    <2>3. PICK q \in 1..n : x = c[q] /\ c[q].kind = "letter"
      BY <2>2, LettersAt
    <2>4. ~(q < p)
      <3> SUFFICES ASSUME q < p PROVE FALSE
        OBVIOUS
      <3>1. p \in DOMAIN c /\ q \in DOMAIN c /\ c[p] \in Chars /\ c[q] \in Chars
        BY <1>1
      <3>2. c[q].pos < c[p].pos
        BY <2>1, <2>3, <3>1 DEF EndsWith, Ascends
      <3>3. c[p].pos \in Nat /\ c[q].pos \in Nat
        BY <3>1 DEF Chars
      <3> QED BY <1>3, <2>1, <2>3, <3>2, <3>3
    <2>5. q \in a..n
      BY <1>1, <2>4
    <2> QED BY <1>2, <2>3, <2>5 DEF LettersIn
  <1> QED BY <1>1, <1>2, <1>3 DEF EndsWith

(* What PiecesCoverTheText says of the chunks. *)
Cover(chunks, letters) ==
    /\ \A i \in 1..Len(chunks) : IsRunOf(chunks[i], letters)
    /\ letters = LettersUpTo(chunks, Len(chunks))
    /\ \A i \in 1..Len(chunks) - 1 : Follows(chunks[i], chunks[i + 1])

(* The loop of _merge_with_overlap has dealt with these letters. *)
Covered(m, letters) ==
    /\ \A i \in 1..Len(m.chunks) : IsRunOf(m.chunks[i], letters)
    /\ letters = LettersUpTo(m.chunks, Len(m.chunks)) \cup Letters(m.current)
    /\ \A i \in 1..Len(m.chunks) - 1 : Follows(m.chunks[i], m.chunks[i + 1])
    /\ Len(m.chunks) > 0 => Follows(m.chunks[Len(m.chunks)], m.current)
    /\ EndsWith(m.current, letters)

LEMMA CoverGrows ==
    ASSUME NEW chunks \in Seq(Seq(Chars)), NEW current \in Seq(Chars), NEW S \in SUBSET Chars,
           Covered([chunks |-> chunks, current |-> current], S)
    PROVE  Append(chunks, current) \in Seq(Seq(Chars)) /\ Cover(Append(chunks, current), S)
  <1> DEFINE d == Append(chunks, current)
             n == Len(chunks)
  <1>1. /\ d \in Seq(Seq(Chars)) /\ Len(d) = n + 1 /\ d[n + 1] = current /\ n \in Nat
        /\ \A i \in 1..n : d[i] = chunks[i]
    OBVIOUS
  <1>2. /\ \A i \in 1..n : IsRunOf(chunks[i], S)
        /\ S = LettersUpTo(chunks, n) \cup Letters(current)
        /\ \A i \in 1..n - 1 : Follows(chunks[i], chunks[i + 1])
        /\ n > 0 => Follows(chunks[n], current)
        /\ EndsWith(current, S)
    BY DEF Covered
  <1> HIDE DEF d, n
  <1>3. ASSUME NEW i \in 1..n + 1 PROVE IsRunOf(d[i], S)
    <2>1. CASE i = n + 1
      BY <1>1, <1>2, <2>1, EndIsRun
    <2>2. CASE i # n + 1
      <3>1. i \in 1..n
        BY <1>1, <2>2
      <3> QED BY <1>1, <1>2, <3>1
    <2> QED BY <2>1, <2>2
  <1>4. ASSUME NEW i \in 1..n PROVE Follows(d[i], d[i + 1])
    <2>1. CASE i = n
      <3>1. d[i] = chunks[n] /\ d[i + 1] = current /\ n > 0
        BY <1>1, <2>1
      <3> QED BY <1>2, <3>1
    <2>2. CASE i # n
      <3>1. i \in 1..n - 1 /\ i + 1 \in 1..n
        BY <1>1, <2>2
      <3> QED BY <1>1, <1>2, <3>1
    <2> QED BY <2>1, <2>2
  <1>5. LettersUpTo(d, n + 1) = S
    <2>1. ASSUME NEW x \in LettersUpTo(d, n + 1)
          PROVE  x \in LettersUpTo(chunks, n) \cup Letters(current)
      <3>1. PICK i \in 1..n + 1 : x \in Letters(d[i])
        BY DEF LettersUpTo
      <3>2. CASE i = n + 1
        BY <1>1, <3>1, <3>2
      <3>3. CASE i # n + 1
        <4>1. i \in 1..n /\ d[i] = chunks[i]
          BY <1>1, <3>3
        <4> QED BY <3>1, <4>1 DEF LettersUpTo
      <3> QED BY <3>2, <3>3
    <2>2. ASSUME NEW x \in LettersUpTo(chunks, n) PROVE x \in LettersUpTo(d, n + 1)
      <3>1. PICK i \in 1..n : x \in Letters(chunks[i])
        BY DEF LettersUpTo
      <3>2. i \in 1..n + 1 /\ d[i] = chunks[i]
        BY <1>1
      <3> QED BY <3>1, <3>2 DEF LettersUpTo
    <2>3. ASSUME NEW x \in Letters(current) PROVE x \in LettersUpTo(d, n + 1)
      <3>1. n + 1 \in 1..n + 1
        BY <1>1
      <3> QED BY <1>1, <3>1 DEF LettersUpTo
    <2> QED BY <1>2, <2>1, <2>2, <2>3
  <1>6. (n + 1) - 1 = n
    BY <1>1
  <1>7. Cover(d, S)
    BY <1>1, <1>3, <1>4, <1>5, <1>6 DEF Cover
  <1> QED BY <1>1, <1>7 DEF d

LEMMA MergedCovers ==
    ASSUME NEW size \in Nat, NEW overlap \in Nat, NEW m \in Packings(Chars),
           NEW S \in SUBSET Chars, Covered(m, S),
           NEW f \in Seq(Chars), Len(f) <= size, Ascends(f), Precede(S, Letters(f))
    PROVE  Covered(Merged(m, f, size, overlap), S \cup Letters(f))
  <1> DEFINE c == m.current
             p == m.chunks
             n == Len(p)
             R == Letters(f)
             joined == Strip(c \o <<Space>> \o f)
             tail == Carried(c, overlap)
             next == Strip(tail \o <<Space>> \o f)
  <1>1. p \in Seq(Seq(Chars)) /\ c \in Seq(Chars) /\ m = [chunks |-> p, current |-> c]
    BY DEF Packings
  <1>2. /\ n \in Nat /\ \A i \in 1..n : p[i] \in Seq(Chars)
        /\ R \in SUBSET Chars /\ \A x \in Chars : x.pos \in Nat
    <2>1. R \in SUBSET Chars
      BY LettersAt
    <2>2. \A x \in Chars : x.pos \in Nat
      BY DEF Chars
    <2> HIDE DEF p
    <2> QED BY <1>1, <2>1, <2>2
  <1>3. /\ \A i \in 1..n : IsRunOf(p[i], S)
        /\ S = LettersUpTo(p, n) \cup Letters(c)
        /\ \A i \in 1..n - 1 : Follows(p[i], p[i + 1])
        /\ n > 0 => Follows(p[n], c)
        /\ EndsWith(c, S)
    BY <1>1 DEF Covered
  <1> HIDE DEF p, n, c, R
  <1>4. \A i \in 1..n : IsRunOf(p[i], S \cup R)
    BY <1>2, <1>3, RunStays DEF R
  <1>5. /\ Letters(c) \in SUBSET S /\ Ascends(c) /\ Precede(Letters(c), R)
        /\ \A i \in 1..n : Letters(p[i]) \in SUBSET S
    BY <1>3 DEF EndsWith, Precede, R, IsRunOf
  \* A piece with the letters of c, or none, and then those of f.
  <1>6. ASSUME NEW u \in Seq(Chars), Letters(u) = Letters(c) \cup R, Ascends(u)
        PROVE  Covered([chunks |-> p, current |-> u], S \cup R)
    <2>1. EndsWith(u, S \cup R)
      BY <1>1, <1>3, <1>6, EndGoesOn DEF R
    <2>2. S \cup R = LettersUpTo(p, n) \cup Letters(u)
      BY <1>3, <1>6
    <2>3. ASSUME n > 0 PROVE Follows(p[n], u)
      <3> SUFFICES ASSUME NEW x \in Letters(p[n]), Letters(u) # {}
                   PROVE  \E d \in Letters(u) : x.pos <= d.pos
        BY DEF Follows
      <3>1. CASE Letters(c) # {}
        <4>1. PICK d \in Letters(c) : x.pos <= d.pos
          BY <1>3, <2>3, <3>1 DEF Follows
        <4> QED BY <1>6, <4>1
      <3>2. CASE Letters(c) = {}
        <4>1. PICK d \in R : d \in Letters(u)
          BY <1>6, <3>2
        <4>2. x \in S /\ n \in 1..n
          BY <1>2, <1>5, <2>3
        <4>3. x.pos < d.pos
          BY <4>1, <4>2 DEF Precede, R
        <4>4. x.pos \in Nat /\ d.pos \in Nat
          BY <1>2, <4>1, <4>2
        <4> QED BY <4>1, <4>3, <4>4
      <3> QED BY <3>1, <3>2
    <2>4. [chunks |-> p, current |-> u].chunks = p /\ [chunks |-> p, current |-> u].current = u
      OBVIOUS
    <2> QED BY <1>3, <1>4, <2>1, <2>2, <2>3, <2>4 DEF Covered, n
  <1>7. CASE c = <<>>
    <2>1. Merged(m, f, size, overlap) = [chunks |-> p, current |-> f]
      BY <1>1, <1>7 DEF Merged
    <2>2. Letters(c) = {}
      <3>1. \A i \in 1..Len(c) : c[i].kind # "letter"
        BY <1>7
      <3> QED BY <1>1, <3>1, WithoutLetters
    <2>3. Letters(f) = Letters(c) \cup R
      BY <2>2 DEF R
    <2> QED BY <1>6, <2>1, <2>3 DEF R
  <1>8. CASE c # <<>> /\ Len(joined) <= size
    <2>1. Merged(m, f, size, overlap) = [chunks |-> p, current |-> joined]
      BY <1>1, <1>8 DEF Merged
    <2>2. joined \in Seq(Chars) /\ Letters(joined) = Letters(c) \cup R /\ Ascends(joined)
      BY <1>1, <1>5, SpacedLetters DEF R
    <2> HIDE DEF joined
    <2> QED BY <1>6, <2>1, <2>2 DEF R
  <1>9. CASE c # <<>> /\ ~(Len(joined) <= size)
    <2>1. Merged(m, f, size, overlap) = [chunks |-> Append(p, c), current |-> next]
      BY <1>1, <1>9 DEF Merged
    <2>2. tail \in Seq(Chars) /\ EndsWith(tail, S)
      BY <1>1, <1>3, CarriedEnds
    <2> HIDE DEF joined, tail
    <2>3. Letters(tail) \in SUBSET S /\ Ascends(tail) /\ Precede(Letters(tail), R)
      BY <2>2 DEF EndsWith, Precede, R
    <2>4. next \in Seq(Chars) /\ Letters(next) = Letters(tail) \cup R /\ Ascends(next)
      BY <2>2, <2>3, SpacedLetters DEF R
    <2> HIDE DEF next
    <2>5. EndsWith(next, S \cup R)
      BY <2>2, <2>4, EndGoesOn DEF R
    <2>6. Append(p, c) \in Seq(Seq(Chars)) /\ Cover(Append(p, c), S)
      <3>1. Covered([chunks |-> p, current |-> c], S)
        BY <1>1
      <3> QED BY <1>1, <3>1, CoverGrows
    <2> DEFINE d == Append(p, c)
               l == n + 1
    <2>7. Len(d) = l /\ d[l] = c /\ l \in Nat /\ l > 0 /\ \A i \in 1..n : d[i] = p[i]
      BY <1>1, <1>2 DEF n
    <2>8. d \in Seq(Seq(Chars)) /\ Cover(d, S)
      BY <2>6
    <2> HIDE DEF d, l
    <2>9. \A i \in 1..l : IsRunOf(d[i], S \cup R)
      <3> SUFFICES ASSUME NEW i \in 1..l PROVE IsRunOf(d[i], S \cup R)
        OBVIOUS
      <3>1. d[i] \in Seq(Chars) /\ IsRunOf(d[i], S)
        BY <2>7, <2>8 DEF Cover
      <3> QED BY <1>2, <3>1, RunStays DEF R
    <2>10. Follows(d[l], next)
      <3> SUFFICES ASSUME NEW x \in Letters(c), Letters(next) # {}
                   PROVE  \E y \in Letters(next) : x.pos <= y.pos
        BY <2>7 DEF Follows
      <3>1. PICK y \in Letters(next) : TRUE
        OBVIOUS
      <3>2. x.pos \in Nat /\ y.pos \in Nat /\ x \in S
        BY <1>2, <1>5, <2>3, <2>4
      <3>3. CASE y \in R
        <4>1. x.pos < y.pos
          BY <1>5, <3>3 DEF Precede
        <4> QED BY <3>1, <3>2, <4>1
      <3>4. CASE y \in Letters(tail)
        <4>1. CASE x.pos <= y.pos
          BY <3>1, <4>1
        <4>2. CASE ~(x.pos <= y.pos)
          <5>1. y.pos <= x.pos
            BY <3>2, <4>2
          <5>2. x \in Letters(tail)
            BY <2>2, <3>2, <3>4, <5>1 DEF EndsWith
          <5> QED BY <2>4, <3>2, <5>2
        <4> QED BY <4>1, <4>2
      <3> QED BY <2>4, <3>1, <3>3, <3>4
    <2>11. S \cup R = LettersUpTo(d, l) \cup Letters(next)
      BY <2>3, <2>4, <2>7, <2>8 DEF Cover
    <2>12. \A i \in 1..l - 1 : Follows(d[i], d[i + 1])
      BY <2>7, <2>8 DEF Cover
    <2>13. Covered([chunks |-> d, current |-> next], S \cup R)
      BY <2>5, <2>7, <2>9, <2>10, <2>11, <2>12 DEF Covered
    <2> QED BY <2>1, <2>13 DEF d, R
  <1> QED BY <1>7, <1>8, <1>9

(* Packing keeps what splitting kept. *)
LEMMA MergeCovers ==
    ASSUME NEW size \in Nat, NEW overlap \in Nat, NEW S \in SUBSET Chars,
           NEW fragments \in Seq(Seq(Chars)), Spells(fragments, S), Short(fragments, size)
    PROVE  /\ AllChunks(Merge(fragments, size, overlap)) \in Seq(Seq(Chars))
           /\ Cover(AllChunks(Merge(fragments, size, overlap)), S)
  <1> DEFINE n == Len(fragments)
  <1>1. n \in Nat /\ \A i \in 1..n : fragments[i] \in Seq(Chars) /\ Len(fragments[i]) <= size
    BY DEF Short
  <1>2. /\ LettersUpTo(fragments, 0) = {} /\ LettersUpTo(fragments, n) = S
        /\ \A i \in 1..n :
             /\ LettersUpTo(fragments, i) = LettersUpTo(fragments, i - 1) \cup Letters(fragments[i])
             /\ Precede(LettersUpTo(fragments, i - 1), Letters(fragments[i]))
             /\ Ascends(fragments[i])
    BY SpellsUpTo
  <1>3. Space \in Chars
    BY DEF Space, Char, Chars, Kinds
  <1> HIDE DEF n
  <1>4. PICK t \in [0..n -> Packings(Chars)] : MergesBy(t, fragments, n, size, overlap)
    BY <1>1, <1>3, MergePasses DEF n
  <1>5. /\ t[0] = [chunks |-> <<>>, current |-> <<>>]
        /\ \A i \in 1..n : t[i] = Merged(t[i - 1], fragments[i], size, overlap)
        /\ t[n] = Merge(fragments, size, overlap)
    BY <1>4 DEF MergesBy
  <1> DEFINE none == <<>>
             T == {i \in 0..n : /\ LettersUpTo(fragments, i) \in SUBSET Chars
                                /\ Covered(t[i], LettersUpTo(fragments, i))}
  <1>6. none \in Seq(Chars) /\ Letters(none) = {} /\ Ascends(none)
        /\ none \in Seq(Seq(Chars)) /\ Len(none) = 0
    <2>1. /\ none \in Seq(Chars) /\ \A i \in 1..Len(none) : none[i].kind # "letter"
          /\ none \in Seq(Seq(Chars)) /\ Len(none) = 0
      OBVIOUS
    <2> HIDE DEF none
    <2> QED BY <2>1, WithoutLetters
  <1>7. 0 \in T
    <2> DEFINE m == t[0]
               L == LettersUpTo(fragments, 0)
    <2>1. m.chunks = none /\ m.current = none /\ L = {} /\ Len(none) = 0
      BY <1>2, <1>5, <1>6
    <2> HIDE DEF m, L, none
    <2>2. EndsWith(m.current, L)
      BY <1>6, <2>1 DEF EndsWith
    <2>3. LettersUpTo(m.chunks, Len(m.chunks)) = {}
      BY <2>1 DEF LettersUpTo
    <2>4. Covered(m, L)
      BY <1>6, <2>1, <2>2, <2>3 DEF Covered
    <2>5. 0 \in 0..n /\ L \in SUBSET Chars
      BY <1>1, <2>1
    <2> QED BY <2>4, <2>5 DEF m, L
  <1>8. ASSUME NEW i \in 0..n, i \in T, i < n PROVE i + 1 \in T
    <2> DEFINE f == fragments[i + 1]
               m == t[i]
               L == LettersUpTo(fragments, i)
    <2>1. i + 1 \in 1..n /\ i + 1 \in 0..n /\ (i + 1) - 1 = i
      BY <1>1, <1>8
    <2>2. /\ f \in Seq(Chars) /\ Len(f) <= size /\ m \in Packings(Chars)
          /\ L \in SUBSET Chars /\ Covered(m, L)
      BY <1>1, <1>8, <2>1
    <2>3. /\ LettersUpTo(fragments, i + 1) = L \cup Letters(f)
          /\ Precede(L, Letters(f)) /\ Ascends(f)
          /\ t[i + 1] = Merged(m, f, size, overlap)
      BY <1>2, <1>5, <2>1
    <2> HIDE DEF T, f, m, L
    <2>4. Covered(Merged(m, f, size, overlap), L \cup Letters(f))
      BY <2>2, <2>3, MergedCovers
    <2>5. Letters(f) \in SUBSET Chars
      BY <2>2, LettersAt
    <2> QED BY <2>1, <2>2, <2>3, <2>4, <2>5 DEF T
  <1>9. \A i \in 0..n : i \in T
    <2> HIDE DEF T
    <2> QED BY <1>1, <1>7, <1>8, InductionUpTo
  <1> DEFINE m == t[n]
             p == m.chunks
             c == m.current
  <1>10. m \in Packings(Chars) /\ m = Merge(fragments, size, overlap) /\ Covered(m, S)
    BY <1>1, <1>2, <1>5, <1>9
  <1> HIDE DEF m, T, none
  <1>11. p \in Seq(Seq(Chars)) /\ c \in Seq(Chars) /\ m = [chunks |-> p, current |-> c]
    BY <1>10 DEF Packings
  <1>12. AllChunks(m) = IF c = <<>> THEN p ELSE Append(p, c)
    BY DEF AllChunks
  <1>13. CASE c = <<>>
    <2>1. Letters(c) = {}
      BY <1>6, <1>13 DEF none
    <2>2. Cover(p, S)
      <3>1. /\ \A i \in 1..Len(p) : IsRunOf(p[i], S)
            /\ S = LettersUpTo(p, Len(p)) \cup Letters(c)
            /\ \A i \in 1..Len(p) - 1 : Follows(p[i], p[i + 1])
        BY <1>10 DEF Covered
      <3> QED BY <2>1, <3>1 DEF Cover
    <2> QED BY <1>10, <1>11, <1>12, <1>13, <2>2
  <1>14. CASE c # <<>>
    <2> HIDE DEF p, c
    <2>1. Append(p, c) \in Seq(Seq(Chars)) /\ Cover(Append(p, c), S)
      <3>1. Covered([chunks |-> p, current |-> c], S)
        BY <1>10, <1>11
      <3> QED BY <1>11, <3>1, CoverGrows
    <2> QED BY <1>10, <1>12, <1>14, <2>1
  <1> QED BY <1>13, <1>14

(* The chunks of a text have its letters: each of them a run, none lost,   *)
(* and from chunk to chunk in their order.                                 *)
THEOREM SplitCovers ==
    ASSUME NEW text \in Seq(Chars), Ascends(text),
           NEW size \in Nat, size > 0, NEW overlap \in Nat
    PROVE  Cover(Split(text, size, overlap), Letters(text))
  <1> DEFINE s == Strip(text)
             fragments == Fragments(s, size)
             S == Letters(text)
  <1>1. s \in Seq(Chars) /\ Letters(s) = S /\ Ascends(s) /\ S \in SUBSET Chars
    BY StripLetters, LettersAt
  <1>2. s = <<>> \/ Starts(s)
    <2>1. (~Worded(text) => s = <<>>) /\ (Worded(text) => Len(s) > 0 /\ ~IsBlank(s[1]))
      BY StripFacts
    <2> QED BY <2>1 DEF Starts
  <1>3. Split(text, size, overlap)
            = IF s = <<>> THEN <<>> ELSE AllChunks(Merge(fragments, size, overlap))
    BY DEF Split
  <1> HIDE DEF s, S
  <1>4. CASE s = <<>>
    <2> DEFINE none == <<>>
    <2>1. Len(none) = 0 /\ Split(text, size, overlap) = none
      BY <1>3, <1>4
    <2>2. \A i \in 1..Len(s) : s[i].kind # "letter"
      BY <1>4
    <2>3. S = {}
      BY <1>1, <2>2, WithoutLetters
    <2> HIDE DEF none
    <2>4. LettersUpTo(none, Len(none)) = {}
      BY <2>1 DEF LettersUpTo
    <2> QED BY <2>1, <2>3, <2>4 DEF Cover, S
  <1>5. CASE s # <<>>
    <2>1. fragments \in Seq(Seq(Chars)) /\ Short(fragments, size)
      BY <1>1, <1>2, <1>5, FragmentsFit
    <2>2. Spells(fragments, S)
      BY <1>1, FragmentsSpell
    <2> HIDE DEF fragments
    <2>3. Cover(AllChunks(Merge(fragments, size, overlap)), S)
      BY <1>1, <2>1, <2>2, MergeCovers
    <2> QED BY <1>3, <1>5, <2>3 DEF S
  <1> QED BY <1>4, <1>5

-----------------------------------------------------------------------------
(* The pieces of the text are what is computed, and none is refused. *)
LEMMA SplitIsListed ==
    ASSUME input \in {i \in SplitInputs : i.overlap < i.size}, ComputeSplit
    PROVE  \E text \in Seq(Chars), size \in Nat \ {0}, overlap \in Nat :
              /\ input.text = text /\ input.size = size /\ input.overlap = overlap
              /\ Ascends(text)
              /\ input' = input /\ output'.refused = FALSE
              /\ output'.texts = Split(text, size, overlap)
  <1>1. PICK kinds \in BoundedSeq(Kinds, MaxLength), size \in ChunkSizes, overlap \in 0..2 :
            input = [of |-> "split", text |-> Text(kinds), size |-> size, overlap |-> overlap]
    BY DEF SplitInputs
  <1> DEFINE text == Text(kinds)
             pieces == Split(text, size, overlap)
  <1>2. text \in Seq(Chars) /\ Ascends(text)
    <2>1. PICK m \in 0..MaxLength : kinds \in [1..m -> Kinds]
      BY DEF BoundedSeq, SeqOf
    <2>2. m \in Nat /\ text = [i \in 1..m |-> Char(kinds[i], i)]
      BY <2>1, AlgorithmsAssumption DEF Text
    <2>3. \A i \in 1..m : Char(kinds[i], i) \in Chars /\ Char(kinds[i], i).pos = i
      BY <2>1, <2>2 DEF Char, Chars
    <2> HIDE DEF text
    <2>4. text \in Seq(Chars)
      BY <2>2, <2>3
    <2>5. DOMAIN text = 1..m /\ \A i \in 1..m : text[i].pos = i
      BY <2>2, <2>3
    <2>6. Ascends(text)
      BY <2>5 DEF Ascends
    <2> QED BY <2>4, <2>6
  <1>3. size \in Nat \ {0} /\ size > 0 /\ overlap \in Nat
    BY AlgorithmsAssumption
  <1> HIDE DEF text
  <1>4. pieces \in Seq(Seq(Chars)) /\ ChunksFit(pieces, size, overlap)
    BY <1>2, <1>3, SplitIsFair
  <1> HIDE DEF pieces
  <1>5. ~ChunksOf(pieces).refused /\ ChunkList(ChunksOf(pieces).stored) = pieces
    BY <1>4, PiecesAreListed
  <1>6. input.text = text /\ input.size = size /\ input.overlap = overlap
    BY <1>1 DEF text
  <1>7. input' = input /\ output' = [refused |-> ChunksOf(pieces).refused,
                                     texts   |-> ChunkList(ChunksOf(pieces).stored)]
    BY <1>6 DEF ComputeSplit, Compute, pieces
  <1>8. ChunksOf(pieces).refused = FALSE
    <2>1. ChunksOf(pieces).refused \in BOOLEAN
      BY DEF ChunksOf
    <2> QED BY <1>5, <2>1
  <1>9. output'.refused = FALSE /\ output'.texts = pieces
    BY <1>5, <1>7, <1>8
  <1> QED BY <1>2, <1>3, <1>6, <1>7, <1>9 DEF pieces

LEMMA SplitIsComputed ==
    ASSUME input \in {i \in SplitInputs : i.overlap < i.size}, ComputeSplit
    PROVE  PiecesBecomeChunks' /\ OverlapIsCarried' /\ PiecesCoverTheText'
  <1>1. PICK text \in Seq(Chars), size \in Nat \ {0}, overlap \in Nat :
              /\ input.text = text /\ input.size = size /\ input.overlap = overlap
              /\ Ascends(text)
              /\ input' = input /\ output'.refused = FALSE
              /\ output'.texts = Split(text, size, overlap)
    BY SplitIsListed
  <1> DEFINE pieces == Split(text, size, overlap)
  <1>2. size \in Nat /\ size > 0
    OBVIOUS
  <1>3. pieces \in Seq(Seq(Chars)) /\ ChunksFit(pieces, size, overlap)
    BY <1>2, SplitIsFair
  <1>4. Cover(pieces, Letters(text))
    BY <1>1, <1>2, SplitCovers
  <1>5. DOMAIN pieces = 1..Len(pieces)
    BY <1>3
  <1>6. /\ input'.text = text /\ input'.size = size /\ input'.overlap = overlap
        /\ output'.texts = pieces /\ output'.refused = FALSE
    BY <1>1
  <1> HIDE DEF pieces
  <1>7. PiecesBecomeChunks'
    BY <1>3, <1>5, <1>6 DEF PiecesBecomeChunks, ChunksFit, Fits
  <1>8. OverlapIsCarried'
    BY <1>3, <1>6 DEF OverlapIsCarried, ChunksFit, Carries
  <1>9. PiecesCoverTheText'
    <2>1. UNION {Letters(pieces[i]) : i \in DOMAIN pieces} = Letters(text)
      BY <1>4, <1>5 DEF Cover, LettersUpTo
    <2>2. \A i \in DOMAIN pieces : IsRunOf(pieces[i], Letters(text))
      BY <1>4, <1>5 DEF Cover
    <2>3. \A i \in 1..Len(pieces) - 1 : Follows(pieces[i], pieces[i + 1])
      BY <1>4 DEF Cover
    <2> QED BY <1>6, <2>1, <2>2, <2>3 DEF PiecesCoverTheText
  <1> QED BY <1>7, <1>8, <1>9

(* No letter of a document is lost, and none out of its order: see         *)
(* PiecesCoverTheText.                                                     *)
THEOREM NoLetterIsLost ==
    Spec => []PiecesCoverTheText
  <1>1. Init => PiecesCoverTheText
    BY DEF Init, PiecesCoverTheText, Computed
  <1>2. Given /\ PiecesCoverTheText /\ [Next]_vars => PiecesCoverTheText'
    <2>1. CASE UNCHANGED vars
      BY <2>1 DEF vars, PiecesCoverTheText, Computed
    <2>2. ASSUME Given, Next, input.of = "split" PROVE PiecesCoverTheText'
      BY <2>2, GivenKinds, StepComputes, SplitIsComputed
    <2>3. ASSUME Next, input.of # "split" PROVE PiecesCoverTheText'
      <3>1. ~Computed("split")'
        BY <2>3, StepComputes DEF Computed
      <3> QED BY <3>1 DEF PiecesCoverTheText
    <2> QED BY <2>1, <2>2, <2>3
  <1> QED BY <1>1, <1>2, GivenStays, PTL DEF Spec

(* No document is refused for its pieces, none of which is much too long:  *)
(* see PiecesBecomeChunks.                                                 *)
THEOREM NoDocumentIsRefused ==
    Spec => []PiecesBecomeChunks
  <1>1. Init => PiecesBecomeChunks
    BY DEF Init, PiecesBecomeChunks, Computed
  <1>2. Given /\ PiecesBecomeChunks /\ [Next]_vars => PiecesBecomeChunks'
    <2>1. CASE UNCHANGED vars
      BY <2>1 DEF vars, PiecesBecomeChunks, Computed
    <2>2. ASSUME Given, Next, input.of = "split" PROVE PiecesBecomeChunks'
      BY <2>2, GivenKinds, StepComputes, SplitIsComputed
    <2>3. ASSUME Next, input.of # "split" PROVE PiecesBecomeChunks'
      <3>1. ~Computed("split")'
        BY <2>3, StepComputes DEF Computed
      <3> QED BY <3>1 DEF PiecesBecomeChunks
    <2> QED BY <2>1, <2>2, <2>3
  <1> QED BY <1>1, <1>2, GivenStays, PTL DEF Spec

(* A chunk begins with the end of the one before it: see OverlapIsCarried. *)
THEOREM ChunksOverlap ==
    Spec => []OverlapIsCarried
  <1>1. Init => OverlapIsCarried
    BY DEF Init, OverlapIsCarried, Computed
  <1>2. Given /\ OverlapIsCarried /\ [Next]_vars => OverlapIsCarried'
    <2>1. CASE UNCHANGED vars
      BY <2>1 DEF vars, OverlapIsCarried, Computed
    <2>2. ASSUME Given, Next, input.of = "split" PROVE OverlapIsCarried'
      BY <2>2, GivenKinds, StepComputes, SplitIsComputed
    <2>3. ASSUME Next, input.of # "split" PROVE OverlapIsCarried'
      <3>1. ~Computed("split")'
        BY <2>3, StepComputes DEF Computed
      <3> QED BY <3>1 DEF OverlapIsCarried
    <2> QED BY <2>1, <2>2, <2>3
  <1> QED BY <1>1, <1>2, GivenStays, PTL DEF Spec
=============================================================================
