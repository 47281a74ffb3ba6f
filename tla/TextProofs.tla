----------------------------- MODULE TextProofs -----------------------------
(***************************************************************************)
(* Proofs about text: what the parsers of CliInput and the renderers of    *)
(* EnvRender do for texts of any length over any alphabet, where TLC       *)
(* enumerates the short texts over a few characters.                       *)
(***************************************************************************)
EXTENDS EnvRender, FoldProofs

-----------------------------------------------------------------------------
(* Positions *)

\* First is 0, or the position of the first c (str.partition, str.index).
LEMMA FirstSpec ==
  ASSUME NEW Chars, NEW text \in Seq(Chars), NEW c
  PROVE  \/ /\ First(text, c) = 0
            /\ \A i \in 1..Len(text) : text[i] # c
         \/ /\ First(text, c) \in 1..Len(text)
            /\ text[First(text, c)] = c
            /\ \A i \in 1..Len(text) : text[i] = c => First(text, c) <= i
<1> DEFINE I == {i \in 1..Len(text) : text[i] = c}
<1>1. I \in SUBSET Nat
  OBVIOUS
<1>2. First(text, c) = IF I # {} THEN Min(I) ELSE 0
  BY DEF First, SelectInSeq
<1> QED
  BY <1>1, <1>2, MinExists

\* Final is 0, or the position of the last c (str.rpartition).
LEMMA FinalSpec ==
  ASSUME NEW Chars, NEW text \in Seq(Chars), NEW c
  PROVE  \/ /\ Final(text, c) = 0
            /\ \A i \in 1..Len(text) : text[i] # c
         \/ /\ Final(text, c) \in 1..Len(text)
            /\ text[Final(text, c)] = c
            /\ \A i \in 1..Len(text) : text[i] = c => Final(text, c) >= i
<1> DEFINE I == {i \in 1..Len(text) : text[i] = c}
<1>1. I \in SUBSET Nat /\ Len(text) \in Nat /\ \A i \in I : i <= Len(text)
  OBVIOUS
<1>2. Final(text, c) = IF I # {} THEN Max(I) ELSE 0
  BY DEF Final, SelectLastInSeq
<1> QED
  BY <1>1, <1>2, MaxExists

\* The two sides of a position of a text.
LEMMA Sides ==
  ASSUME NEW Chars, NEW text \in Seq(Chars), NEW i \in 1..Len(text)
  PROVE  /\ Before(text, i) \in Seq(Chars) /\ Len(Before(text, i)) = i - 1
         /\ \A j \in 1..(i - 1) : Before(text, i)[j] = text[j]
         /\ After(text, i) \in Seq(Chars) /\ Len(After(text, i)) = Len(text) - i
         /\ \A j \in 1..(Len(text) - i) : After(text, i)[j] = text[i + j]
<1>1. Len(text) \in Nat /\ i \in Int /\ i + 1 \in Int /\ i - 1 \in Int /\ Len(text) \in Int
  OBVIOUS
<1>2. \A j \in 1..(i - 1) : text[j] \in Chars
  OBVIOUS
<1>3. \A j \in (i + 1)..Len(text) : text[j] \in Chars
  OBVIOUS
<1>4. /\ Before(text, i) \in Seq(Chars)
      /\ Len(Before(text, i)) = IF 1 <= i - 1 THEN i - 1 - 1 + 1 ELSE 0
      /\ \A j \in 1..(i - 1 - 1 + 1) : Before(text, i)[j] = text[1 + j - 1]
  BY <1>1, <1>2, SubSeqProperties DEF Before
<1>5. /\ After(text, i) \in Seq(Chars)
      /\ Len(After(text, i)) = IF i + 1 <= Len(text) THEN Len(text) - (i + 1) + 1 ELSE 0
      /\ \A j \in 1..(Len(text) - (i + 1) + 1) : After(text, i)[j] = text[(i + 1) + j - 1]
  BY <1>1, <1>3, SubSeqProperties DEF After
<1>6. \A j \in 1..(i - 1) : j \in 1..(i - 1 - 1 + 1) /\ 1 + j - 1 = j
  BY <1>1
<1>7. \A j \in 1..(Len(text) - i) : j \in 1..(Len(text) - (i + 1) + 1) /\ (i + 1) + j - 1 = i + j
  BY <1>1
<1> QED
  BY <1>1, <1>4, <1>5, <1>6, <1>7

\* The text f is h, then c, then p, position by position.
Joined(f, h, c, p) ==
  /\ Len(f) = Len(h) + 1 + Len(p)
  /\ \A i \in 1..Len(h) : f[i] = h[i]
  /\ f[Len(h) + 1] = c
  /\ \A i \in 1..Len(p) : f[Len(h) + 1 + i] = p[i]

\* Which is what concatenation does.
LEMMA JoinedIs ==
  ASSUME NEW Chars, NEW h \in Seq(Chars), NEW c \in Chars, NEW p \in Seq(Chars)
  PROVE  h \o <<c>> \o p \in Seq(Chars) /\ Joined(h \o <<c>> \o p, h, c, p)
<1> DEFINE s == <<c>>
           g == h \o s
<1>1. s \in Seq(Chars) /\ Len(s) = 1 /\ s[1] = c
  OBVIOUS
<1>2. /\ g \in Seq(Chars) /\ Len(g) = Len(h) + 1
      /\ \A i \in 1..Len(h) : g[i] = h[i]
      /\ g[Len(h) + 1] = c
  <2> HIDE DEF s
  <2>1. /\ g \in Seq(Chars) /\ Len(g) = Len(h) + 1
        /\ \A i \in 1..(Len(h) + 1) : g[i] = IF i <= Len(h) THEN h[i] ELSE s[i - Len(h)]
    BY <1>1, ConcatProperties
  <2>2. Len(h) \in Nat /\ (Len(h) + 1) - Len(h) = 1
    OBVIOUS
  <2> HIDE DEF g
  <2> QED
    BY <1>1, <2>1, <2>2
<1> HIDE DEF g
<1>3. /\ g \o p \in Seq(Chars) /\ Len(g \o p) = Len(g) + Len(p)
      /\ \A i \in 1..(Len(g) + Len(p)) : (g \o p)[i] = IF i <= Len(g) THEN g[i] ELSE p[i - Len(g)]
  BY <1>2, ConcatProperties
<1>4. h \o <<c>> \o p = g \o p
  BY DEF g
<1>5. Len(h) \in Nat /\ Len(p) \in Nat
  OBVIOUS
<1> QED
  BY <1>2, <1>3, <1>4, <1>5 DEF Joined

\* And what its sides undo.
LEMMA JoinedSides ==
  ASSUME NEW Chars, NEW f \in Seq(Chars), NEW h \in Seq(Chars), NEW c, NEW p \in Seq(Chars),
         Joined(f, h, c, p)
  PROVE  Before(f, Len(h) + 1) = h /\ After(f, Len(h) + 1) = p
<1>1. Len(h) \in Nat /\ Len(p) \in Nat /\ Len(h) + 1 \in 1..Len(f)
  BY DEF Joined
<1> DEFINE b == Before(f, Len(h) + 1)
           a == After(f, Len(h) + 1)
<1>2. /\ b \in Seq(Chars) /\ Len(b) = (Len(h) + 1) - 1
      /\ \A j \in 1..((Len(h) + 1) - 1) : b[j] = f[j]
      /\ a \in Seq(Chars) /\ Len(a) = Len(f) - (Len(h) + 1)
      /\ \A j \in 1..(Len(f) - (Len(h) + 1)) : a[j] = f[(Len(h) + 1) + j]
  BY <1>1, Sides
<1> HIDE DEF a, b
<1>3. Len(b) = Len(h) /\ Len(a) = Len(p)
  BY <1>1, <1>2 DEF Joined
<1>4. \A j \in 1..Len(b) : b[j] = h[j]
  BY <1>1, <1>2, <1>3 DEF Joined
<1>5. \A j \in 1..Len(a) : a[j] = p[j]
  BY <1>1, <1>2, <1>3 DEF Joined
<1>6. b = h
  BY <1>2, <1>3, <1>4, SeqEqual
<1>7. a = p
  BY <1>2, <1>3, <1>5, SeqEqual
<1> QED
  BY <1>6, <1>7 DEF a, b

\* A text is its two sides and what stands between.
LEMMA Split ==
  ASSUME NEW Chars, NEW text \in Seq(Chars), NEW i \in 1..Len(text)
  PROVE  text = Before(text, i) \o <<text[i]>> \o After(text, i)
<1> DEFINE b == Before(text, i)
           a == After(text, i)
           c == text[i]
           f == b \o <<c>> \o a
<1>1. /\ b \in Seq(Chars) /\ Len(b) = i - 1
      /\ \A j \in 1..(i - 1) : b[j] = text[j]
      /\ a \in Seq(Chars) /\ Len(a) = Len(text) - i
      /\ \A j \in 1..(Len(text) - i) : a[j] = text[i + j]
  BY Sides
<1>2. c \in Chars
  OBVIOUS
<1>3. f \in Seq(Chars) /\ Joined(f, b, c, a)
  <2> HIDE DEF a, b, c
  <2> QED
    BY <1>1, <1>2, JoinedIs
<1> HIDE DEF a, b, f
<1>4. Len(text) \in Nat /\ i \in Nat
  OBVIOUS
<1>5. Len(f) = Len(text)
  BY <1>1, <1>3, <1>4 DEF Joined
<1>6. ASSUME NEW j \in 1..Len(f) PROVE f[j] = text[j]
  <2>1. CASE j < i
    BY <1>1, <1>3, <1>4, <2>1 DEF Joined
  <2>2. CASE j = i
    BY <1>1, <1>3, <1>4, <2>2 DEF Joined
  <2>3. CASE j > i
    <3> DEFINE l == j - i
    <3>1. l \in 1..(Len(text) - i) /\ i + l = j /\ Len(b) + 1 + l = j
      BY <1>1, <1>4, <1>5, <2>3
    <3> HIDE DEF l
    <3> QED
      BY <1>1, <1>3, <3>1 DEF Joined
  <2> QED
    BY <1>4, <1>5, <2>1, <2>2, <2>3
<1>7. text = f
  BY <1>3, <1>5, <1>6, SeqEqual
<1> QED
  BY <1>7 DEF f, b, a

\* Where a text that joins h and p by c, and has no c in p, has its last c, and
\* where one that has none in h has its first.
LEMMA JoinedAt ==
  ASSUME NEW Chars, NEW f \in Seq(Chars), NEW h \in Seq(Chars), NEW c, NEW p \in Seq(Chars),
         Joined(f, h, c, p)
  PROVE  /\ (\A i \in 1..Len(p) : p[i] # c) => Final(f, c) = Len(h) + 1
         /\ (\A i \in 1..Len(h) : h[i] # c) => First(f, c) = Len(h) + 1
<1>1. Len(h) \in Nat /\ Len(p) \in Nat /\ Len(f) = Len(h) + 1 + Len(p)
  BY DEF Joined
<1>2. Len(h) + 1 \in 1..Len(f) /\ f[Len(h) + 1] = c
  BY <1>1 DEF Joined
<1>3. ASSUME \A i \in 1..Len(p) : p[i] # c
      PROVE  Final(f, c) = Len(h) + 1
  <2> DEFINE k == Final(f, c)
  <2>1. k \in 1..Len(f) /\ f[k] = c /\ k >= Len(h) + 1
    BY <1>2, FinalSpec
  <2> HIDE DEF k
  <2>2. ASSUME k > Len(h) + 1 PROVE FALSE
    <3> DEFINE l == k - (Len(h) + 1)
    <3>1. l \in 1..Len(p) /\ Len(h) + 1 + l = k
      BY <1>1, <2>1, <2>2
    <3> HIDE DEF l
    <3> QED
      BY <1>3, <2>1, <3>1 DEF Joined
  <2>3. k = Len(h) + 1
    BY <1>1, <2>1, <2>2
  <2> QED
    BY <2>3 DEF k
<1>4. ASSUME \A i \in 1..Len(h) : h[i] # c
      PROVE  First(f, c) = Len(h) + 1
  <2> DEFINE k == First(f, c)
  <2>1. k \in 1..Len(f) /\ f[k] = c /\ k <= Len(h) + 1
    BY <1>2, FirstSpec
  <2> HIDE DEF k
  <2>2. ASSUME k < Len(h) + 1 PROVE FALSE
    <3>1. k \in 1..Len(h)
      BY <1>1, <2>1, <2>2
    <3> QED
      BY <1>4, <2>1, <3>1 DEF Joined
  <2>3. k = Len(h) + 1
    BY <1>1, <2>1, <2>2
  <2> QED
    BY <2>3 DEF k
<1> QED
  BY <1>3, <1>4

-----------------------------------------------------------------------------
(* parse_named *)

\* parse_named loses no flag: what it accepts has an entry for every item of a
\* list of any length.
LEMMA NoItemLost ==
  ASSUME NEW Chars, NEW items \in Seq(Seq(Chars)), NEW d \in ParseNamed(items),
         NEW i \in 1..Len(items)
  PROVE  \E n \in DOMAIN d : items[i] = n \o <<"=">> \o d[n]
<1> DEFINE eq(j) == First(items[j], "=")
           name(j) == Before(items[j], eq(j))
<1>1. DOMAIN items = 1..Len(items)
  OBVIOUS
<1>2. /\ \A j \in 1..Len(items) : eq(j) > 1
      /\ \A j, k \in 1..Len(items) : name(j) = name(k) => j = k
      /\ d = [n \in {name(j) : j \in 1..Len(items)} |->
                LET j == CHOOSE j \in 1..Len(items) : name(j) = n IN After(items[j], eq(j))]
  BY <1>1, Zenon DEF ParseNamed
<1>3. DOMAIN d = {name(j) : j \in 1..Len(items)} /\ d[name(i)] = After(items[i], eq(i))
  <2> DEFINE k == CHOOSE j \in 1..Len(items) : name(j) = name(i)
  <2>1. k = i
    <3>1. k \in 1..Len(items) /\ name(k) = name(i)
      OBVIOUS
    <3> HIDE DEF k, name
    <3> QED
      BY <1>2, <3>1
  <2>2. d[name(i)] = After(items[k], eq(k))
    BY <1>2, Zenon
  <2> QED
    BY <1>2, <2>1, <2>2, Zenon
<1>4. items[i] \in Seq(Chars)
  OBVIOUS
<1>5. eq(i) \in 1..Len(items[i]) /\ items[i][eq(i)] = "="
  <2>1. eq(i) # 0
    BY <1>2
  <2> QED
    BY <1>4, <2>1, FirstSpec
<1>6. items[i] = name(i) \o <<"=">> \o After(items[i], eq(i))
  <2>1. items[i] = Before(items[i], eq(i)) \o <<items[i][eq(i)]>> \o After(items[i], eq(i))
    BY <1>4, <1>5, Split
  <2> QED
    BY <1>5, <2>1
<1> QED
  BY <1>3, <1>6, Zenon

\* For a list of two flags that is what TLC checks of parse_named.
THEOREM NamesKept ==
  ASSUME NEW Chars, NEW texts \in SUBSET Seq(Chars)
  PROVE  NamesRight(texts)
<1> SUFFICES ASSUME NEW s \in texts, NEW t \in texts, NEW d \in ParseNamed(<<s, t>>),
                    NEW item \in {s, t}
             PROVE  \E n \in DOMAIN d : item = n \o <<"=">> \o d[n]
  BY Zenon DEF NamesRight
<1> DEFINE items == <<s, t>>
<1>1. items \in Seq(Seq(Chars)) /\ Len(items) = 2 /\ items[1] = s /\ items[2] = t
  OBVIOUS
<1>2. PICK i \in 1..Len(items) : items[i] = item
  <2>1. 1 \in 1..Len(items) /\ 2 \in 1..Len(items)
    BY <1>1
  <2> QED
    BY <1>1, <2>1
<1>3. d \in ParseNamed(items)
  OBVIOUS
<1> HIDE DEF items
<1>4. \E n \in DOMAIN d : items[i] = n \o <<"=">> \o d[n]
  BY <1>1, <1>2, <1>3, NoItemLost
<1> QED
  BY <1>2, <1>4

-----------------------------------------------------------------------------
(* Endpoints *)

\* host:port, as both parsers read it.
LEMMA PlainRead ==
  ASSUME NEW Chars, NEW h \in Seq(Chars), NEW p \in Seq(Chars),
         Plain(h), First(p, ":") = 0
  PROVE  /\ SplitHostPort(h \o <<":">> \o p) = At(h, ParsePort(p))
         /\ ParseHostPort(h \o <<":">> \o p) = At(h, ParsePort(p))
<1> DEFINE C == Chars \cup {":"}
           f == h \o <<":">> \o p
<1>1. h \in Seq(C) /\ p \in Seq(C)
  BY SeqMonotonic
<1>2. ":" \in C
  OBVIOUS
<1> HIDE DEF C
<1>3. f \in Seq(C) /\ Joined(f, h, ":", p)
  BY <1>1, <1>2, JoinedIs
<1> HIDE DEF f
<1>4. Len(h) \in Nat \ {0} /\ Len(p) \in Nat /\ DOMAIN h = 1..Len(h)
  BY DEF Plain
<1>5. /\ \A i \in 1..Len(h) : h[i] # ":" /\ h[i] # "["
      /\ \A i \in 1..Len(p) : p[i] # ":"
  BY <1>4, FirstSpec DEF Plain
<1>6. Final(f, ":") = Len(h) + 1
  BY <1>1, <1>3, <1>5, JoinedAt
<1>7. Before(f, Len(h) + 1) = h /\ After(f, Len(h) + 1) = p
  BY <1>1, <1>3, JoinedSides
<1>8. ~Begins(f, "[")
  <2>1. f[1] = h[1]
    BY <1>3, <1>4 DEF Joined
  <2> QED
    BY <1>4, <1>5, <2>1 DEF Begins
<1>9. SplitHostPort(f) = At(h, ParsePort(p))
  BY <1>4, <1>6, <1>7, <1>8 DEF SplitHostPort
<1>10. ~\E i \in 1..(Len(f) - 1) : f[i] = ":" /\ f[i + 1] = ":"
  <2> SUFFICES ASSUME NEW i \in 1..(Len(f) - 1), f[i] = ":", f[i + 1] = ":"
               PROVE  FALSE
    OBVIOUS
  <2>1. Len(f) = Len(h) + 1 + Len(p)
    BY <1>3 DEF Joined
  <2>2. i \in 1..Len(f) /\ i + 1 \in 1..Len(f)
    BY <1>4, <2>1
  <2>3. i + 1 <= Len(h) + 1
    BY <1>3, <1>6, <2>2, FinalSpec
  <2>4. i \in 1..Len(h)
    BY <1>4, <2>2, <2>3
  <2> QED
    BY <1>3, <1>5, <2>4 DEF Joined
<1>11. h # <<>>
  BY DEF Plain
<1>12. ParseHostPort(f) = UNION {At(s[1], ParsePort(s[2])) : s \in {t \in {<<h, p>>} : t[1] # <<>>}}
  <2>1. Len(h) + 1 # 0
    BY <1>4
  <2> QED
    BY <1>6, <1>7, <1>8, <1>10, <2>1, Zenon DEF ParseHostPort
<1>13. ParseHostPort(f) = At(h, ParsePort(p))
  <2>1. {t \in {<<h, p>>} : t[1] # <<>>} = {<<h, p>>}
    BY <1>11
  <2>2. {At(s[1], ParsePort(s[2])) : s \in {<<h, p>>}} = {At(h, ParsePort(p))}
    OBVIOUS
  <2>3. ParseHostPort(f) = UNION {At(h, ParsePort(p))}
    BY <1>12, <2>1, <2>2
  <2> DEFINE A == At(h, ParsePort(p))
  <2> HIDE DEF A
  <2>4. UNION {A} = A
    OBVIOUS
  <2> QED
    BY <2>3, <2>4 DEF A
<1> QED
  BY <1>9, <1>13 DEF f

\* [address]:port, as _split_host_port reads it.
LEMMA BracketedRead ==
  ASSUME NEW Chars, NEW h \in Seq(Chars), NEW p \in Seq(Chars), Bracketable(h)
  PROVE  SplitHostPort(<<"[">> \o h \o <<"]", ":">> \o p) = At(h, ParsePort(p))
<1> DEFINE C == Chars \cup {"[", "]", ":"}
           b == <<"[">> \o h
           r == <<":">> \o p
           f == <<"[">> \o h \o <<"]", ":">> \o p
<1>1. h \in Seq(C) /\ p \in Seq(C)
  BY SeqMonotonic
<1>2. "]" \in C /\ ":" \in C /\ "[" \in C
  OBVIOUS
<1> HIDE DEF C
<1>3. <<>> \in Seq(C) /\ Len(<<>>) = 0
  OBVIOUS
<1>4. /\ b \in Seq(C) /\ Joined(b, <<>>, "[", h)
      /\ r \in Seq(C) /\ Joined(r, <<>>, ":", p)
  <2>1. /\ <<>> \o <<"[">> \o h \in Seq(C) /\ Joined(<<>> \o <<"[">> \o h, <<>>, "[", h)
        /\ <<>> \o <<":">> \o p \in Seq(C) /\ Joined(<<>> \o <<":">> \o p, <<>>, ":", p)
    BY <1>1, <1>2, <1>3, JoinedIs
  <2>2. <<>> \o <<"[">> = <<"[">> /\ <<>> \o <<":">> = <<":">>
    BY <1>2, ConcatEmptySeq
  <2> QED
    BY <2>1, <2>2
<1>5. f = b \o <<"]">> \o r
  <2>1. <<"]", ":">> = <<"]">> \o <<":">>
    OBVIOUS
  <2> DEFINE x == <<"]">>
             y == <<":">>
             bx == b \o x
  <2>2. x \in Seq(C) /\ y \in Seq(C) /\ bx \in Seq(C)
    BY <1>2, <1>4
  <2> HIDE DEF b, x, y
  <2>3. bx \o y = b \o (x \o y)
    BY <1>4, <2>2, ConcatAssociative
  <2> HIDE DEF bx
  <2>4. (bx \o y) \o p = bx \o (y \o p)
    BY <1>1, <2>2, ConcatAssociative
  <2> QED
    BY <2>1, <2>3, <2>4 DEF b, x, y, bx
<1> HIDE DEF b, r, f
<1>6. f \in Seq(C) /\ Joined(f, b, "]", r)
  BY <1>2, <1>4, <1>5, JoinedIs
<1>7. Len(h) \in Nat /\ Len(p) \in Nat /\ DOMAIN h = 1..Len(h) /\ Len(b) = Len(h) + 1 /\ Len(r) = Len(p) + 1
  BY <1>3, <1>4 DEF Joined
<1>8. b[1] = "[" /\ r[1] = ":"
  BY <1>3, <1>4 DEF Joined
<1>9. \A i \in 1..Len(b) : b[i] # "]"
  <2> SUFFICES ASSUME NEW i \in 1..Len(b) PROVE b[i] # "]"
    OBVIOUS
  <2>1. CASE i = 1
    BY <1>8, <2>1
  <2>2. CASE i > 1
    <3> DEFINE l == i - 1
    <3>1. l \in 1..Len(h) /\ 0 + 1 + l = i
      BY <1>7, <2>2
    <3> HIDE DEF l
    <3>2. b[i] = h[l]
      BY <1>3, <1>4, <3>1 DEF Joined
    <3> QED
      BY <1>7, <3>1, <3>2 DEF Bracketable
  <2> QED
    BY <1>7, <2>1, <2>2
<1>10. First(f, "]") = Len(b) + 1 /\ Len(b) + 1 # 0
  BY <1>4, <1>6, <1>7, <1>9, JoinedAt
<1>11. Before(f, Len(b) + 1) = b /\ After(f, Len(b) + 1) = r
  BY <1>4, <1>6, JoinedSides
<1>12. f # <<>> /\ r # <<>> /\ b # <<>>
  BY <1>4, <1>6, <1>7, <1>3 DEF Joined
<1>13. Begins(f, "[") /\ Begins(r, ":")
  <2>1. f[1] = b[1]
    BY <1>6, <1>7 DEF Joined
  <2> QED
    BY <1>8, <1>12, <2>1 DEF Begins
<1>14. Tail(b) = h /\ Tail(r) = p
  <2>1. ASSUME NEW g \in Seq(C), NEW c, NEW q \in Seq(C), Joined(g, <<>>, c, q)
        PROVE  Tail(g) = q
    <3>1. Len(q) \in Nat /\ Len(g) = Len(q) + 1 /\ g # <<>>
      BY <1>3, <2>1 DEF Joined
    <3>2. /\ Tail(g) \in Seq(C) /\ Len(Tail(g)) = Len(g) - 1
          /\ \A i \in 1..Len(Tail(g)) : Tail(g)[i] = g[i + 1]
      BY <3>1, HeadTailProperties
    <3>3. \A i \in 1..Len(q) : g[i + 1] = q[i]
      <4>1. \A i \in 1..Len(q) : 0 + 1 + i = i + 1
        OBVIOUS
      <4> QED
        BY <1>3, <2>1, <4>1 DEF Joined
    <3>4. Len(Tail(g)) = Len(q)
      BY <3>1, <3>2
    <3> DEFINE t == Tail(g)
    <3>5. t \in Seq(C) /\ Len(t) = Len(q) /\ \A i \in 1..Len(t) : t[i] = q[i]
      BY <3>2, <3>3, <3>4
    <3> HIDE DEF t
    <3>6. t = q
      BY <3>5, SeqEqual
    <3> QED
      BY <3>6 DEF t
  <2> QED
    BY <1>1, <1>4, <2>1
<1>15. SplitHostPort(f) = At(h, ParsePort(p))
  BY <1>10, <1>11, <1>12, <1>13, <1>14, Zenon DEF SplitHostPort
<1> QED
  BY <1>15 DEF f

\* What ParseHostPort finds when it splits a text into t[1] and t[2].
LEMMA OneSplit ==
  ASSUME NEW split, NEW h, NEW p, split \subseteq {<<h, p>>}
  PROVE  LET ends == UNION {At(s[1], ParsePort(s[2])) : s \in {t \in split : t[1] # <<>>}}
         IN ends # {} => split # {} /\ h # <<>> /\ ends = At(h, ParsePort(p))
<1> DEFINE kept == {t \in split : t[1] # <<>>}
           ends == UNION {At(s[1], ParsePort(s[2])) : s \in kept}
<1> SUFFICES ASSUME ends # {} PROVE split # {} /\ h # <<>> /\ ends = At(h, ParsePort(p))
  OBVIOUS
<1>1. kept # {} /\ kept \subseteq {<<h, p>>}
  OBVIOUS
<1>2. split # {} /\ h # <<>>
  BY <1>1
<1>3. kept = {<<h, p>>}
  BY <1>1
<1> HIDE DEF kept
<1>4. {At(s[1], ParsePort(s[2])) : s \in kept} = {At(h, ParsePort(p))}
  BY <1>3
<1> DEFINE A == At(h, ParsePort(p))
<1> HIDE DEF A
<1>5. UNION {A} = A
  OBVIOUS
<1> QED
  BY <1>2, <1>4, <1>5 DEF A

\* The two parsers agree on what both accept.
LEMMA ParsersAgree ==
  ASSUME NEW Chars, NEW h \in Seq(Chars), SplitHostPort(h) # {}, ParseHostPort(h) # {}
  PROVE  SplitHostPort(h) = ParseHostPort(h)
<1> DEFINE close == {i \in 1..(Len(h) - 1) : h[i] = "]" /\ h[i + 1] = ":"}
           double == \E i \in 1..(Len(h) - 1) : h[i] = ":" /\ h[i + 1] = ":"
           colon == Final(h, ":")
           least == {j \in close : \A k \in close : j <= k}
           ends(split) == UNION {At(s[1], ParsePort(s[2])) : s \in {t \in split : t[1] # <<>>}}
<1>1. Len(h) \in Nat
  OBVIOUS
<1>2. CASE Begins(h, "[")
  <2> DEFINE end == First(h, "]")
             rest == After(h, end)
             split == {<<Tail(Before(h, i)), After(h, i + 1)>> : i \in least}
  <2>1. ParseHostPort(h) = ends(split)
    BY <1>2, Zenon DEF ParseHostPort
  <2>2. /\ end # 0
        /\ SplitHostPort(h) = At(Tail(Before(h, end)),
                                 CASE rest = <<>> -> {22}
                                   [] Begins(rest, ":") -> ParsePort(Tail(rest))
                                   [] OTHER -> {})
    BY <1>2, Zenon DEF SplitHostPort
  <2>3. /\ end \in 1..Len(h) /\ h[end] = "]"
        /\ \A i \in 1..Len(h) : h[i] = "]" => end <= i
    BY <2>2, FirstSpec
  <2>4. /\ rest \in Seq(Chars) /\ Len(rest) = Len(h) - end
        /\ \A j \in 1..(Len(h) - end) : rest[j] = h[end + j]
    BY <2>3, Sides
  <2>5. least # {}
    <3>1. ASSUME least = {} PROVE FALSE
      <4>1. split = {}
        BY <3>1
      <4> HIDE DEF split
      <4>2. ends(split) = {}
        BY <4>1
      <4> QED
        BY <2>1, <4>2
    <3> QED
      BY <3>1
  <2>6. PICK i \in least : TRUE
    BY <2>5
  <2>7. i \in 1..(Len(h) - 1) /\ end <= i
    BY <1>1, <2>3, <2>6
  <2>8. rest # <<>>
    BY <1>1, <2>3, <2>4, <2>7
  <2>9. Begins(rest, ":")
    <3>1. ASSUME ~Begins(rest, ":") PROVE FALSE
      <4>1. SplitHostPort(h) = At(Tail(Before(h, end)), {})
        BY <2>2, <2>8, <3>1
      <4> QED
        BY <4>1 DEF At
    <3> QED
      BY <3>1
  <2>10. SplitHostPort(h) = At(Tail(Before(h, end)), ParsePort(Tail(rest)))
    BY <2>2, <2>8, <2>9
  <2>11. end \in close
    <3>1. 1 \in 1..(Len(h) - end) /\ end \in 1..(Len(h) - 1)
      BY <1>1, <2>3, <2>7
    <3>2. h[end + 1] = ":"
      BY <2>4, <2>9, <3>1 DEF Begins
    <3> QED
      BY <2>3, <3>1, <3>2
  <2>12. least \subseteq {end}
    <3> SUFFICES ASSUME NEW j \in least PROVE j = end
      OBVIOUS
    <3>1. j <= end /\ end <= j
      BY <1>1, <2>3, <2>11
    <3> QED
      BY <2>3, <3>1
  <2>13. split \subseteq {<<Tail(Before(h, end)), After(h, end + 1)>>}
    BY <2>12
  <2>14. Tail(rest) = After(h, end + 1)
    <3>1. end + 1 \in 1..Len(h) /\ Len(h) \in (end + 1)..Len(h)
      BY <1>1, <2>3, <2>7
    <3>2. Tail(SubSeq(h, end + 1, Len(h))) = SubSeq(h, (end + 1) + 1, Len(h))
      BY <3>1, HeadTailOfSubSeq
    <3> QED
      BY <3>2 DEF After
  <2> DEFINE here == Tail(Before(h, end))
             there == After(h, end + 1)
  <2>15. ParseHostPort(h) = At(here, ParsePort(there))
    <3>1. split \subseteq {<<here, there>>}
      BY <2>13
    <3> HIDE DEF split, here, there
    <3>2. ends(split) # {}
      BY <2>1
    <3>3. ends(split) = At(here, ParsePort(there))
      BY <3>1, <3>2, OneSplit
    <3> QED
      BY <2>1, <3>3
  <2> QED
    BY <2>10, <2>14, <2>15 DEF here, there
<1>3. CASE ~Begins(h, "[")
  <2> DEFINE split == IF double \/ colon = 0 THEN {} ELSE {<<Before(h, colon), After(h, colon)>>}
  <2>1. ParseHostPort(h) = ends(split)
    BY <1>3, Zenon DEF ParseHostPort
  <2>2. split \subseteq {<<Before(h, colon), After(h, colon)>>}
    OBVIOUS
  <2> DEFINE here == Before(h, colon)
             there == After(h, colon)
  <2> HIDE DEF split, here, there
  <2>3. split # {} /\ here # <<>> /\ ParseHostPort(h) = At(here, ParsePort(there))
    BY <2>1, <2>2, OneSplit DEF here, there
  <2>4. colon # 0
    BY <2>3 DEF split
  <2>5. colon \in 1..Len(h)
    BY <2>4, FinalSpec
  <2>6. colon > 1
    <3>1. here \in Seq(Chars) /\ Len(here) = colon - 1
      BY <2>5, Sides DEF here
    <3>2. Len(here) \in Nat \ {0}
      BY <2>3, <3>1, EmptySeq
    <3> QED
      BY <1>1, <2>5, <3>1, <3>2
  <2>7. SplitHostPort(h) = At(here, ParsePort(there))
    BY <1>3, <2>4, <2>6 DEF SplitHostPort, here, there
  <2> QED
    BY <2>3, <2>7
<1> QED
  BY <1>2, <1>3

\* What the user writes is what is dialled, for addresses and ports of any
\* length over any alphabet (_split_host_port and _parse_host_port).
THEOREM EndpointsDialled ==
  ASSUME NEW Chars, NEW texts \in SUBSET Seq(Chars)
  PROVE  EndpointsRight(texts)
<1>1. ASSUME NEW h \in texts, Plain(h)
      PROVE  SplitHostPort(h) = At(h, {22})
  <2>1. DOMAIN h = 1..Len(h) /\ h # <<>> /\ \A i \in 1..Len(h) : h[i] # ":" /\ h[i] # "["
    BY <1>1 DEF Plain
  <2>2. ~Begins(h, "[")
    <3>1. 1 \in 1..Len(h)
      BY <2>1, EmptySeq
    <3> QED
      BY <2>1, <3>1 DEF Begins
  <2>3. Final(h, ":") = 0
    BY <2>1, FinalSpec
  <2> QED
    BY <2>1, <2>2, <2>3 DEF SplitHostPort
<1>2. \A h \in texts, p \in texts : Bracketable(h) =>
        SplitHostPort(<<"[">> \o h \o <<"]", ":">> \o p) = At(h, ParsePort(p))
  BY BracketedRead
<1>3. \A h \in texts, p \in texts : Plain(h) /\ First(p, ":") = 0 =>
        /\ SplitHostPort(h \o <<":">> \o p) = At(h, ParsePort(p))
        /\ ParseHostPort(h \o <<":">> \o p) = At(h, ParsePort(p))
  BY PlainRead
<1>4. \A h \in texts : SplitHostPort(h) # {} /\ ParseHostPort(h) # {}
                         => SplitHostPort(h) = ParseHostPort(h)
  BY ParsersAgree
<1> QED
  BY <1>1, <1>2, <1>3, <1>4, Zenon DEF EndpointsRight

-----------------------------------------------------------------------------
(* render_env *)

\* The variables that names make with one suffix.
Made(names, suffix) == {<<Key(n), suffix>> : n \in names}

\* There are as many as names, if the names stay apart.
LEMMA MadeOf ==
  ASSUME NEW names, IsFiniteSet(names), NEW suffix,
         \A n \in names, m \in names : Key(n) = Key(m) => n = m
  PROVE  /\ IsFiniteSet(Made(names, suffix))
         /\ Cardinality(Made(names, suffix)) = Cardinality(names)
<1> DEFINE T == Made(names, suffix)
           f == [n \in names |-> <<Key(n), suffix>>]
<1>1. f \in [names -> T]
  BY DEF Made
<1>2. \A t \in T : \E n \in names : f[n] = t
  BY DEF Made
<1>3. \A n, m \in names : f[n] = f[m] => n = m
  OBVIOUS
<1> HIDE DEF T, f
<1>4. f \in Surjection(names, T) /\ f \in Injection(names, T)
  BY <1>1, <1>2, <1>3 DEF Surjection, Injection, IsInjective
<1>5. IsFiniteSet(T) /\ Cardinality(T) = Cardinality(names)
  BY <1>4, FS_Surjection
<1> QED
  BY <1>5 DEF T

\* No two names of a node become the same key.
Distinct(ports, kube) ==
  /\ \A n \in ports, m \in ports : Key(n) = Key(m) => n = m
  /\ \A n \in kube, m \in kube : Key(n) = Key(m) => n = m
  /\ \A n \in ports, m \in kube : Key(n) # Key(m)

\* A node with these names, whose kubeconfigs are written to files.
NodeOf(ports, kube) == [ports |-> ports, kube |-> kube, paths |-> TRUE]

\* render_env puts a key twice exactly if two names collide.
LEMMA Collides ==
  ASSUME NEW ports, NEW kube
  PROVE  (\A p, q \in Puts(NodeOf(ports, kube)) : Variable(p) = Variable(q) => p = q)
           <=> Distinct(ports, kube)
<1> DEFINE puts == Puts(NodeOf(ports, kube))
           Inj == \A p, q \in puts : Variable(p) = Variable(q) => p = q
<1>1. puts = (ports \X {"HOST", "PORT", "ENDPOINT"} \X {"port"})
               \cup (kube \X {"KUBECONFIG", "ENDPOINT"} \X {"kube"})
  BY DEF Puts, NodeOf
<1> HIDE DEF puts
<1>2. ASSUME Inj PROVE Distinct(ports, kube)
  <2>1. ASSUME NEW n \in ports, NEW m \in ports, Key(n) = Key(m) PROVE n = m
    <3> DEFINE p == <<n, "HOST", "port">>
               q == <<m, "HOST", "port">>
    <3>1. p \in puts /\ q \in puts
      BY <1>1
    <3>2. Variable(p) = Variable(q)
      BY <2>1 DEF Variable
    <3> QED
      BY <1>2, <3>1, <3>2
  <2>2. ASSUME NEW n \in kube, NEW m \in kube, Key(n) = Key(m) PROVE n = m
    <3> DEFINE p == <<n, "ENDPOINT", "kube">>
               q == <<m, "ENDPOINT", "kube">>
    <3>1. p \in puts /\ q \in puts
      BY <1>1
    <3>2. Variable(p) = Variable(q)
      BY <2>2 DEF Variable
    <3> QED
      BY <1>2, <3>1, <3>2
  <2>3. ASSUME NEW n \in ports, NEW m \in kube, Key(n) = Key(m) PROVE FALSE
    <3> DEFINE p == <<n, "ENDPOINT", "port">>
               q == <<m, "ENDPOINT", "kube">>
    <3>1. p \in puts /\ q \in puts
      BY <1>1
    <3>2. Variable(p) = Variable(q)
      BY <2>3 DEF Variable
    <3> QED
      BY <1>2, <3>1, <3>2
  <2> QED
    BY <2>1, <2>2, <2>3 DEF Distinct
<1>3. ASSUME Distinct(ports, kube) PROVE Inj
  <2> SUFFICES ASSUME NEW p \in puts, NEW q \in puts, Variable(p) = Variable(q)
               PROVE  p = q
    OBVIOUS
  <2>1. Key(p[1]) = Key(q[1]) /\ p[2] = q[2]
    BY DEF Variable
  <2>2. ASSUME NEW t \in puts
        PROVE  /\ t = <<t[1], t[2], t[3]>>
               /\ \/ t[1] \in ports /\ t[3] = "port"
                  \/ t[1] \in kube /\ t[3] = "kube"
    <3>1. CASE t \in ports \X {"HOST", "PORT", "ENDPOINT"} \X {"port"}
      BY <3>1
    <3>2. CASE t \in kube \X {"KUBECONFIG", "ENDPOINT"} \X {"kube"}
      BY <3>2
    <3>3. \/ t \in ports \X {"HOST", "PORT", "ENDPOINT"} \X {"port"}
          \/ t \in kube \X {"KUBECONFIG", "ENDPOINT"} \X {"kube"}
      BY <1>1
    <3> QED
      BY <3>1, <3>2, <3>3, Zenon
  <2>3. p[1] = q[1] /\ p[3] = q[3]
    BY <1>3, <2>1, <2>2 DEF Distinct
  <2> QED
    BY <2>1, <2>2, <2>3
<1> QED
  BY <1>2, <1>3 DEF puts

\* Without a collision there is a variable for every put.
LEMMA EnvCounted ==
  ASSUME NEW ports, IsFiniteSet(ports), NEW kube, IsFiniteSet(kube), Distinct(ports, kube)
  PROVE  Cardinality({Variable(p) : p \in Puts(NodeOf(ports, kube))})
           = 3 * Cardinality(ports) + 2 * Cardinality(kube)
<1> DEFINE A == Made(ports, "HOST")
           B == Made(ports, "PORT")
           C == Made(ports, "ENDPOINT")
           D == Made(kube, "KUBECONFIG")
           E == Made(kube, "ENDPOINT")
           named == {Variable(p) : p \in Puts(NodeOf(ports, kube))}
<1>1. named = A \cup B \cup C \cup D \cup E
  <2>1. ASSUME NEW v \in named PROVE v \in A \cup B \cup C \cup D \cup E
    <3>1. PICK p \in Puts(NodeOf(ports, kube)) : v = Variable(p)
      OBVIOUS
    <3>2. \/ p[1] \in ports /\ p[2] \in {"HOST", "PORT", "ENDPOINT"}
          \/ p[1] \in kube /\ p[2] \in {"KUBECONFIG", "ENDPOINT"}
      BY DEF Puts, NodeOf
    <3> QED
      BY <3>1, <3>2 DEF Made, Variable
  <2>2. ASSUME NEW v \in A \cup B \cup C \cup D \cup E PROVE v \in named
    <3>1. ASSUME NEW n \in ports, NEW s \in {"HOST", "PORT", "ENDPOINT"}, v = <<Key(n), s>>
          PROVE  v \in named
      <4>1. <<n, s, "port">> \in Puts(NodeOf(ports, kube))
        BY DEF Puts, NodeOf
      <4>2. v = Variable(<<n, s, "port">>)
        BY <3>1 DEF Variable
      <4> QED
        BY <4>1, <4>2
    <3>2. ASSUME NEW n \in kube, NEW s \in {"KUBECONFIG", "ENDPOINT"}, v = <<Key(n), s>>
          PROVE  v \in named
      <4>1. <<n, s, "kube">> \in Puts(NodeOf(ports, kube))
        BY DEF Puts, NodeOf
      <4>2. v = Variable(<<n, s, "kube">>)
        BY <3>2 DEF Variable
      <4> QED
        BY <4>1, <4>2
    <3> HIDE DEF named
    <3> QED
      BY <3>1, <3>2 DEF Made
  <2> HIDE DEF named, A, B, C, D, E
  <2> QED
    BY <2>1, <2>2
<1>2. /\ IsFiniteSet(A) /\ Cardinality(A) = Cardinality(ports)
      /\ IsFiniteSet(B) /\ Cardinality(B) = Cardinality(ports)
      /\ IsFiniteSet(C) /\ Cardinality(C) = Cardinality(ports)
      /\ IsFiniteSet(D) /\ Cardinality(D) = Cardinality(kube)
      /\ IsFiniteSet(E) /\ Cardinality(E) = Cardinality(kube)
  BY MadeOf DEF Distinct
<1>3. /\ \A x \in A : x \notin B
      /\ \A x \in A \cup B : x \notin C
      /\ \A x \in A \cup B \cup C : x \notin D
      /\ \A x \in A \cup B \cup C \cup D : x \notin E
  BY DEF Made, Distinct
<1> HIDE DEF A, B, C, D, E, named
<1>4. IsFiniteSet(A \cup B) /\ Cardinality(A \cup B) = Cardinality(A) + Cardinality(B)
  BY <1>2, <1>3, Apart
<1> DEFINE AB == A \cup B
<1> HIDE DEF AB
<1>5. IsFiniteSet(AB \cup C) /\ Cardinality(AB \cup C) = Cardinality(AB) + Cardinality(C)
  BY <1>2, <1>3, <1>4, Apart DEF AB
<1> DEFINE ABC == AB \cup C
<1> HIDE DEF ABC
<1>6. IsFiniteSet(ABC \cup D) /\ Cardinality(ABC \cup D) = Cardinality(ABC) + Cardinality(D)
  BY <1>2, <1>3, <1>5, Apart DEF AB, ABC
<1> DEFINE ABCD == ABC \cup D
<1> HIDE DEF ABCD
<1>7. IsFiniteSet(ABCD \cup E) /\ Cardinality(ABCD \cup E) = Cardinality(ABCD) + Cardinality(E)
  BY <1>2, <1>3, <1>6, Apart DEF AB, ABC, ABCD
<1>8. named = ABCD \cup E
  BY <1>1 DEF AB, ABC, ABCD
<1>9. Cardinality(ports) \in Nat /\ Cardinality(kube) \in Nat
  BY FS_CardinalityType
<1>10. Cardinality(named) = 3 * Cardinality(ports) + 2 * Cardinality(kube)
  <2>1. Cardinality(AB) = Cardinality(ports) + Cardinality(ports)
    BY <1>2, <1>4 DEF AB
  <2>2. Cardinality(ABC) = Cardinality(ports) + Cardinality(ports) + Cardinality(ports)
    BY <1>2, <1>5, <2>1 DEF ABC
  <2>3. Cardinality(ABCD) = Cardinality(ABC) + Cardinality(kube)
    BY <1>2, <1>6 DEF ABCD
  <2>4. Cardinality(named) = Cardinality(ABCD) + Cardinality(kube)
    BY <1>2, <1>7, <1>8
  <2> QED
    BY <1>9, <2>2, <2>3, <2>4
<1> QED
  BY <1>10 DEF named

\* render_env fails exactly when two names of the node, port or kube, become the
\* same after sanitising; otherwise no variable is lost.
THEOREM EnvKept ==
  ASSUME NEW names
  PROVE  EnvRight(names)
<1> SUFFICES ASSUME NEW ports, NEW kube, IsFiniteSet(ports), IsFiniteSet(kube)
             PROVE  /\ (RenderEnv(<<NodeOf(ports, kube)>>) # {}) = Distinct(ports, kube)
                    /\ \A env \in RenderEnv(<<NodeOf(ports, kube)>>) :
                         Cardinality(env.named) = 3 * Cardinality(ports) + 2 * Cardinality(kube)
  BY DEF EnvRight, NodeOf, Distinct
<1> DEFINE node == NodeOf(ports, kube)
           nodes == <<node>>
           named == {Variable(p) : p \in Puts(node)}
           Free == \A p, q \in Puts(node) : Variable(p) = Variable(q) => p = q
           env == [named |-> named, fixed |-> Fixed(node)]
<1>1. DOMAIN nodes = {1} /\ Len(nodes) = 1 /\ nodes[1] = node /\ node.paths
  BY DEF NodeOf
<1>2. RenderEnv(nodes) = {env : m \in {k \in {1} : Free}}
  <2> DEFINE ok(m) == /\ Len(nodes) = 1
                      /\ nodes[m].kube = {} \/ nodes[m].paths
                      /\ \A p, q \in Puts(nodes[m]) : Variable(p) = Variable(q) => p = q
  <2>1. RenderEnv(nodes) = {env : m \in {k \in {1} : ok(k)}}
    BY <1>1, Zenon DEF RenderEnv
  <2>2. ok(1) <=> Free
    BY <1>1
  <2> HIDE DEF ok, Free, env
  <2>3. {k \in {1} : ok(k)} = {k \in {1} : Free}
    BY <2>2
  <2> QED
    BY <2>1, <2>3
<1>3. Free <=> Distinct(ports, kube)
  BY Collides
<1>4. Distinct(ports, kube) => Cardinality(named) = 3 * Cardinality(ports) + 2 * Cardinality(kube)
  BY EnvCounted
<1> HIDE DEF Free
<1>5. (RenderEnv(nodes) # {}) <=> Free
  BY <1>2
<1>6. \A e \in RenderEnv(nodes) : Free /\ e = env
  BY <1>2
<1>7. env.named = named
  OBVIOUS
<1> HIDE DEF env, named
<1>8. \A e \in RenderEnv(nodes) : Cardinality(e.named) = 3 * Cardinality(ports) + 2 * Cardinality(kube)
  BY <1>3, <1>4, <1>6, <1>7
<1>9. (RenderEnv(nodes) # {}) = Distinct(ports, kube)
  BY <1>3, <1>5 DEF Distinct
<1> QED
  BY <1>8, <1>9

-----------------------------------------------------------------------------
(* format_exports *)

\* What the shell has read so far, and in which mode it is.
ShellStates(Chars) == [mode : {"bare", "quoted", "escape", "unsafe"}, word : Seq(Chars)]

\* The shell's states are closed under its step.
LEMMA ShellStepType ==
  ASSUME NEW Chars, NEW st \in ShellStates(Chars), NEW c \in Chars
  PROVE  ShellStep(st, c) \in ShellStates(Chars)
<1>1. Append(st.word, c) \in Seq(Chars)
  BY DEF ShellStates
<1> QED
  BY <1>1 DEF ShellStates, ShellStep

\* How the shell reads a text, state by state.
Reading(r, Chars, base, text) ==
  /\ r \in [0..Len(text) -> ShellStates(Chars)] /\ r[0] = base
  /\ \A k \in 1..Len(text) : r[k] = ShellStep(r[k - 1], text[k])

\* The fold of ShellReads is such a reading.
LEMMA ReadingIs ==
  ASSUME NEW Chars, NEW text \in Seq(Chars), NEW base \in ShellStates(Chars)
  PROVE  \E r : Reading(r, Chars, base, text) /\ FoldLeft(ShellStep, base, text) = r[Len(text)]
<1> DEFINE n == Len(text)
           V == ShellStates(Chars)
           g == [p \in (1..n) \X V |-> ShellStep(p[2], text[p[1]])]
           Good(h) == h = [s \in SUBSET DOMAIN text |->
                             IF s = {} THEN base
                             ELSE ShellStep(h[s \ {Max(s)}], text[Max(s)])]
           f == CHOOSE h : Good(h)
<1>1. n \in Nat /\ DOMAIN text = 1..n /\ \A i \in 1..n : text[i] \in Chars
  OBVIOUS
<1>2. g \in [(1..n) \X V -> V]
  BY <1>1, ShellStepType
<1> HIDE DEF n, V, g
<1>3. base \in V
  BY DEF V
<1>4. PICK h : FoldsBy(h, V, base, n, g)
  BY <1>1, <1>2, <1>3, FoldExists
<1>5. ASSUME NEW s \in SUBSET (1..n)
      PROVE  h[s] = IF s = {} THEN base ELSE ShellStep(h[s \ {Max(s)}], text[Max(s)])
  <2>1. CASE s # {}
    <3>1. s \in SUBSET Nat /\ \A i \in s : i <= n
      BY <1>1
    <3>2. Max(s) \in s
      BY <1>1, <2>1, <3>1, MaxExists
    <3>3. <<Max(s), h[s \ {Max(s)}]>> \in (1..n) \X V
      BY <1>4, <3>2 DEF FoldsBy
    <3>4. g[<<Max(s), h[s \ {Max(s)}]>>] = ShellStep(h[s \ {Max(s)}], text[Max(s)])
      BY <3>3 DEF g
    <3> QED
      BY <1>4, <2>1, <3>4 DEF FoldsBy
  <2> QED
    BY <1>4, <2>1 DEF FoldsBy
<1>6. Good(h)
  BY <1>1, <1>4, <1>5 DEF FoldsBy
<1>7. Good(f)
  BY <1>6
<1>8. FoldLeft(ShellStep, base, text) = f[DOMAIN text]
  BY DEF FoldLeft, MapThenFoldSet
<1> HIDE DEF f
<1>9. \A s \in SUBSET (1..n) :
        f[s] = IF s = {} THEN base ELSE ShellStep(f[s \ {Max(s)}], text[Max(s)])
  BY <1>1, <1>7
<1> DEFINE r == [k \in 0..n |-> f[1..k]]
<1>10. /\ r[0] = base
       /\ \A k \in 1..n : r[k] = ShellStep(r[k - 1], text[k])
  <2>1. 1..0 = {} /\ 1..0 \in SUBSET (1..n) /\ 0 \in 0..n
    BY <1>1
  <2>2. ASSUME NEW k \in 1..n PROVE r[k] = ShellStep(r[k - 1], text[k])
    <3>1. 1..k \in SUBSET (1..n) /\ k \in 1..k /\ k \in Nat /\ k \in 0..n /\ k - 1 \in 0..n
      BY <1>1
    <3>2. Max(1..k) = k
      BY <3>1, MaxOf
    <3>3. (1..k) \ {k} = 1..(k - 1)
      BY <3>1
    <3>4. f[1..k] = ShellStep(f[1..(k - 1)], text[k])
      BY <1>9, <3>1, <3>2, <3>3
    <3> QED
      BY <3>1, <3>4
  <2> QED
    BY <1>9, <2>1, <2>2
<1>11. r \in [0..n -> V]
  <2> DEFINE S == {k \in 0..n : r[k] \in V}
  <2>1. 0 \in S
    BY <1>1, <1>3, <1>10
  <2>2. \A k \in 1..n : k - 1 \in S => k \in S
    <3> SUFFICES ASSUME NEW k \in 1..n, r[k - 1] \in V PROVE r[k] \in V /\ k \in 0..n
      OBVIOUS
    <3>1. text[k] \in Chars /\ k \in 0..n
      BY <1>1
    <3>2. ShellStep(r[k - 1], text[k]) \in V
      BY <3>1, ShellStepType DEF V
    <3> QED
      BY <1>10, <3>1, <3>2
  <2> HIDE DEF S
  <2>3. \A k \in 0..n : k \in S
    BY <1>1, <2>1, <2>2, Climb
  <2> QED
    BY <2>3 DEF S
<1>12. r[n] = f[DOMAIN text]
  BY <1>1
<1> HIDE DEF r
<1>13. Reading(r, Chars, base, text)
  BY <1>10, <1>11 DEF Reading, n, V
<1>14. FoldLeft(ShellStep, base, text) = r[Len(text)]
  BY <1>8, <1>12 DEF n
<1> QED
  BY <1>13, <1>14

\* What the shell has read so far does not change when it reads on.
LEMMA ReadOn ==
  ASSUME NEW Chars, NEW text \in Seq(Chars), NEW c \in Chars, NEW base \in ShellStates(Chars)
  PROVE  FoldLeft(ShellStep, base, Append(text, c)) = ShellStep(FoldLeft(ShellStep, base, text), c)
<1> DEFINE n == Len(text)
           more == Append(text, c)
<1>1. /\ more \in Seq(Chars) /\ Len(more) = n + 1 /\ n \in Nat
      /\ \A i \in 1..n : more[i] = text[i]
      /\ more[n + 1] = c
  BY AppendProperties
<1> HIDE DEF more
<1>2. PICK r : Reading(r, Chars, base, text) /\ FoldLeft(ShellStep, base, text) = r[Len(text)]
  BY ReadingIs
<1>3. PICK q : Reading(q, Chars, base, more) /\ FoldLeft(ShellStep, base, more) = q[Len(more)]
  BY <1>1, ReadingIs
<1> DEFINE S == {k \in 0..n : q[k] = r[k]}
<1>4. 0 \in S
  BY <1>1, <1>2, <1>3 DEF Reading
<1>5. ASSUME NEW k \in 1..n, k - 1 \in S PROVE k \in S
  <2>1. q[k - 1] = r[k - 1] /\ k \in 0..n /\ k \in 1..Len(text) /\ k \in 1..Len(more)
    BY <1>1, <1>5
  <2>2. q[k] = ShellStep(q[k - 1], more[k]) /\ r[k] = ShellStep(r[k - 1], text[k])
    BY <1>2, <1>3, <2>1 DEF Reading
  <2> QED
    BY <1>1, <2>1, <2>2
<1> HIDE DEF S, n
<1>6. \A k \in 0..n : k \in S
  BY <1>1, <1>4, <1>5, Climb
<1>7. q[n] = r[n]
  BY <1>1, <1>6 DEF S
<1>8. q[n + 1] = ShellStep(q[n], c)
  <2>1. n + 1 \in 1..Len(more) /\ (n + 1) - 1 = n
    BY <1>1
  <2> QED
    BY <1>1, <1>3, <2>1 DEF Reading
<1> QED
  BY <1>1, <1>2, <1>3, <1>7, <1>8 DEF more, n

\* One of those states.
State(mode, word) == [mode |-> mode, word |-> word]

\* The steps of the shell that Exported makes use of.
LEMMA ShellSteps ==
  ASSUME NEW w, NEW c
  PROVE  /\ ShellStep(State("bare", w), "'") = State("quoted", w)
         /\ ShellStep(State("bare", w), "\\") = State("escape", w)
         /\ ShellStep(State("escape", w), "'") = State("bare", Append(w, "'"))
         /\ ShellStep(State("quoted", w), "'") = State("bare", w)
         /\ c # "'" => ShellStep(State("quoted", w), c) = State("quoted", Append(w, c))
<1>1. ShellStep(State("bare", w), "'") = State("quoted", w)
  BY DEF ShellStep, State
<1>2. ShellStep(State("bare", w), "\\") = State("escape", w)
  BY DEF ShellStep, State
<1>3. ShellStep(State("escape", w), "'") = State("bare", Append(w, "'"))
  BY DEF ShellStep, State
<1>4. ShellStep(State("quoted", w), "'") = State("bare", w)
  BY DEF ShellStep, State
<1>5. c # "'" => ShellStep(State("quoted", w), c) = State("quoted", Append(w, c))
  BY DEF ShellStep, State
<1> QED
  BY <1>1, <1>2, <1>3, <1>4, <1>5

\* The shell before the first character.
Begun == State("bare", <<>>)

\* What Quote makes of one character.
Part(c) == IF c = "'" THEN <<"'", "\\", "'", "'">> ELSE <<c>>

\* A shell within quotes reads the part of a character as that character.
LEMMA ReadPart ==
  ASSUME NEW Chars, "'" \in Chars, "\\" \in Chars, NEW text \in Seq(Chars),
         NEW w \in Seq(Chars), NEW c \in Chars, ShellReads(text) = State("quoted", w)
  PROVE  text \o Part(c) \in Seq(Chars) /\ ShellReads(text \o Part(c)) = State("quoted", Append(w, c))
<1>0. ASSUME NEW t \in Seq(Chars), NEW d \in Chars
      PROVE  ShellReads(Append(t, d)) = ShellStep(ShellReads(t), d)
  <2>1. Begun \in ShellStates(Chars)
    BY DEF Begun, State, ShellStates
  <2>2. \A t2 : ShellReads(t2) = FoldLeft(ShellStep, Begun, t2)
    BY DEF ShellReads, Begun, State
  <2> QED
    BY <2>1, <2>2, ReadOn
<1>1. CASE c # "'"
  <2>1. text \o Part(c) = Append(text, c)
    BY <1>1, AppendIsConcat DEF Part
  <2>2. ShellReads(Append(text, c)) = ShellStep(State("quoted", w), c)
    BY <1>0
  <2> QED
    BY <1>1, <2>1, <2>2, ShellSteps
<1>2. CASE c = "'"
  <2> DEFINE t1 == Append(text, "'")
             t2 == Append(t1, "\\")
             t3 == Append(t2, "'")
             t4 == Append(t3, "'")
  <2>1. text \o <<"'", "\\", "'", "'">> = t4
    OBVIOUS
  <2>2. t1 \in Seq(Chars) /\ t2 \in Seq(Chars) /\ t3 \in Seq(Chars) /\ t4 \in Seq(Chars)
    OBVIOUS
  <2>3. /\ ShellReads(t1) = ShellStep(ShellReads(text), "'")
        /\ ShellReads(t2) = ShellStep(ShellReads(t1), "\\")
        /\ ShellReads(t3) = ShellStep(ShellReads(t2), "'")
        /\ ShellReads(t4) = ShellStep(ShellReads(t3), "'")
    <3>1. ShellReads(t1) = ShellStep(ShellReads(text), "'")
      BY <1>0
    <3> HIDE DEF t1
    <3>2. ShellReads(t2) = ShellStep(ShellReads(t1), "\\")
      BY <1>0, <2>2
    <3> HIDE DEF t2
    <3>3. ShellReads(t3) = ShellStep(ShellReads(t2), "'")
      BY <1>0, <2>2
    <3> HIDE DEF t3
    <3>4. ShellReads(t4) = ShellStep(ShellReads(t3), "'")
      BY <1>0, <2>2
    <3> QED
      BY <3>1, <3>2, <3>3, <3>4
  <2> HIDE DEF t1, t2, t3, t4
  <2>4. ShellReads(t1) = State("bare", w)
    BY <2>3, ShellSteps
  <2>5. ShellReads(t2) = State("escape", w)
    BY <2>3, <2>4, ShellSteps
  <2>6. ShellReads(t3) = State("bare", Append(w, "'"))
    BY <2>3, <2>5, ShellSteps
  <2>7. ShellReads(t4) = State("quoted", Append(w, "'"))
    BY <2>3, <2>6, ShellSteps
  <2> QED
    BY <1>2, <2>1, <2>2, <2>7 DEF Part
<1> QED
  BY <1>1, <1>2

\* A value comes back from the shell as it was.
LEMMA ExportRead ==
  ASSUME NEW Chars, "'" \in Chars, "\\" \in Chars, NEW v \in Seq(Chars)
  PROVE  ShellReads(Exported(v)) = [mode |-> "bare", word |-> v]
<1> DEFINE n == Len(v)
           open == <<"'">>
           parts == [i \in DOMAIN v |-> Part(v[i])]
<1>1. n \in Nat /\ DOMAIN v = 1..n /\ \A i \in 1..n : v[i] \in Chars
  OBVIOUS
<1>2. \A c \in Chars : Part(c) \in Seq(Chars)
  BY DEF Part
<1>3. Quote(v) = FlattenSeq(parts)
  BY DEF Quote, Part
<1>4. parts \in Seq(Seq(Chars)) /\ Len(parts) = n /\ \A i \in 1..n : parts[i] = Part(v[i])
  BY <1>1, <1>2
<1>5. open \in Seq(Chars) /\ ShellReads(open) = State("quoted", <<>>)
  <2>1. <<>> \in Seq(Chars) /\ open = Append(<<>>, "'") /\ open \in Seq(Chars)
    OBVIOUS
  <2>2. Begun \in ShellStates(Chars)
    BY DEF Begun, State, ShellStates
  <2>3. \A t : ShellReads(t) = FoldLeft(ShellStep, Begun, t)
    BY DEF ShellReads, Begun, State
  <2>4. ShellReads(Append(<<>>, "'")) = ShellStep(ShellReads(<<>>), "'")
    BY <2>1, <2>2, <2>3, ReadOn
  <2>5. ShellReads(<<>>) = Begun
    <3>1. PICK r : Reading(r, Chars, Begun, <<>>) /\ FoldLeft(ShellStep, Begun, <<>>) = r[Len(<<>>)]
      BY <2>1, <2>2, ReadingIs
    <3>2. Len(<<>>) = 0
      OBVIOUS
    <3> QED
      BY <2>3, <3>1, <3>2 DEF Reading
  <2> QED
    BY <2>1, <2>4, <2>5, ShellSteps DEF Begun
<1> HIDE DEF parts, open
\* After the opening quote and the parts of k characters, the word is those characters.
<1>0. \A x, y \in Seq(Chars) : (open \o x) \o y = open \o (x \o y)
  <2>1. open \in Seq(Chars)
    BY <1>5
  <2> HIDE DEF open
  <2> QED
    BY <2>1, ConcatAssociative
<1>6. /\ open \o Quote(v) \in Seq(Chars)
      /\ ShellReads(open \o Quote(v)) = State("quoted", v)
  <2>1. CASE n = 0
    <3>1. v = <<>> /\ parts = <<>>
      BY <1>1, <1>4, <2>1, EmptySeq
    <3>2. Quote(v) = <<>>
      BY <1>3, <3>1 DEF FlattenSeq
    <3>3. open \o Quote(v) = open
      BY <1>5, <3>2, ConcatEmptySeq
    <3> QED
      BY <1>5, <3>1, <3>3
  <2>2. CASE n # 0
    <3>0. parts # <<>>
      BY <1>4, <2>2
    <3>1. PICK f \in [1..Len(parts) -> Seq(Chars)] :
             /\ f[1] = parts[1] /\ FlattenSeq(parts) = f[Len(parts)]
             /\ \A i \in 2..Len(parts) : f[i] = f[i - 1] \o parts[i]
      BY <1>4, <3>0, FlattenIs
    <3> DEFINE w(k) == SubSeq(v, 1, k)
               S == {k \in 0..(n - 1) : /\ open \o f[k + 1] \in Seq(Chars)
                                        /\ ShellReads(open \o f[k + 1]) = State("quoted", w(k + 1))}
    <3>2. ASSUME NEW k \in 1..n
          PROVE  w(k) \in Seq(Chars) /\ w(k) = Append(w(k - 1), v[k]) /\ w(k - 1) \in Seq(Chars)
      <4>1. \A i \in 1..k : v[i] \in Chars
        BY <1>1
      <4>2. \A i \in 1..(k - 1) : v[i] \in Chars
        BY <1>1
      <4>3. w(k) \in Seq(Chars) /\ w(k - 1) \in Seq(Chars)
        BY <1>1, <4>1, <4>2, SubSeqProperties
      <4>4. 1 \in 1..Len(v) /\ k \in 1..Len(v)
        BY <1>1, <2>2
      <4>5. w(k) = w(k - 1) \o <<v[k]>>
        BY <4>4, SubSeqRecursiveSecond
      <4>6. v[k] \in Chars
        BY <1>1
      <4> HIDE DEF w
      <4> QED
        BY <4>3, <4>5, <4>6, AppendIsConcat
    <3>3. w(0) = <<>> /\ w(n) = v
      BY <1>1, SubSeqEmpty, SubSeqFull
    <3> HIDE DEF w
    <3>4. 0 \in S
      <4>1. 1 \in 1..n /\ 1 - 1 = 0 /\ 0 + 1 = 1 /\ 0 \in 0..(n - 1)
        BY <1>1, <2>2
      <4>2. f[1] = Part(v[1]) /\ v[1] \in Chars
        BY <1>1, <1>4, <3>1, <4>1
      <4>3. w(0) \in Seq(Chars) /\ ShellReads(open) = State("quoted", w(0))
        BY <1>5, <3>3, EmptySeq
      <4>4. /\ open \o Part(v[1]) \in Seq(Chars)
            /\ ShellReads(open \o Part(v[1])) = State("quoted", Append(w(0), v[1]))
        BY <1>5, <4>2, <4>3, ReadPart
      <4>5. w(1) = Append(w(0), v[1])
        BY <3>2, <4>1
      <4> QED
        BY <4>1, <4>2, <4>4, <4>5
    <3>5. ASSUME NEW k \in 1..(n - 1), k - 1 \in S PROVE k \in S
      <4>1. k + 1 \in 1..n /\ k + 1 \in 2..Len(parts) /\ (k - 1) + 1 = k /\ (k + 1) - 1 = k
            /\ k \in 1..Len(parts) /\ k \in 0..(n - 1)
        BY <1>1, <1>4
      <4>2. open \o f[k] \in Seq(Chars) /\ ShellReads(open \o f[k]) = State("quoted", w(k))
        BY <3>5, <4>1
      <4>3. f[k + 1] = f[k] \o Part(v[k + 1])
        BY <1>4, <3>1, <4>1
      <4>4. v[k + 1] \in Chars /\ f[k] \in Seq(Chars) /\ Part(v[k + 1]) \in Seq(Chars)
        BY <1>1, <1>2, <3>1, <4>1
      <4>5. (open \o f[k]) \o Part(v[k + 1]) = open \o f[k + 1]
        <5> DEFINE a == f[k]
                   b == Part(v[k + 1])
        <5>1. a \in Seq(Chars) /\ b \in Seq(Chars) /\ f[k + 1] = a \o b
          BY <4>3, <4>4
        <5> HIDE DEF a, b, open
        <5>2. (open \o a) \o b = open \o (a \o b)
          BY <1>0, <5>1, Zenon
        <5> QED
          BY <5>1, <5>2 DEF a, b, open
      <4>6. w(k + 1) = Append(w(k), v[k + 1]) /\ w(k) \in Seq(Chars)
        BY <3>2, <4>1
      <4> DEFINE t == open \o f[k]
      <4>7. /\ t \o Part(v[k + 1]) \in Seq(Chars)
            /\ ShellReads(t \o Part(v[k + 1])) = State("quoted", Append(w(k), v[k + 1]))
        <5>1. t \in Seq(Chars) /\ ShellReads(t) = State("quoted", w(k))
          BY <4>2
        <5> HIDE DEF t
        <5> QED
          BY <4>4, <4>6, <5>1, ReadPart
      <4> QED
        BY <4>1, <4>5, <4>6, <4>7
    <3>6. n - 1 \in S
      <4> HIDE DEF S, n
      <4>1. n - 1 \in Nat
        BY <1>1, <2>2
      <4>2. \A k \in 0..(n - 1) : k \in S
        BY <3>4, <3>5, <4>1, Climb
      <4> QED
        BY <4>1, <4>2
    <3>7. (n - 1) + 1 = n
      BY <1>1
    <3> QED
      BY <1>3, <1>4, <3>1, <3>3, <3>6, <3>7
  <2> QED
    BY <2>1, <2>2
<1> DEFINE t == open \o Quote(v)
<1>7. Exported(v) = Append(t, "'")
  <2>1. Exported(v) = t \o <<"'">>
    BY DEF Exported, open
  <2> QED
    BY <1>6, <2>1, AppendIsConcat
<1>8. ShellReads(Append(t, "'")) = ShellStep(ShellReads(t), "'")
  <2>1. Begun \in ShellStates(Chars)
    BY DEF Begun, State, ShellStates
  <2>2. \A t2 : ShellReads(t2) = FoldLeft(ShellStep, Begun, t2)
    BY DEF ShellReads, Begun, State
  <2> QED
    BY <1>6, <2>1, <2>2, ReadOn
<1> QED
  BY <1>6, <1>7, <1>8, ShellSteps DEF State

\* So no quote and no backslash in the path of a session directory is lost by
\* format_exports, for paths of any length.
THEOREM ExportsKept ==
  ASSUME NEW Chars, NEW values \in SUBSET Seq(Chars)
  PROVE  ExportsRight(values)
<1> DEFINE C == Chars \cup {"'", "\\"}
<1>1. \A v \in values : v \in Seq(C)
  BY SeqMonotonic
<1>2. "'" \in C /\ "\\" \in C
  OBVIOUS
<1> HIDE DEF C
<1> QED
  BY <1>1, <1>2, ExportRead DEF ExportsRight

-----------------------------------------------------------------------------
(* Materialized files *)

\* A node and a target joined by a dash.
LEMMA FileNameIs ==
  ASSUME NEW Chars, "-" \in Chars, NEW n \in Seq(Chars), NEW k \in Seq(Chars)
  PROVE  FileName(n, k) \in Seq(Chars) /\ Joined(FileName(n, k), n, "-", k)
BY JoinedIs DEF FileName

\* The dash after the node is the first one.
LEMMA SameNode ==
  ASSUME NEW Chars, NEW m \in Seq(Chars), NEW n \in Seq(Chars),
         NEW j \in Seq(Chars), NEW k \in Seq(Chars),
         First(m, "-") = 0, First(n, "-") = 0, FileName(m, j) = FileName(n, k)
  PROVE  m = n /\ j = k
<1> DEFINE C == Chars \cup {"-"}
           f == FileName(m, j)
<1>1. m \in Seq(C) /\ n \in Seq(C) /\ j \in Seq(C) /\ k \in Seq(C) /\ "-" \in C
  BY SeqMonotonic
<1> HIDE DEF C
<1>2. f \in Seq(C) /\ Joined(f, m, "-", j) /\ Joined(f, n, "-", k)
  BY <1>1, FileNameIs
<1> HIDE DEF f
<1>3. /\ \A i \in 1..Len(m) : m[i] # "-"
      /\ \A i \in 1..Len(n) : n[i] # "-"
  BY FirstSpec
<1>4. First(f, "-") = Len(m) + 1 /\ First(f, "-") = Len(n) + 1
  BY <1>1, <1>2, <1>3, JoinedAt
<1>5. /\ Before(f, Len(m) + 1) = m /\ After(f, Len(m) + 1) = j
      /\ Before(f, Len(n) + 1) = n /\ After(f, Len(n) + 1) = k
  BY <1>1, <1>2, JoinedSides
<1> QED
  BY <1>4, <1>5

\* Two kube targets never share a file, whatever names a schema has, as long as
\* no node has a dash in its name, and _write_file refuses none of them.
THEOREM FilesApart ==
  ASSUME NEW Chars, NEW names \in SUBSET Seq(Chars)
  PROVE  FilesRight(names)
<1> DEFINE accepted == {n \in names : Identifier(n)}
           nodes == {n \in accepted : First(n, "-") = 0}
<1>1. \A m, n \in nodes, j, k \in accepted : FileName(m, j) = FileName(n, k) => m = n /\ j = k
  BY SameNode
<1>2. ASSUME NEW n \in accepted, NEW k \in accepted
      PROVE  SafeFile(FileName(n, k))
  <2>1. ASSUME NEW t \in accepted, NEW i \in 1..Len(t)
        PROVE  t[i] \notin {"/", "\\", "."}
    <3>1. DOMAIN t = 1..Len(t) /\ Identifier(t)
      OBVIOUS
    <3>2. Digits = {"0", "7"}
      BY DEF Digits, DigitValue
    <3> QED
      BY <3>1, <3>2 DEF Identifier, Lower, Upper
  <2> DEFINE C == Chars \cup {"-"}
  <2>2. n \in Seq(C) /\ k \in Seq(C) /\ Len(n) \in Nat /\ Len(k) \in Nat /\ "-" \in C
    BY SeqMonotonic
  <2> HIDE DEF C
  <2>0. FileName(n, k) \in Seq(C) /\ Joined(FileName(n, k), n, "-", k)
    BY <2>2, FileNameIs
  <2>3. ASSUME NEW i \in 1..(Len(n) + 1 + Len(k))
        PROVE  FileName(n, k)[i] \notin {"/", "\\", "."}
    <3>1. CASE i \in 1..Len(n)
      BY <2>1, <2>2, <3>1, <2>0 DEF Joined
    <3>2. CASE i = Len(n) + 1
      BY <2>2, <3>2, <2>0 DEF Joined
    <3>3. ASSUME NEW l \in 1..Len(k), i = Len(n) + 1 + l
          PROVE  FileName(n, k)[i] \notin {"/", "\\", "."}
      BY <2>1, <2>2, <3>3, <2>0 DEF Joined
    <3>4. i \in 1..Len(n) \/ i = Len(n) + 1 \/ \E l \in 1..Len(k) : i = Len(n) + 1 + l
      <4>1. CASE i > Len(n) + 1
        <5> DEFINE l == i - (Len(n) + 1)
        <5>1. l \in 1..Len(k) /\ i = Len(n) + 1 + l
          BY <2>2, <4>1
        <5> QED
          BY <5>1
      <4>2. CASE i <= Len(n) + 1
        BY <2>2, <4>2
      <4> QED
        BY <2>2, <4>1, <4>2
    <3> QED
      BY <3>1, <3>2, <3>3, <3>4
  <2>4. Len(FileName(n, k)) = Len(n) + 1 + Len(k)
    BY <2>0 DEF Joined
  <2>5. \A i \in DOMAIN FileName(n, k) : FileName(n, k)[i] \notin {"/", "\\", "."}
    BY <2>0, <2>3, <2>4
  <2>6. 1 \in DOMAIN FileName(n, k)
    BY <2>0, <2>2, <2>4
  <2> QED
    BY <2>5, <2>6 DEF SafeFile
<1> QED
  BY <1>1, <1>2 DEF FilesRight
=============================================================================
