---------------------------- MODULE ClientProofs ----------------------------
(***************************************************************************)
(* Theorems about the way from a client to a handler and back, for every   *)
(* text of an id, all base URIs, clients, tags and histories of the        *)
(* registry: encoded ids read back, every path that a client writes is     *)
(* routed to the call that it means and to no other, what the server       *)
(* refers to can be followed, and a success of the client is about what    *)
(* it named.                                                               *)
(***************************************************************************)
EXTENDS Client, TopologyStateProofs, SequenceTheorems, FiniteSetTheorems

(***************************************************************************)
(* Natural numbers.                                                        *)
(***************************************************************************)

\* A set of natural numbers has a least one: of the intervals that end below its
\* members one has no other inside.
LEMMA LeastNumber ==
    ASSUME NEW S \in SUBSET Nat, S # {}
    PROVE  \E m \in S : \A k \in S : m <= k
<1> DEFINE Below(n) == 1 .. n
           T == {Below(n) : n \in S}
<1>1. T \subseteq FiniteSubsetsOf(Nat) /\ T # {}
  <2>1. ASSUME NEW n \in S PROVE Below(n) \in FiniteSubsetsOf(Nat)
    BY FS_Interval DEF FiniteSubsetsOf
  <2>2. QED
    BY <2>1
<1> HIDE DEF T
<1>2. PICK x \in T : \A y \in T : <<y, x>> \notin StrictSubsetOrdering(Nat)
  BY <1>1, FS_StrictSubsetOrderingWellFounded, WFMin
<1>3. PICK m \in S : x = Below(m)
  BY DEF T
<1>4. ASSUME NEW k \in S PROVE m <= k
  <2>1. CASE k < m
    <3>1. Below(k) \in T
      BY DEF T
    <3>2. Below(k) \subseteq Nat /\ Below(m) \subseteq Nat /\ m \in Below(m) /\ m \notin Below(k)
          /\ Below(k) \subseteq Below(m)
      BY <2>1
    <3> HIDE DEF Below
    <3>3. <<Below(k), Below(m)>> \in StrictSubsetOrdering(Nat)
      BY <3>2 DEF StrictSubsetOrdering
    <3>4. QED
      BY <1>2, <1>3, <3>1, <3>3
  <2>2. QED
    BY <2>1
<1>5. QED
  BY <1>4

\* Induction, for sets.
LEMMA NumbersByStep ==
    ASSUME NEW S, 0 \in S, \A n \in Nat : n \in S => n + 1 \in S
    PROVE  Nat \subseteq S
<1> SUFFICES ASSUME Nat \ S # {} PROVE FALSE
  OBVIOUS
<1>1. PICK m \in Nat \ S : \A k \in Nat \ S : m <= k
  BY LeastNumber
<1>2. m - 1 \in Nat /\ m - 1 \in S
  BY <1>1
<1>3. QED
  BY <1>1, <1>2

(***************************************************************************)
(* Flattening, one sequence after the other.                               *)
(***************************************************************************)

Flattens(g, seqs) ==
    \A i \in 1 .. Len(seqs) : g[i] = IF i = 1 THEN seqs[i] ELSE g[i - 1] \o seqs[i]

\* The beginning of such a function, for the first n.
FlattensUpTo(g, seqs, n) ==
    \A i \in 1 .. n : g[i] = IF i = 1 THEN seqs[i] ELSE g[i - 1] \o seqs[i]

\* How much of the joined sequence there is behind each part: one part more.
LEMMA FlattenOneMore ==
    ASSUME NEW X, NEW seqs \in Seq(Seq(X)), NEW n \in Nat, n + 1 <= Len(seqs),
           NEW g \in [1 .. n -> Seq(X)], FlattensUpTo(g, seqs, n)
    PROVE  \E h \in [1 .. n + 1 -> Seq(X)] : FlattensUpTo(h, seqs, n + 1)
<1> DEFINE last == IF n = 0 THEN seqs[1] ELSE g[n] \o seqs[n + 1]
           h == [i \in 1 .. n + 1 |-> IF i = n + 1 THEN last ELSE g[i]]
<1>1. Len(seqs) \in Nat /\ n + 1 \in 1 .. Len(seqs)
  BY LenProperties
<1>2. seqs[n + 1] \in Seq(X)
  BY <1>1, ElementOfSeq
<1>3. last \in Seq(X)
  BY <1>2, ConcatProperties
<1> HIDE DEF last
<1>4. h \in [1 .. n + 1 -> Seq(X)]
  BY <1>3
<1>5. ASSUME NEW i \in 1 .. n + 1
      PROVE  h[i] = IF i = 1 THEN seqs[i] ELSE h[i - 1] \o seqs[i]
  <2>1. CASE i = n + 1
    BY <2>1 DEF last
  <2>2. CASE i # n + 1
    <3>1. i \in 1 .. n /\ (i # 1 => i - 1 \in 1 .. n)
      BY <2>2
    <3>2. h[i] = g[i] /\ (i # 1 => h[i - 1] = g[i - 1])
      BY <2>2, <3>1
    <3>3. QED
      BY <3>1, <3>2 DEF FlattensUpTo
  <2>3. QED
    BY <2>1, <2>2
<1> HIDE DEF h
<1>6. QED
  BY <1>4, <1>5 DEF FlattensUpTo

\* All parts can be joined.
LEMMA FlattenExists ==
    ASSUME NEW X, NEW seqs \in Seq(Seq(X))
    PROVE  \E g \in [1 .. Len(seqs) -> Seq(X)] : Flattens(g, seqs)
<1> DEFINE Holds(n) == n <= Len(seqs) =>
                          \E g \in [1 .. n -> Seq(X)] : FlattensUpTo(g, seqs, n)
           S == {n \in Nat : Holds(n)}
<1>1. Holds(0)
  <2> DEFINE g == [i \in 1 .. 0 |-> <<>>]
  <2>1. g \in [1 .. 0 -> Seq(X)] /\ FlattensUpTo(g, seqs, 0)
    BY DEF FlattensUpTo
  <2> HIDE DEF g
  <2>2. QED
    BY <2>1
<1>2. ASSUME NEW n \in Nat, Holds(n)
      PROVE  Holds(n + 1)
  <2> SUFFICES ASSUME n + 1 <= Len(seqs)
               PROVE  \E h \in [1 .. n + 1 -> Seq(X)] : FlattensUpTo(h, seqs, n + 1)
    OBVIOUS
  <2>1. Len(seqs) \in Nat
    BY LenProperties
  <2>2. PICK g \in [1 .. n -> Seq(X)] : FlattensUpTo(g, seqs, n)
    BY <1>2, <2>1
  <2>3. QED
    BY <2>2, FlattenOneMore
<1> HIDE DEF Holds
<1>3. Nat \subseteq S
  <2>1. 0 \in S /\ \A n \in Nat : n \in S => n + 1 \in S
    BY <1>1, <1>2
  <2> HIDE DEF S
  <2>2. QED
    BY <2>1, NumbersByStep
<1>4. Holds(Len(seqs)) /\ Len(seqs) \in Nat
  BY <1>3, LenProperties
<1>5. QED
  BY <1>4 DEF Holds, Flattens, FlattensUpTo

\* Two functions up to a number.
Agree(f, g, n) == \A m \in 1 .. n : f[m] = g[m]

\* There is one way to join them.
LEMMA FlattenIsUnique ==
    ASSUME NEW seqs, Len(seqs) \in Nat, NEW f, Flattens(f, seqs), NEW g, Flattens(g, seqs)
    PROVE  Agree(f, g, Len(seqs))
<1> DEFINE S == {n \in Nat : n \in 1 .. Len(seqs) => f[n] = g[n]}
<1>1. 0 \in S
  OBVIOUS
<1>2. ASSUME NEW n \in Nat, n \in S
      PROVE  n + 1 \in S
  <2>1. CASE n + 1 \in 1 .. Len(seqs)
    BY <1>2, <2>1 DEF Flattens
  <2>2. QED
    BY <2>1
<1> HIDE DEF S
<1>3. Nat \subseteq S
  BY <1>1, <1>2, NumbersByStep
<1>4. QED
  BY <1>3 DEF S, Agree

\* What flattens a sequence step by step ends in what FlattenSeq makes of it.
LEMMA FlattenIs ==
    ASSUME NEW X, NEW seqs \in Seq(Seq(X)), seqs # <<>>, NEW g, Flattens(g, seqs)
    PROVE  Seqs!FlattenSeq(seqs) = g[Len(seqs)]
<1> DEFINE Steps(f) ==
             f = [i \in 1 .. Len(seqs) |-> IF i = 1 THEN seqs[i] ELSE f[i - 1] \o seqs[i]]
           flatten == CHOOSE f : Steps(f)
<1>1. Len(seqs) \in Nat /\ Len(seqs) # 0
  BY EmptySeq
<1>2. PICK h \in [1 .. Len(seqs) -> Seq(X)] : Flattens(h, seqs)
  BY FlattenExists
<1>3. Steps(h)
  BY <1>2 DEF Flattens
<1> HIDE DEF Steps
<1>4. Steps(flatten)
  BY <1>3
<1>5. Flattens(flatten, seqs)
  BY <1>4 DEF Flattens, Steps
<1>6. Seqs!FlattenSeq(seqs) = flatten[Len(seqs)]
  BY <1>1 DEF Seqs!FlattenSeq, Steps
<1> HIDE DEF flatten
<1>7. Agree(flatten, g, Len(seqs))
  BY <1>1, <1>5, FlattenIsUnique
<1>8. Len(seqs) \in 1 .. Len(seqs)
  BY <1>1
<1>9. QED
  BY <1>6, <1>7, <1>8 DEF Agree

\* A part more at the end is joined at the end.
LEMMA FlattenAppend ==
    ASSUME NEW X, NEW seqs \in Seq(Seq(X)), NEW u \in Seq(X)
    PROVE  /\ Seqs!FlattenSeq(seqs) \in Seq(X)
           /\ Seqs!FlattenSeq(Append(seqs, u)) = Seqs!FlattenSeq(seqs) \o u
<1> SUFFICES ASSUME NEW more, more = Append(seqs, u), NEW n, n = Len(seqs)
             PROVE  /\ Seqs!FlattenSeq(seqs) \in Seq(X)
                    /\ Seqs!FlattenSeq(more) = Seqs!FlattenSeq(seqs) \o u
  OBVIOUS
<1>1. /\ more \in Seq(Seq(X)) /\ more # <<>> /\ n \in Nat /\ Len(more) = n + 1
      /\ more[n + 1] = u
      /\ \A i \in 1 .. n : more[i] = seqs[i]
  BY AppendProperties, LenProperties
<1>2. PICK g \in [1 .. Len(seqs) -> Seq(X)] : Flattens(g, seqs)
  BY FlattenExists
<1>3. PICK h \in [1 .. Len(more) -> Seq(X)] : Flattens(h, more)
  BY <1>1, FlattenExists
<1>4. Seqs!FlattenSeq(more) = h[n + 1]
  BY <1>1, <1>3, FlattenIs
<1>5. CASE n = 0
  <2>1. seqs = <<>>
    BY <1>5, EmptySeq
  <2>2. Seqs!FlattenSeq(seqs) = <<>>
    BY <2>1, EmptySeq DEF Seqs!FlattenSeq
  <2>3. h[1] = u
    BY <1>1, <1>3, <1>5 DEF Flattens
  <2>4. <<>> \in Seq(X) /\ <<>> \o u = u
    BY EmptySeq, ConcatEmptySeq
  <2>5. QED
    BY <1>4, <1>5, <2>2, <2>3, <2>4
<1>6. CASE n # 0
  <2>1. seqs # <<>> /\ n \in 1 .. n
    BY <1>1, <1>6, EmptySeq
  <2>2. Seqs!FlattenSeq(seqs) = g[n]
    BY <1>2, <2>1, FlattenIs
  <2>3. g[n] \in Seq(X)
    BY <1>2, <2>1
  <2>4. Flattens(h, seqs)
    <3>1. ASSUME NEW i \in 1 .. n
          PROVE  h[i] = IF i = 1 THEN seqs[i] ELSE h[i - 1] \o seqs[i]
      <4>1. i \in 1 .. Len(more) /\ more[i] = seqs[i]
        BY <1>1
      <4>2. QED
        BY <1>3, <4>1 DEF Flattens
    <3>2. QED
      BY <3>1 DEF Flattens
  <2>5. h[n] = g[n]
    <3>1. Len(seqs) \in Nat /\ n \in 1 .. Len(seqs)
      BY <1>1, <2>1
    <3>2. Flattens(g, seqs)
      BY <1>2
    <3>3. Agree(h, g, Len(seqs))
      BY <2>4, <3>1, <3>2, FlattenIsUnique
    <3>4. QED
      BY <3>1, <3>3 DEF Agree
  <2>6. h[n + 1] = h[n] \o u
    <3>1. n + 1 \in 1 .. Len(more) /\ n + 1 # 1 /\ (n + 1) - 1 = n
      BY <1>1, <1>6
    <3>2. QED
      BY <1>1, <1>3, <3>1 DEF Flattens
  <2>7. QED
    BY <1>4, <2>2, <2>3, <2>5, <2>6
<1>7. QED
  BY <1>5, <1>6

(***************************************************************************)
(* Percent-encoding.                                                       *)
(***************************************************************************)

\* Strings, these among them: that a literal is in STRING is nothing the provers know.
Symbols ==
    STRING \cup NonAlphanumeric \cup {HexOf[c] : c \in NonAlphanumeric}
    \cup {Plural[k] : k \in Kinds} \cup (UNION {SubRoutes[k] : k \in Kinds})
    \cup {"sovd", "v1", "version-info", "data", "include-schema=true"}

Text == Seq(Symbols)

\* What a path can be made of without being taken apart, and ends with no escape
\* that is not complete.
InOnePiece(text) ==
    /\ \A i \in DOMAIN text : text[i] \notin {"/", "?"}
    /\ text # <<>> => text[Len(text)] # "%"

\* The sets of characters that are encoded have these in common.
EncodeSet(encodeSet) == encodeSet \subseteq NonAlphanumeric /\ {"/", "?", "%"} \subseteq encodeSet

\* The server and the client encode with a set that has the special characters.
LEMMA EncodeSets == EncodeSet(PathSegmentEncodeSet) /\ EncodeSet(NonAlphanumeric)
  BY DEF EncodeSet, PathSegmentEncodeSet, NonAlphanumeric

\* Hex digits are no special characters and stand for one character.
LEMMA HexDigits ==
    /\ NonAlphanumeric \subseteq Symbols
    /\ \A c \in NonAlphanumeric : /\ HexOf[c] \in Symbols \ {"/", "?", "%"}
                                  /\ Character(HexOf[c]) = c
<1>1. ASSUME NEW c \in NonAlphanumeric
      PROVE  HexOf[c] \notin {"/", "?", "%"}
  BY DEF HexOf, NonAlphanumeric, PathSegmentEncodeSet
<1>2. \A c, d \in NonAlphanumeric : HexOf[c] = HexOf[d] => c = d
  <2> DEFINE sign(hex) == CASE hex = "2F" -> "/" [] hex = "25" -> "%" [] hex = "3F" -> "?"
                            [] hex = "23" -> "#" [] hex = "3A" -> ":" [] hex = "20" -> " "
                            [] hex = "2E" -> "." [] hex = "2D" -> "-"
  <2>1. ASSUME NEW c \in NonAlphanumeric
        PROVE  sign(HexOf[c]) = c
    BY DEF HexOf, NonAlphanumeric, PathSegmentEncodeSet
  <2> HIDE DEF sign
  <2>2. ASSUME NEW c \in NonAlphanumeric, NEW d \in NonAlphanumeric, HexOf[c] = HexOf[d]
        PROVE  c = d
    <3>1. sign(HexOf[c]) = c /\ sign(HexOf[d]) = d
      BY <2>1
    <3>2. sign(HexOf[c]) = sign(HexOf[d])
      BY <2>2
    <3>3. QED
      BY <3>1, <3>2
  <2>3. QED
    BY <2>2, Zenon
<1>3. \A c \in NonAlphanumeric : Character(HexOf[c]) = c
  BY <1>2 DEF Character
<1>4. QED
  BY <1>1, <1>3 DEF Symbols

\* What is written for a symbol is a text.
LEMMA EncodeSymbolIsText ==
    ASSUME NEW encodeSet, EncodeSet(encodeSet), NEW x \in Symbols
    PROVE  EncodeSymbol(x, encodeSet) \in Text
  BY HexDigits DEF EncodeSymbol, Text, EncodeSet

\* A sequence of texts that begins with another one and has one text more.
LEMMA FlattenLonger ==
    ASSUME NEW n \in Nat,
           NEW shorter \in [1 .. n -> Text], NEW longer \in [1 .. n + 1 -> Text],
           \A i \in 1 .. n : longer[i] = shorter[i]
    PROVE  /\ Seqs!FlattenSeq(shorter) \in Text
           /\ Seqs!FlattenSeq(longer) = Seqs!FlattenSeq(shorter) \o longer[n + 1]
<1>1. n + 1 \in 1 .. n + 1
  OBVIOUS
<1>2. shorter \in Seq(Text) /\ Len(shorter) = n
  OBVIOUS
<1>3. longer \in Seq(Text) /\ Len(longer) = n + 1 /\ longer[n + 1] \in Text
  BY <1>1
<1>4. Append(shorter, longer[n + 1]) \in Seq(Text)
      /\ Len(Append(shorter, longer[n + 1])) = n + 1
      /\ (\A i \in 1 .. n : Append(shorter, longer[n + 1])[i] = shorter[i])
      /\ Append(shorter, longer[n + 1])[n + 1] = longer[n + 1]
  BY <1>2, <1>3, AppendProperties
<1>5. longer = Append(shorter, longer[n + 1])
  <2>1. \A i \in 1 .. n + 1 : longer[i] = Append(shorter, longer[n + 1])[i]
    BY <1>4
  <2>2. QED
    BY <1>3, <1>4, <2>1, SeqEqual
<1>6. QED
  BY <1>2, <1>3, <1>5, FlattenAppend DEF Text

\* A symbol more is encoded behind what there is.
LEMMA EncodeAppend ==
    ASSUME NEW encodeSet, EncodeSet(encodeSet), NEW text \in Text, NEW x \in Symbols
    PROVE  /\ Encode(text, encodeSet) \in Text
           /\ Encode(Append(text, x), encodeSet)
                 = Encode(text, encodeSet) \o EncodeSymbol(x, encodeSet)
<1> DEFINE n == Len(text)
           more == Append(text, x)
           p == [i \in DOMAIN text |-> EncodeSymbol(text[i], encodeSet)]
           q == [i \in DOMAIN more |-> EncodeSymbol(more[i], encodeSet)]
<1>1. n \in Nat /\ DOMAIN text = 1 .. n /\ \A i \in 1 .. n : text[i] \in Symbols
  BY LenProperties, ElementOfSeq DEF Text
<1>2. /\ more \in Text /\ Len(more) = n + 1 /\ more[n + 1] = x
      /\ \A i \in 1 .. n : more[i] = text[i]
  BY AppendProperties DEF Text
<1> HIDE DEF n, more
<1>3. DOMAIN more = 1 .. n + 1 /\ \A i \in 1 .. n + 1 : more[i] \in Symbols
  BY <1>2, LenProperties, ElementOfSeq DEF Text
<1>4. p \in [1 .. n -> Text] /\ q \in [1 .. n + 1 -> Text]
  BY <1>1, <1>3, EncodeSymbolIsText
<1>5. \A i \in 1 .. n : q[i] = p[i]
  BY <1>1, <1>2, <1>3
<1>6. q[n + 1] = EncodeSymbol(x, encodeSet)
  BY <1>1, <1>2, <1>3
<1>7. Encode(text, encodeSet) = Seqs!FlattenSeq(p)
  BY DEF Encode
<1>8. Encode(more, encodeSet) = Seqs!FlattenSeq(q)
  BY DEF Encode
<1> HIDE DEF p, q
<1>9. Seqs!FlattenSeq(p) \in Text /\ Seqs!FlattenSeq(q) = Seqs!FlattenSeq(p) \o q[n + 1]
  BY <1>1, <1>4, <1>5, FlattenLonger
<1>10. QED
  BY <1>6, <1>7, <1>8, <1>9 DEF more

\* The empty text stays empty.
LEMMA EmptyTexts ==
    /\ <<>> \in Text /\ Len(<<>>) = 0 /\ DOMAIN <<>> = {}
    /\ \A encodeSet : Encode(<<>>, encodeSet) = <<>>
    /\ Decode(<<>>) = <<>>
<1>1. <<>> \in Text /\ Len(<<>>) = 0 /\ DOMAIN <<>> = {}
  BY EmptySeq DEF Text
<1>2. Seqs!FlattenSeq(<<>>) = <<>>
  BY <1>1 DEF Seqs!FlattenSeq
<1>3. ASSUME NEW p, p \in [1 .. 0 -> Text]
      PROVE  p = <<>>
  <2>1. p \in Seq(Text) /\ Len(p) = 0
    BY <1>3
  <2>2. QED
    BY <2>1, EmptySeq
<1>4. ASSUME NEW encodeSet PROVE Encode(<<>>, encodeSet) = <<>>
  <2> SUFFICES ASSUME NEW p, p = [i \in DOMAIN <<>> |-> EncodeSymbol(<<>>[i], encodeSet)]
               PROVE  Seqs!FlattenSeq(p) = <<>>
    BY DEF Encode
  <2>1. p = <<>>
    BY <1>1, <1>3
  <2>2. QED
    BY <1>2, <2>1
<1>5. Decode(<<>>) = <<>>
  <2> SUFFICES ASSUME NEW p, p = [i \in DOMAIN <<>> |-> DecodeSymbol(<<>>, i)]
               PROVE  Seqs!FlattenSeq(p) = <<>>
    BY DEF Decode
  <2>1. p = <<>>
    BY <1>1, <1>3
  <2>2. QED
    BY <1>2, <2>1
<1>6. QED
  BY <1>1, <1>4, <1>5

\* No escape is begun at the end.
Complete(text) == text # <<>> => text[Len(text)] # "%"

\* What is read for a symbol is a text.
LEMMA DecodeSymbolIsText ==
    ASSUME NEW text \in Text, NEW i \in 1 .. Len(text)
    PROVE  DecodeSymbol(text, i) \in Text
<1>1. text[i] \in Symbols
  BY ElementOfSeq DEF Text
<1>2. CASE i > 1 /\ Escapes(text, i - 1)
  <2>1. PICK c \in NonAlphanumeric : HexOf[c] = text[i]
    <3>1. (i - 1) + 1 = i
      OBVIOUS
    <3>2. QED
      BY <1>2, <3>1 DEF Escapes
  <2>2. Character(text[i]) \in Symbols
    BY <2>1, HexDigits
  <2>3. QED
    BY <1>1, <2>2 DEF DecodeSymbol, Text
<1>3. CASE ~(i > 1 /\ Escapes(text, i - 1))
  BY <1>1, <1>3 DEF DecodeSymbol, Text
<1>4. QED
  BY <1>2, <1>3

\* A text with a symbol more.
LEMMA AppendFacts ==
    ASSUME NEW text \in Text, NEW x \in Symbols
    PROVE  /\ Len(text) \in Nat /\ DOMAIN text = 1 .. Len(text)
           /\ Append(text, x) \in Text /\ Len(Append(text, x)) = Len(text) + 1
           /\ DOMAIN Append(text, x) = 1 .. Len(text) + 1
           /\ Append(text, x)[Len(text) + 1] = x
           /\ \A i \in 1 .. Len(text) : Append(text, x)[i] = text[i]
           /\ text \o <<x>> = Append(text, x)
<1>1. Len(text) \in Nat /\ DOMAIN text = 1 .. Len(text)
  BY LenProperties DEF Text
<1>2. /\ Append(text, x) \in Text /\ Len(Append(text, x)) = Len(text) + 1
      /\ Append(text, x)[Len(text) + 1] = x
      /\ \A i \in 1 .. Len(text) : Append(text, x)[i] = text[i]
  BY AppendProperties DEF Text
<1>3. DOMAIN Append(text, x) = 1 .. Len(text) + 1
  BY <1>2, LenProperties DEF Text
<1>4. text \o <<x>> = Append(text, x)
  BY AppendIsConcat DEF Text
<1>5. QED
  BY <1>1, <1>2, <1>3, <1>4

\* What is put behind a complete text changes nothing of how that is read.
LEMMA DecodeAhead ==
    ASSUME NEW text \in Text, Complete(text), NEW longer \in Text, Len(longer) > Len(text),
           \A i \in 1 .. Len(text) : longer[i] = text[i],
           NEW j \in 1 .. Len(text)
    PROVE  /\ DecodeSymbol(longer, j) = DecodeSymbol(text, j)
           /\ ~Escapes(longer, Len(text))
<1>1. Len(text) \in Nat /\ Len(longer) \in Nat
  BY LenProperties DEF Text
<1>2. text # <<>>
  BY <1>1, EmptyTexts
<1>3. \A i \in 1 .. Len(text) : Escapes(longer, i) = Escapes(text, i)
  <2> SUFFICES ASSUME NEW i \in 1 .. Len(text)
               PROVE  Escapes(longer, i) = Escapes(text, i)
    OBVIOUS
  <2>1. CASE i = Len(text)
    BY <1>1, <1>2, <2>1 DEF Escapes, Complete
  <2>2. CASE i < Len(text)
    <3>1. longer[i + 1] = text[i + 1] /\ longer[i] = text[i] /\ i < Len(longer)
      BY <1>1, <2>2
    <3>2. QED
      BY <2>2, <3>1 DEF Escapes
  <2>3. QED
    BY <1>1, <2>1, <2>2
<1>4. ~Escapes(text, Len(text))
  BY <1>1 DEF Escapes
<1>5. j > 1 => j - 1 \in 1 .. Len(text)
  BY <1>1
<1>6. QED
  BY <1>1, <1>3, <1>4, <1>5 DEF DecodeSymbol

\* A symbol behind a text without half an escape is read as itself.
LEMMA DecodeAppend ==
    ASSUME NEW text \in Text, Complete(text), NEW x \in Symbols
    PROVE  Decode(text) \in Text /\ Decode(Append(text, x)) = Append(Decode(text), x)
<1> DEFINE n == Len(text)
           more == Append(text, x)
           p == [i \in DOMAIN text |-> DecodeSymbol(text, i)]
           q == [i \in DOMAIN more |-> DecodeSymbol(more, i)]
<1>1. n \in Nat /\ DOMAIN text = 1 .. n
  BY AppendFacts
<1>2. /\ more \in Text /\ Len(more) = n + 1 /\ DOMAIN more = 1 .. n + 1 /\ more[n + 1] = x
      /\ \A i \in 1 .. n : more[i] = text[i]
  BY AppendFacts
<1> HIDE DEF more
<1>3. p \in [1 .. n -> Text] /\ q \in [1 .. n + 1 -> Text]
  BY <1>1, <1>2, DecodeSymbolIsText
<1>4. \A i \in 1 .. n : q[i] = p[i]
  <2> SUFFICES ASSUME NEW i \in 1 .. n PROVE DecodeSymbol(more, i) = DecodeSymbol(text, i)
    BY <1>1, <1>2
  <2>1. QED
    BY <1>1, <1>2, DecodeAhead
<1>5. q[n + 1] = <<x>>
  <2>1. ~Escapes(more, n + 1)
    BY <1>1, <1>2 DEF Escapes
  <2>2. n + 1 > 1 => ~Escapes(more, (n + 1) - 1)
    <3> SUFFICES ASSUME n + 1 > 1 PROVE ~Escapes(more, n)
      BY <1>1
    <3>1. n \in 1 .. n
      BY <1>1
    <3>2. QED
      BY <1>1, <1>2, <3>1, DecodeAhead
  <2>3. DecodeSymbol(more, n + 1) = <<x>>
    BY <1>2, <2>1, <2>2 DEF DecodeSymbol
  <2>4. QED
    BY <1>1, <1>2, <2>3
<1>6. Decode(text) = Seqs!FlattenSeq(p)
  BY DEF Decode
<1>7. Decode(more) = Seqs!FlattenSeq(q)
  BY DEF Decode
<1> HIDE DEF p, q, n
<1>8. Seqs!FlattenSeq(p) \in Text /\ Seqs!FlattenSeq(q) = Seqs!FlattenSeq(p) \o q[n + 1]
  BY <1>1, <1>3, <1>4, FlattenLonger
<1>9. QED
  BY <1>5, <1>6, <1>7, <1>8, AppendFacts DEF more

\* A text with two symbols more.
LEMMA AppendTwo ==
    ASSUME NEW text \in Text, NEW x \in Symbols, NEW y \in Symbols,
           NEW most, most = text \o <<x, y>>
    PROVE  /\ most \in Text /\ Len(most) = Len(text) + 2 /\ Len(text) \in Nat
           /\ most[Len(text) + 1] = x /\ most[Len(text) + 2] = y
           /\ \A i \in 1 .. Len(text) : most[i] = text[i]
           /\ Append(Append(text, x), y) = most
<1> DEFINE n == Len(text)
           pair == <<x, y>>
           more == Append(text, x)
           again == Append(more, y)
<1>1. text \in Seq(Symbols) /\ n \in Nat
  BY LenProperties DEF Text
<1>2. pair \in Seq(Symbols) /\ Len(pair) = 2 /\ pair[1] = x /\ pair[2] = y
  OBVIOUS
<1>3. more \in Text /\ Len(more) = n + 1 /\ more[n + 1] = x
      /\ \A i \in 1 .. n : more[i] = text[i]
  BY AppendFacts
<1>0. most = text \o pair
  OBVIOUS
<1> HIDE DEF pair, more
<1>4. /\ most \in Seq(Symbols) /\ Len(most) = n + Len(pair)
      /\ \A i \in 1 .. n + Len(pair) :
            most[i] = IF i <= n THEN text[i] ELSE pair[i - n]
  BY <1>0, <1>1, <1>2, ConcatProperties
<1> HIDE DEF n
<1>5. /\ Len(most) = n + 2 /\ most[n + 1] = x /\ most[n + 2] = y
      /\ \A i \in 1 .. n : most[i] = text[i]
  <2>1. n + 1 \in 1 .. n + Len(pair) /\ n + 2 \in 1 .. n + Len(pair)
        /\ (n + 1) - n = 1 /\ (n + 2) - n = 2 /\ ~(n + 1 <= n) /\ ~(n + 2 <= n)
    BY <1>1, <1>2
  <2>2. most[n + 1] = x /\ most[n + 2] = y
    BY <1>2, <1>4, <2>1
  <2>3. \A i \in 1 .. n : i \in 1 .. n + Len(pair) /\ i <= n
    BY <1>1, <1>2
  <2>4. QED
    BY <1>2, <1>4, <2>2, <2>3
<1>6. /\ again \in Text /\ Len(again) = Len(more) + 1 /\ again[Len(more) + 1] = y
      /\ \A i \in 1 .. Len(more) : again[i] = more[i]
  BY <1>3, AppendFacts
<1> HIDE DEF again
<1>7. again = most
  <2>1. (n + 1) + 1 = n + 2
    BY <1>1
  <2>2. again \in Seq(Symbols) /\ Len(again) = n + 2
    BY <1>3, <1>6, <2>1 DEF Text
  <2>3. ASSUME NEW i \in 1 .. n + 2 PROVE again[i] = most[i]
    <3>1. i \in 1 .. n \/ i = n + 1 \/ i = n + 2
      BY <1>1
    <3>2. i \in 1 .. n => i \in 1 .. Len(more)
      BY <1>1, <1>3
    <3>3. CASE i \in 1 .. n
      BY <1>3, <1>5, <1>6, <3>2, <3>3
    <3>4. CASE i = n + 1
      <4>1. n + 1 \in 1 .. Len(more)
        BY <1>1, <1>3
      <4>2. QED
        BY <1>3, <1>5, <1>6, <3>4, <4>1
    <3>5. CASE i = n + 2
      BY <1>3, <1>5, <1>6, <2>1, <3>5
    <3>6. QED
      BY <3>1, <3>3, <3>4, <3>5
  <2>4. QED
    BY <1>4, <1>5, <2>2, <2>3, SeqEqual
<1>8. QED
  BY <1>1, <1>4, <1>5, <1>7 DEF again, more, n, Text

\* An escape behind a text without half an escape is read as its character.
LEMMA DecodeEscape ==
    ASSUME NEW text \in Text, Complete(text), NEW c \in NonAlphanumeric
    PROVE  Decode(Append(Append(text, "%"), HexOf[c])) = Append(Decode(text), c)
<1> DEFINE n == Len(text)
           more == Append(text, "%")
           most == Append(more, HexOf[c])
           p == [i \in DOMAIN text |-> DecodeSymbol(text, i)]
           q == [i \in 1 .. n + 1 |-> DecodeSymbol(most, i)]
           r == [i \in DOMAIN most |-> DecodeSymbol(most, i)]
<1>1. n \in Nat /\ DOMAIN text = 1 .. n
  BY AppendFacts
<1>2. "%" \in Symbols /\ HexOf[c] \in Symbols
  BY HexDigits DEF Symbols, NonAlphanumeric, PathSegmentEncodeSet
<1>3. /\ more \in Text /\ Len(more) = n + 1 /\ more[n + 1] = "%"
      /\ \A i \in 1 .. n : more[i] = text[i]
  BY <1>2, AppendFacts
<1>4. /\ most \in Text /\ Len(most) = n + 2 /\ DOMAIN most = 1 .. n + 2
      /\ most[n + 2] = HexOf[c]
      /\ \A i \in 1 .. n + 1 : most[i] = more[i]
  <2> HIDE DEF more
  <2>1. /\ most \in Text /\ Len(most) = Len(more) + 1 /\ DOMAIN most = 1 .. Len(more) + 1
        /\ most[Len(more) + 1] = HexOf[c]
        /\ \A i \in 1 .. Len(more) : most[i] = more[i]
    BY <1>2, <1>3, AppendFacts
  <2>2. (n + 1) + 1 = n + 2
    BY <1>1
  <2> HIDE DEF most, n
  <2>3. QED
    BY <1>3, <2>1, <2>2
<1> HIDE DEF more, most
<1>5. most[n + 1] = "%" /\ \A i \in 1 .. n : most[i] = text[i]
  BY <1>1, <1>3, <1>4
<1>6. p \in [1 .. n -> Text]
  BY <1>1, DecodeSymbolIsText
<1>7. q \in [1 .. n + 1 -> Text] /\ r \in [1 .. n + 2 -> Text]
  BY <1>1, <1>4, DecodeSymbolIsText
<1>8. \A i \in 1 .. n : q[i] = p[i]
  <2> SUFFICES ASSUME NEW i \in 1 .. n PROVE DecodeSymbol(most, i) = DecodeSymbol(text, i)
    BY <1>1
  <2>1. QED
    BY <1>1, <1>4, <1>5, DecodeAhead
<1>9. \A i \in 1 .. n + 1 : r[i] = q[i]
  BY <1>1, <1>4
<1>10. Escapes(most, n + 1)
  <2>1. (n + 1) + 1 = n + 2 /\ n + 1 < n + 2
    BY <1>1
  <2>2. QED
    BY <1>4, <1>5, <2>1 DEF Escapes
<1>11. q[n + 1] = <<>>
  BY <1>1, <1>10 DEF DecodeSymbol
<1>12. r[n + 2] = <<c>>
  <2>1. ~Escapes(most, n + 2) /\ n + 2 > 1 /\ (n + 2) - 1 = n + 1
    BY <1>1, <1>4 DEF Escapes
  <2>2. DecodeSymbol(most, n + 2) = <<Character(HexOf[c])>>
    BY <1>4, <1>10, <2>1 DEF DecodeSymbol
  <2>3. DecodeSymbol(most, n + 2) = <<c>>
    BY <2>2, HexDigits
  <2>4. QED
    BY <1>1, <1>4, <2>3
<1>13. Decode(text) = Seqs!FlattenSeq(p)
  BY DEF Decode
<1>14. Decode(most) = Seqs!FlattenSeq(r)
  BY DEF Decode
<1> HIDE DEF p, q, r, n
<1>15. Seqs!FlattenSeq(p) \in Text /\ Seqs!FlattenSeq(q) = Seqs!FlattenSeq(p) \o q[n + 1]
  BY <1>1, <1>6, <1>7, <1>8, FlattenLonger
<1>16. Seqs!FlattenSeq(r) = Seqs!FlattenSeq(q) \o r[n + 2]
  <2>1. n + 1 \in Nat /\ (n + 1) + 1 = n + 2
    BY <1>1
  <2>2. q \in [1 .. n + 1 -> Text] /\ r \in [1 .. (n + 1) + 1 -> Text]
    BY <1>7, <2>1
  <2>3. Seqs!FlattenSeq(r) = Seqs!FlattenSeq(q) \o r[(n + 1) + 1]
    BY <1>9, <2>1, <2>2, FlattenLonger
  <2>4. QED
    BY <2>1, <2>3
<1>17. Seqs!FlattenSeq(q) = Seqs!FlattenSeq(p)
  BY <1>11, <1>15, ConcatEmptySeq DEF Text
<1>18. Decode(most) = Decode(text) \o <<c>>
  BY <1>12, <1>13, <1>14, <1>16, <1>17
<1>19. Decode(text) \in Text
  BY <1>13, <1>15
<1>20. QED
  BY <1>18, <1>19, HexDigits, AppendFacts DEF more, most

(***************************************************************************)
(* What is encoded is in one piece and is decoded again.                   *)
(***************************************************************************)

ReadsBack(text, encodeSet) ==
    /\ Encode(text, encodeSet) \in Text
    /\ InOnePiece(Encode(text, encodeSet))
    /\ Decode(Encode(text, encodeSet)) = text
    /\ text # <<>> => Encode(text, encodeSet) # <<>>

\* What is written for a symbol keeps a text in one piece, and reads as that symbol.
LEMMA PieceGrows ==
    ASSUME NEW encodeSet, EncodeSet(encodeSet), NEW x \in Symbols,
           NEW E \in Text, InOnePiece(E), NEW F, F = E \o EncodeSymbol(x, encodeSet)
    PROVE  F \in Text /\ InOnePiece(F) /\ F # <<>> /\ Decode(F) = Append(Decode(E), x)
<1>1. Complete(E)
  BY DEF InOnePiece, Complete
<1>2. CASE x \notin encodeSet
  <2>1. F = Append(E, x)
    BY <1>2, AppendFacts DEF EncodeSymbol
  <2>2. x \notin {"/", "?", "%"}
    BY <1>2 DEF EncodeSet
  <2>3. InOnePiece(F) /\ F \in Text /\ F # <<>>
    BY <2>1, <2>2, AppendFacts, EmptyTexts DEF InOnePiece
  <2>4. QED
    BY <1>1, <2>1, <2>3, DecodeAppend
<1>3. CASE x \in encodeSet
  <2>1. x \in NonAlphanumeric /\ "%" \in Symbols /\ HexOf[x] \in Symbols
        /\ HexOf[x] \notin {"/", "?", "%"}
    BY <1>3, HexDigits DEF EncodeSet, Symbols, NonAlphanumeric, PathSegmentEncodeSet
  <2>2. F = E \o <<"%", HexOf[x]>>
    BY <1>3 DEF EncodeSymbol
  <2>3. E \in Text /\ Len(E) \in Nat
    BY AppendFacts
  <2>4. /\ F \in Text /\ Len(F) = Len(E) + 2
        /\ F[Len(E) + 1] = "%" /\ F[Len(E) + 2] = HexOf[x]
        /\ \A i \in 1 .. Len(E) : F[i] = E[i]
        /\ Append(Append(E, "%"), HexOf[x]) = F
    <3> DEFINE hex == HexOf[x]
    <3>1. "%" \in Symbols /\ hex \in Symbols /\ F = E \o <<"%", hex>>
      BY <2>1, <2>2
    <3> HIDE DEF hex
    <3>3. Len(F) = Len(E) + 2
      BY <3>1, AppendTwo
    <3>4. F[Len(E) + 1] = "%"
      BY <3>1, AppendTwo
    <3>5. F[Len(E) + 2] = hex
      BY <3>1, AppendTwo
    <3>6. \A i \in 1 .. Len(E) : F[i] = E[i]
      BY <3>1, AppendTwo
    <3>7. Append(Append(E, "%"), hex) = F
      BY <3>1, AppendTwo
    <3>8. F \in Text
      BY <3>1, <3>7, AppendFacts
    <3>9. QED
      BY <3>8, <3>3, <3>4, <3>5, <3>6, <3>7 DEF hex
  <2>5. InOnePiece(F) /\ F # <<>>
    <3>1. Len(F) # 0 /\ F[Len(F)] # "%"
      BY <2>1, <2>3, <2>4
    <3>2. DOMAIN F = 1 .. Len(E) + 2 /\ DOMAIN E = 1 .. Len(E)
      <4>1. \A text \in Text : DOMAIN text = 1 .. Len(text)
        BY LenProperties DEF Text
      <4>2. QED
        BY <2>3, <2>4, <4>1
    <3>3. ASSUME NEW i \in 1 .. Len(E) + 2
          PROVE  F[i] \notin {"/", "?"}
      <4>1. i \in 1 .. Len(E) \/ i = Len(E) + 1 \/ i = Len(E) + 2
        BY <2>3
      <4>2. CASE i \in 1 .. Len(E)
        BY <2>4, <3>2, <4>2 DEF InOnePiece
      <4>3. QED
        BY <2>1, <2>4, <4>1, <4>2
    <3>4. QED
      <4>1. DOMAIN F = 1 .. Len(E) + 2 /\ F # <<>>
        BY <3>1, <3>2, EmptyTexts
      <4>2. QED
        BY <3>1, <3>3, <4>1 DEF InOnePiece
  <2>6. QED
    BY <1>1, <2>1, <2>4, <2>5, DecodeEscape
<1>4. QED
  BY <1>2, <1>3

\* The step of the induction over the length of the text.
LEMMA OneMoreSymbol ==
    ASSUME NEW encodeSet, EncodeSet(encodeSet), NEW text \in Text, NEW x \in Symbols,
           ReadsBack(text, encodeSet)
    PROVE  ReadsBack(Append(text, x), encodeSet)
  BY EncodeAppend, PieceGrows DEF ReadsBack

\* Every encoded text is in one piece and reads back as the text: the round trip of ids.
LEMMA EncodedTextsReadBack ==
    ASSUME NEW encodeSet, EncodeSet(encodeSet), NEW text \in Text
    PROVE  ReadsBack(text, encodeSet)
<1> DEFINE S == {n \in Nat : \A t \in Text : Len(t) = n => ReadsBack(t, encodeSet)}
<1>1. 0 \in S
  <2> SUFFICES ASSUME NEW t \in Text, Len(t) = 0 PROVE ReadsBack(t, encodeSet)
    OBVIOUS
  <2>1. t = <<>>
    BY EmptySeq DEF Text
  <2>2. QED
    BY <2>1, EmptyTexts DEF ReadsBack, InOnePiece
<1>2. ASSUME NEW n \in Nat, n \in S
      PROVE  n + 1 \in S
  <2> SUFFICES ASSUME NEW t \in Text, Len(t) = n + 1 PROVE ReadsBack(t, encodeSet)
    OBVIOUS
  <2>1. t # <<>>
    BY EmptyTexts
  <2>2. PICK s \in Text, x \in Symbols : t = Append(s, x)
    BY <2>1, SequenceEmptyOrAppend DEF Text
  <2>3. Len(s) = n
    BY <2>2, AppendFacts
  <2>4. QED
    BY <1>2, <2>2, <2>3, OneMoreSymbol
<1> HIDE DEF S
<1>3. Nat \subseteq S
  BY <1>1, <1>2, NumbersByStep
<1>4. Len(text) \in S
  BY <1>3, AppendFacts, LenProperties DEF Text
<1>5. QED
  BY <1>4 DEF S

(***************************************************************************)
(* Positions.                                                              *)
(***************************************************************************)

\* Two texts joined.
LEMMA TextConcat ==
    ASSUME NEW s \in Text, NEW t \in Text
    PROVE  /\ s \o t \in Text /\ Len(s \o t) = Len(s) + Len(t)
           /\ Len(s) \in Nat /\ Len(t) \in Nat
           /\ \A i \in 1 .. Len(s) : (s \o t)[i] = s[i]
           /\ \A i \in 1 .. Len(t) : (s \o t)[Len(s) + i] = t[i]
<1>1. Len(s) \in Nat /\ Len(t) \in Nat
  BY LenProperties DEF Text
<1>2. /\ s \o t \in Text /\ Len(s \o t) = Len(s) + Len(t)
      /\ \A i \in 1 .. Len(s) + Len(t) : (s \o t)[i] = IF i <= Len(s) THEN s[i] ELSE t[i - Len(s)]
  BY ConcatProperties DEF Text
<1>3. ASSUME NEW i \in 1 .. Len(s)
      PROVE  (s \o t)[i] = s[i]
  <2>1. i \in 1 .. Len(s) + Len(t) /\ i <= Len(s)
    BY <1>1
  <2>2. QED
    BY <1>2, <2>1
<1>4. ASSUME NEW i \in 1 .. Len(t)
      PROVE  (s \o t)[Len(s) + i] = t[i]
  <2>1. Len(s) + i \in 1 .. Len(s) + Len(t) /\ ~(Len(s) + i <= Len(s)) /\ (Len(s) + i) - Len(s) = i
    BY <1>1
  <2>2. QED
    BY <1>2, <2>1
<1>5. QED
  BY <1>1, <1>2, <1>3, <1>4

\* Texts with the same symbols are the same.
LEMMA TextEqual ==
    ASSUME NEW s \in Text, NEW t \in Text, Len(s) = Len(t), \A i \in 1 .. Len(s) : s[i] = t[i]
    PROVE  s = t
  BY SeqEqual DEF Text

\* Texts have a length and symbols.
LEMMA TextSymbols ==
    ASSUME NEW s \in Text
    PROVE  Len(s) \in Nat /\ DOMAIN s = 1 .. Len(s) /\ \A i \in 1 .. Len(s) : s[i] \in Symbols
  BY LenProperties, ElementOfSeq DEF Text

Avoids(text, x) == \A i \in 1 .. Len(text) : text[i] # x

\* Two segments that end at the same position of a path are the same.
LEMMA SameSegment ==
    ASSUME NEW path \in Text, NEW last \in 1 .. Len(path), NEW e \in Text, NEW f \in Text,
           Avoids(e, "/"), Avoids(f, "/"),
           Len(e) < last, path[last - Len(e)] = "/",
           \A i \in 1 .. Len(e) : path[last - Len(e) + i] = e[i],
           Len(f) < last, path[last - Len(f)] = "/",
           \A i \in 1 .. Len(f) : path[last - Len(f) + i] = f[i]
    PROVE  e = f
<1>1. Len(e) \in Nat /\ Len(f) \in Nat /\ last \in Nat
  BY TextSymbols
<1>2. ~(Len(e) < Len(f))
  <2> SUFFICES ASSUME Len(e) < Len(f) PROVE FALSE
    OBVIOUS
  <2>1. Len(f) - Len(e) \in 1 .. Len(f) /\ last - Len(f) + (Len(f) - Len(e)) = last - Len(e)
    BY <1>1
  <2>2. QED
    BY <2>1 DEF Avoids
<1>3. ~(Len(f) < Len(e))
  <2> SUFFICES ASSUME Len(f) < Len(e) PROVE FALSE
    OBVIOUS
  <2>1. Len(e) - Len(f) \in 1 .. Len(e) /\ last - Len(e) + (Len(e) - Len(f)) = last - Len(f)
    BY <1>1
  <2>2. QED
    BY <2>1 DEF Avoids
<1>4. Len(e) = Len(f)
  BY <1>1, <1>2, <1>3
<1>5. QED
  BY <1>4, TextEqual

(***************************************************************************)
(* The path of a URI.                                                      *)
(***************************************************************************)

\* Where the query of a URI begins.
LEMMA FirstQuestionMark ==
    ASSUME NEW uri \in Text
    PROVE  /\ Avoids(uri, "?") => Seqs!SelectInSeq(uri, LAMBDA x : x = "?") = 0
           /\ \A q \in 1 .. Len(uri) :
                 uri[q] = "?" /\ (\A i \in 1 .. q - 1 : uri[i] # "?") =>
                    Seqs!SelectInSeq(uri, LAMBDA x : x = "?") = q
<1> DEFINE I == {i \in 1 .. Len(uri) : uri[i] = "?"}
           query == Seqs!SelectInSeq(uri, LAMBDA x : x = "?")
<1>1. query = IF I # {} THEN CHOOSE i \in I : \A j \in I : i <= j ELSE 0
  BY DEF Seqs!SelectInSeq, Seqs!Min
<1>2. Len(uri) \in Nat
  BY TextSymbols
<1> HIDE DEF query
<1>3. CASE Avoids(uri, "?")
  <2>1. I = {}
    BY <1>3 DEF Avoids
  <2>2. query = 0 /\ \A q \in 1 .. Len(uri) : uri[q] # "?"
    BY <1>1, <1>3, <2>1 DEF Avoids
  <2>3. QED
    BY <2>2 DEF query
<1>4. ASSUME NEW q \in 1 .. Len(uri), uri[q] = "?", \A i \in 1 .. q - 1 : uri[i] # "?"
      PROVE  query = q
  <2>1. q \in I /\ \A j \in I : q <= j
    BY <1>2, <1>4
  <2>2. I \subseteq Nat
    BY <1>2
  <2> HIDE DEF I
  <2>3. \A m \in I : (\A j \in I : m <= j) => m = q
    BY <2>1, <2>2
  <2>4. QED
    BY <1>1, <2>1, <2>3
<1>5. QED
  BY <1>3, <1>4 DEF query, Avoids

\* A path without a "?" behind a host, and a "?" or nothing behind it.
LEMMA PathIs ==
    ASSUME NEW uri \in Text, NEW path \in Text, Avoids(path, "?"),
           uri # <<>>, uri[1] # "?", Len(uri) >= Len(path) + 1,
           \A i \in 1 .. Len(path) : uri[i + 1] = path[i],
           Len(uri) > Len(path) + 1 => uri[Len(path) + 2] = "?"
    PROVE  Path(uri) = path
<1> DEFINE query == Seqs!SelectInSeq(uri, LAMBDA x : x = "?")
           n == Len(path)
<1>1. n \in Nat /\ Len(uri) \in Nat
  BY TextSymbols
<1>2. \A i \in 1 .. n + 1 : uri[i] # "?"
  <2> SUFFICES ASSUME NEW i \in 1 .. n + 1, i # 1 PROVE uri[i] # "?"
    OBVIOUS
  <2>1. i - 1 \in 1 .. n /\ (i - 1) + 1 = i
    BY <1>1
  <2>2. uri[(i - 1) + 1] = path[i - 1]
    BY <2>1
  <2>3. QED
    BY <2>1, <2>2 DEF Avoids
<1>3. (IF query = 0 THEN Len(uri) ELSE query - 1) = n + 1
  <2>1. CASE Len(uri) = n + 1
    <3>1. Avoids(uri, "?")
      BY <1>2, <2>1 DEF Avoids
    <3>2. query = 0
      BY <3>1, FirstQuestionMark
    <3>3. QED
      BY <2>1, <3>2
  <2>2. CASE Len(uri) > n + 1
    <3>1. n + 2 \in 1 .. Len(uri) /\ (n + 2) - 1 = n + 1 /\ uri[n + 2] = "?"
      BY <1>1, <2>2
    <3>2. query = n + 2
      BY <1>2, <3>1, FirstQuestionMark
    <3>3. QED
      BY <1>1, <3>2
  <2>3. QED
    BY <1>1, <2>1, <2>2
<1>4. Path(uri) = SubSeq(uri, 2, n + 1)
  BY <1>3 DEF Path
<1>5. \A i \in 2 .. n + 1 : uri[i] \in Symbols
  BY <1>1, TextSymbols
<1>6. /\ SubSeq(uri, 2, n + 1) \in Seq(Symbols)
      /\ Len(SubSeq(uri, 2, n + 1)) = IF 2 <= n + 1 THEN (n + 1) - 2 + 1 ELSE 0
      /\ \A i \in 1 .. (n + 1) - 2 + 1 : SubSeq(uri, 2, n + 1)[i] = uri[2 + i - 1]
  BY <1>1, <1>5, SubSeqProperties
<1>7. Len(SubSeq(uri, 2, n + 1)) = n /\ \A i \in 1 .. n : SubSeq(uri, 2, n + 1)[i] = path[i]
  <2>1. (n + 1) - 2 + 1 = n /\ \A i \in 1 .. n : 2 + i - 1 = i + 1
    BY <1>1
  <2>2. Len(SubSeq(uri, 2, n + 1)) = n
    BY <1>1, <1>6, <2>1
  <2>3. QED
    BY <1>6, <2>1, <2>2
<1>8. QED
  BY <1>4, <1>6, <1>7, TextEqual DEF Text

(***************************************************************************)
(* The router.                                                             *)
(***************************************************************************)

\* The names of the routes are symbols.
LEMMA RouteNames ==
    /\ \A k \in Kinds : Plural[k] \in Symbols /\ SubRoutes[k] \subseteq Symbols
    /\ {"/", "?", "%", "v1", "version-info", "sovd", "data"} \subseteq Symbols
  BY DEF Symbols, NonAlphanumeric, PathSegmentEncodeSet

\* The normalized base is a text without a query.
LEMMA BaseFacts == NormalizedBase \in Text /\ Avoids(NormalizedBase, "?")
<1>1. Base \in Text /\ Avoids(Base, "?")
  <2>1. Base \in Text
    BY BaseAssumption, SeqMonotonic DEF Text, Symbols
  <2>2. QED
    BY <2>1, BaseAssumption, TextSymbols DEF Avoids
<1>2. CASE Base \in {<<>>, <<"/">>}
  <2>1. NormalizedBase = <<>>
    BY <1>2 DEF NormalizedBase
  <2>2. QED
    BY <2>1, EmptyTexts DEF Avoids
<1>3. CASE Base \notin {<<>>, <<"/">>} /\ Base[1] = "/"
  <2>1. NormalizedBase = Base
    BY <1>3 DEF NormalizedBase
  <2>2. QED
    BY <1>1, <2>1
<1>4. CASE Base \notin {<<>>, <<"/">>} /\ Base[1] # "/"
  <2>1. NormalizedBase = <<"/">> \o Base
    BY <1>4 DEF NormalizedBase
  <2>2. <<"/">> \in Text /\ Len(<<"/">>) = 1 /\ <<"/">>[1] = "/"
    BY RouteNames DEF Text
  <2> DEFINE slash == <<"/">>
  <2> HIDE DEF slash
  <2>3. /\ slash \o Base \in Text /\ Len(slash \o Base) = 1 + Len(Base) /\ Len(Base) \in Nat
        /\ (slash \o Base)[1] = "/"
        /\ \A i \in 1 .. Len(Base) : (slash \o Base)[1 + i] = Base[i]
    <3>1. slash \in Text /\ Len(slash) = 1 /\ slash[1] = "/"
      BY <2>2 DEF slash
    <3>2. /\ slash \o Base \in Text /\ Len(slash \o Base) = Len(slash) + Len(Base)
          /\ Len(Base) \in Nat
          /\ \A i \in 1 .. Len(slash) : (slash \o Base)[i] = slash[i]
          /\ \A i \in 1 .. Len(Base) : (slash \o Base)[Len(slash) + i] = Base[i]
      BY <1>1, <3>1, TextConcat, Zenon
    <3>3. QED
      BY <3>1, <3>2
  <2>4. \A i \in 1 .. 1 + Len(Base) : (slash \o Base)[i] # "?"
    <3> SUFFICES ASSUME NEW i \in 1 .. 1 + Len(Base), i # 1 PROVE (slash \o Base)[i] # "?"
      BY <2>3
    <3>1. i - 1 \in 1 .. Len(Base) /\ 1 + (i - 1) = i
      BY <2>3
    <3>2. QED
      BY <1>1, <2>3, <3>1 DEF Avoids
  <2>5. QED
    BY <2>1, <2>3, <2>4 DEF Avoids, slash
<1>5. QED
  BY <1>2, <1>3, <1>4

\* Two symbols are a text.
LEMMA PairIsText ==
    ASSUME NEW x \in Symbols, NEW y \in Symbols
    PROVE  <<x, y>> \in Text /\ Len(<<x, y>>) = 2 /\ <<x, y>>[1] = x /\ <<x, y>>[2] = y
  BY DEF Text

\* A text with a segment more.
LEMMA SegmentBehind ==
    ASSUME NEW x \in Symbols, NEW text \in Text
    PROVE  /\ text \o <<"/", x>> \in Text /\ Len(text \o <<"/", x>>) = Len(text) + 2
           /\ (text \o <<"/", x>>)[Len(text) + 1] = "/"
           /\ (text \o <<"/", x>>)[Len(text) + 2] = x
           /\ \A i \in 1 .. Len(text) : (text \o <<"/", x>>)[i] = text[i]
<1> DEFINE pair == <<"/", x>>
<1>1. pair \in Text /\ Len(pair) = 2 /\ pair[1] = "/" /\ pair[2] = x
  BY RouteNames, PairIsText
<1> HIDE DEF pair
<1> DEFINE longer == text \o pair
<1>2. /\ longer \in Text /\ Len(longer) = Len(text) + Len(pair)
      /\ Len(text) \in Nat /\ Len(pair) \in Nat
      /\ \A i \in 1 .. Len(text) : longer[i] = text[i]
      /\ \A i \in 1 .. Len(pair) : longer[Len(text) + i] = pair[i]
  BY <1>1, TextConcat, Zenon
<1> HIDE DEF longer
<1>3. /\ Len(longer) = Len(text) + 2
      /\ longer[Len(text) + 1] = "/" /\ longer[Len(text) + 2] = x
  BY <1>1, <1>2
<1>4. QED
  BY <1>2, <1>3 DEF pair, longer

\* A text with a slash more.
LEMMA SlashBehind ==
    ASSUME NEW text \in Text, NEW longer, longer = text \o <<"/">>
    PROVE  /\ longer \in Text /\ Len(longer) = Len(text) + 1 /\ longer[Len(text) + 1] = "/"
           /\ \A i \in 1 .. Len(text) : longer[i] = text[i]
<1>1. "/" \in Symbols
  BY RouteNames
<1>2. longer = Append(text, "/")
  BY <1>1, AppendFacts
<1>3. /\ Append(text, "/") \in Text /\ Len(Append(text, "/")) = Len(text) + 1
      /\ Append(text, "/")[Len(text) + 1] = "/"
      /\ \A i \in 1 .. Len(text) : Append(text, "/")[i] = text[i]
  BY <1>1, AppendFacts, Zenon
<1>4. QED
  BY <1>2, <1>3, Zenon

\* The version prefix is the base and one segment.
LEMMA PrefixFacts ==
    /\ V1Prefix \in Text /\ Avoids(V1Prefix, "?")
    /\ Len(V1Prefix) \in Nat /\ Len(NormalizedBase) \in Nat
    /\ Len(V1Prefix) = Len(NormalizedBase) + 2
    /\ V1Prefix[Len(NormalizedBase) + 1] = "/" /\ V1Prefix[Len(NormalizedBase) + 2] = "v1"
    /\ \A i \in 1 .. Len(NormalizedBase) : V1Prefix[i] = NormalizedBase[i]
<1> DEFINE n == Len(NormalizedBase)
<1>1. NormalizedBase \in Text /\ Avoids(NormalizedBase, "?") /\ n \in Nat
  BY BaseFacts, TextSymbols
<1>2. /\ V1Prefix \in Text /\ Len(V1Prefix) = n + 2
      /\ V1Prefix[n + 1] = "/" /\ V1Prefix[n + 2] = "v1"
      /\ \A i \in 1 .. n : V1Prefix[i] = NormalizedBase[i]
  BY <1>1, RouteNames, SegmentBehind DEF V1Prefix
<1>3. Avoids(V1Prefix, "?")
  <2> SUFFICES ASSUME NEW i \in 1 .. n + 2 PROVE V1Prefix[i] # "?"
    BY <1>2 DEF Avoids
  <2>1. i \in 1 .. n \/ i = n + 1 \/ i = n + 2
    BY <1>1
  <2>2. QED
    BY <1>1, <1>2, <2>1 DEF Avoids
<1>4. QED
  BY <1>1, <1>2, <1>3

\* A path that goes on behind the version prefix.
Behind(path, rest) ==
    /\ Len(path) = Len(V1Prefix) + 1 + Len(rest)
    /\ \A i \in 1 .. Len(V1Prefix) : path[i] = V1Prefix[i]
    /\ path[Len(V1Prefix) + 1] = "/"
    /\ \A i \in 1 .. Len(rest) : path[Len(V1Prefix) + 1 + i] = rest[i]

\* What a prefix is.
LEMMA PrefixIs ==
    ASSUME NEW p \in Text, NEW s \in Text
    PROVE  Seqs!IsPrefix(p, s) <=> Len(p) <= Len(s) /\ \A i \in 1 .. Len(p) : s[i] = p[i]
<1>1. Len(p) \in Nat /\ Len(s) \in Nat
  BY TextSymbols
<1>2. SubSeq(p, 1, Len(p)) = p
  BY SubSeqFull DEF Text
<1>3. Seqs!IsPrefix(p, s) <=> Len(p) <= Len(s) /\ p = SubSeq(s, 1, Len(p))
  BY <1>2 DEF Seqs!IsPrefix
<1>4. ASSUME Len(p) <= Len(s)
      PROVE  p = SubSeq(s, 1, Len(p)) <=> \A i \in 1 .. Len(p) : s[i] = p[i]
  <2>1. \A i \in 1 .. Len(p) : s[i] \in Symbols
    BY <1>1, <1>4, TextSymbols
  <2>2. SubSeq(s, 1, Len(p)) \in Text
    BY <1>1, <2>1, SubSeqProperties DEF Text
  <2>3. Len(SubSeq(s, 1, Len(p))) = Len(p)
    BY <1>1, <2>1, SubSeqProperties
  <2>4. \A i \in 1 .. Len(p) : SubSeq(s, 1, Len(p))[i] = s[i]
    BY <1>1, <2>1, SubSeqProperties
  <2>5. QED
    BY <2>2, <2>3, <2>4, TextEqual
<1>5. QED
  BY <1>3, <1>4

\* A path behind the version prefix is routed by what is behind it.
LEMMA BehindIsRouted ==
    ASSUME NEW path \in Text, NEW rest \in Text, Behind(path, rest)
    PROVE  PathCalls(path) = V1Calls(rest)
<1> DEFINE n == Len(NormalizedBase)
           m == Len(V1Prefix)
           slash == V1Prefix \o <<"/">>
<1>1. n \in Nat /\ m = n + 2 /\ V1Prefix[n + 2] = "v1" /\ Len(rest) \in Nat
  BY PrefixFacts, TextSymbols
<1>2. path # NormalizedBase \o <<"/", "version-info">>
  <2>1. path[n + 2] = "v1"
    BY <1>1 DEF Behind
  <2>2. (NormalizedBase \o <<"/", "version-info">>)[n + 2] = "version-info"
    BY BaseFacts, RouteNames, SegmentBehind
  <2>3. QED
    BY <2>1, <2>2
<1>3. path # V1Prefix
  BY <1>1 DEF Behind
<1>4. /\ slash \in Text /\ Len(slash) = m + 1 /\ slash[m + 1] = "/"
      /\ \A i \in 1 .. m : slash[i] = V1Prefix[i]
  <2>1. V1Prefix \in Text
    BY PrefixFacts
  <2>2. slash = V1Prefix \o <<"/">>
    OBVIOUS
  <2> HIDE DEF slash
  <2>3. QED
    BY <2>1, <2>2, SlashBehind
<1> HIDE DEF slash
<1>5. Seqs!IsPrefix(slash, path)
  <2>1. Len(slash) <= Len(path)
    BY <1>1, <1>4 DEF Behind
  <2>2. ASSUME NEW i \in 1 .. m + 1 PROVE path[i] = slash[i]
    BY <1>1, <1>4 DEF Behind
  <2>3. QED
    BY <1>4, <2>1, <2>2, PrefixIs
<1>6. SubSeq(path, m + 2, Len(path)) = rest
  <2>1. \A i \in m + 2 .. Len(path) : path[i] \in Symbols
    BY <1>1, TextSymbols
  <2>2. /\ Len(path) \in Int /\ m + 2 \in Int
        /\ (IF m + 2 <= Len(path) THEN Len(path) - (m + 2) + 1 ELSE 0) = Len(rest)
        /\ Len(path) - (m + 2) + 1 = Len(rest)
    BY <1>1, TextSymbols DEF Behind
  <2>3. /\ SubSeq(path, m + 2, Len(path)) \in Seq(Symbols)
        /\ Len(SubSeq(path, m + 2, Len(path)))
              = IF m + 2 <= Len(path) THEN Len(path) - (m + 2) + 1 ELSE 0
        /\ \A i \in 1 .. Len(path) - (m + 2) + 1 :
              SubSeq(path, m + 2, Len(path))[i] = path[(m + 2) + i - 1]
    BY <2>1, <2>2, SubSeqProperties
  <2>4. ASSUME NEW i \in 1 .. Len(rest)
        PROVE  SubSeq(path, m + 2, Len(path))[i] = rest[i]
    <3>1. (m + 2) + i - 1 = m + 1 + i
      BY <1>1
    <3>2. QED
      BY <2>2, <2>3, <3>1 DEF Behind
  <2>5. QED
    BY <2>2, <2>3, <2>4, TextEqual DEF Text
<1>7. QED
  BY <1>2, <1>3, <1>5, <1>6 DEF PathCalls, slash

\* The two paths that are not behind the version prefix.
LEMMA FixedRoutes ==
    ASSUME NEW path \in Text
    PROVE  /\ path = NormalizedBase \o <<"/", "version-info">> =>
                 PathCalls(path) = {Call("version-info", "server", <<>>, <<>>)}
           /\ path = V1Prefix => PathCalls(path) = {Call("root", "server", <<>>, <<>>)}
<1> DEFINE n == Len(NormalizedBase)
           m == Len(V1Prefix)
           slash == V1Prefix \o <<"/">>
<1>1. n \in Nat /\ m = n + 2 /\ V1Prefix[n + 2] = "v1" /\ Len(path) \in Nat
  BY PrefixFacts, TextSymbols
<1>2. /\ slash \in Text /\ Len(slash) = m + 1 /\ slash[m + 1] = "/"
      /\ \A i \in 1 .. m : slash[i] = V1Prefix[i]
  BY PrefixFacts, SlashBehind
<1>3. Seqs!IsPrefix(slash, path) => Len(path) >= n + 3
  <2> HIDE DEF slash
  <2>1. Seqs!IsPrefix(slash, path) => Len(slash) <= Len(path)
    BY <1>2, PrefixIs
  <2>2. QED
    BY <1>1, <1>2, <2>1
<1> DEFINE info == NormalizedBase \o <<"/", "version-info">>
<1>4. Len(info) = n + 2 /\ info[n + 2] = "version-info"
  BY BaseFacts, RouteNames, SegmentBehind
<1>5. CASE path = info
  <2> HIDE DEF info
  <2>1. path # V1Prefix /\ ~Seqs!IsPrefix(slash, path)
    BY <1>1, <1>3, <1>4, <1>5
  <2>2. PathCalls(path) = {Call("version-info", "server", <<>>, <<>>)}
    BY <1>5, <2>1 DEF PathCalls, info
  <2>3. QED
    BY <2>1, <2>2 DEF info
<1>6. CASE path = V1Prefix
  <2> HIDE DEF info
  <2>1. path # info /\ ~Seqs!IsPrefix(slash, path)
    BY <1>1, <1>3, <1>4, <1>6
  <2>2. PathCalls(path) = {Call("root", "server", <<>>, <<>>)}
    BY <1>6, <2>1 DEF PathCalls, info
  <2>3. QED
    BY <2>1, <2>2 DEF info
<1>7. QED
  BY <1>5, <1>6

\* Whatever is found is the version info, the root, or behind the version prefix.
LEMMA RoutedIsBehind ==
    ASSUME NEW path \in Text, NEW c \in PathCalls(path)
    PROVE  \/ c.route \in {"version-info", "root"}
           \/ \E rest \in Text : Behind(path, rest) /\ c \in V1Calls(rest)
<1> DEFINE n == Len(NormalizedBase)
           m == Len(V1Prefix)
           slash == V1Prefix \o <<"/">>
           rest == SubSeq(path, m + 2, Len(path))
<1>1. n \in Nat /\ m = n + 2 /\ V1Prefix[n + 2] = "v1" /\ Len(path) \in Nat
  BY PrefixFacts, TextSymbols
<1>2. /\ slash \in Text /\ Len(slash) = m + 1 /\ slash[m + 1] = "/"
      /\ \A i \in 1 .. m : slash[i] = V1Prefix[i]
  BY PrefixFacts, SlashBehind
<1> DEFINE info == NormalizedBase \o <<"/", "version-info">>
<1>3. path = info => c.route = "version-info"
  <2>1. path = info => PathCalls(path) = {Call("version-info", "server", <<>>, <<>>)}
    BY FixedRoutes, Zenon
  <2> HIDE DEF info
  <2>2. QED
    BY <2>1 DEF Call
<1>4. path = V1Prefix => c.route = "root"
  <2>1. path = V1Prefix => c = Call("root", "server", <<>>, <<>>)
    BY FixedRoutes
  <2>2. QED
    BY <2>1 DEF Call
<1>5. CASE path # info /\ path # V1Prefix
  <2>1. Seqs!IsPrefix(slash, path) /\ c \in V1Calls(rest)
    BY <1>5 DEF PathCalls
  <2> HIDE DEF slash
  <2>3. m + 1 <= Len(path) /\ \A i \in 1 .. m + 1 : path[i] = slash[i]
    BY <1>2, <2>1, PrefixIs
  <2>4. \A i \in m + 2 .. Len(path) : path[i] \in Symbols
    BY <1>1, TextSymbols
  <2>5. /\ rest \in Seq(Symbols)
        /\ Len(rest) = IF m + 2 <= Len(path) THEN Len(path) - (m + 2) + 1 ELSE 0
        /\ \A i \in 1 .. Len(path) - (m + 2) + 1 : rest[i] = path[(m + 2) + i - 1]
    BY <1>1, <2>4, SubSeqProperties
  <2>6. Len(path) - (m + 2) + 1 = Len(rest) /\ Len(path) = m + 1 + Len(rest)
    <3> HIDE DEF rest, m
    <3>1. m + 1 = Len(path) => Len(rest) = 0 /\ Len(path) - (m + 2) + 1 = 0
      BY <1>1, <2>5
    <3>2. m + 1 < Len(path) => Len(rest) = Len(path) - (m + 2) + 1
      BY <1>1, <2>5
    <3>3. QED
      BY <1>1, <2>3, <3>1, <3>2
  <2>7. \A i \in 1 .. Len(rest) : path[m + 1 + i] = rest[i]
    <3> SUFFICES ASSUME NEW i \in 1 .. Len(rest) PROVE path[m + 1 + i] = rest[i]
      OBVIOUS
    <3>1. (m + 2) + i - 1 = m + 1 + i
      BY <1>1, <2>6
    <3> HIDE DEF rest
    <3>2. QED
      BY <2>5, <2>6, <3>1
  <2> HIDE DEF rest
  <2>8. Behind(path, rest)
    BY <1>1, <1>2, <2>3, <2>6, <2>7 DEF Behind
  <2>9. QED
    BY <2>1, <2>5, <2>8 DEF Text
<1>6. QED
  BY <1>3, <1>4, <1>5

(***************************************************************************)
(* The routes behind the version prefix.                                   *)
(***************************************************************************)

\* The text at a position of a longer one.
At(path, first, text) ==
    /\ first + Len(text) - 1 <= Len(path)
    /\ \A i \in 1 .. Len(text) : path[first - 1 + i] = text[i]

Segment(text) == text \in Text /\ text # <<>> /\ Avoids(text, "/")

\* A segment is taken for the parameter that it is.
LEMMA ParamIs ==
    ASSUME NEW path \in Text, NEW e, Segment(e), NEW first \in Nat \ {0}, At(path, first, e),
           NEW last, last = first + Len(e) - 1
    PROVE  Param(path, first, last) = {Decode(e)}
<1>1. Len(e) \in Nat \ {0} /\ Len(path) \in Nat
  BY TextSymbols, EmptySeq DEF Segment, Text
<1>2. last \in Int /\ first <= last /\ last <= Len(path) /\ last - first + 1 = Len(e)
  BY <1>1 DEF At
<1>3. \A i \in first .. last : path[i] \in Symbols
  BY <1>1, <1>2, TextSymbols
<1>4. /\ SubSeq(path, first, last) \in Seq(Symbols)
      /\ Len(SubSeq(path, first, last)) = IF first <= last THEN last - first + 1 ELSE 0
      /\ \A i \in 1 .. last - first + 1 : SubSeq(path, first, last)[i] = path[first + i - 1]
  BY <1>2, <1>3, SubSeqProperties
<1>5. SubSeq(path, first, last) = e
  <2>1. \A i \in 1 .. Len(e) : first + i - 1 = first - 1 + i
    BY <1>1
  <2>2. \A i \in 1 .. Len(e) : SubSeq(path, first, last)[i] = e[i]
    BY <1>2, <1>4, <2>1 DEF At
  <2>3. QED
    BY <1>2, <1>4, <2>2, TextEqual DEF Text, Segment
<1>6. \A i \in first .. last : path[i] # "/"
  <2> SUFFICES ASSUME NEW i \in first .. last PROVE path[i] # "/"
    OBVIOUS
  <2>1. i - first + 1 \in 1 .. Len(e) /\ first - 1 + (i - first + 1) = i
    BY <1>1, <1>2
  <2>2. QED
    BY <2>1 DEF At, Segment, Avoids
<1>7. QED
  BY <1>2, <1>5, <1>6 DEF Param

\* A parameter has no slash.
LEMMA ParamNone ==
    ASSUME NEW path, NEW first, NEW last, NEW i \in first .. last, path[i] = "/"
    PROVE  Param(path, first, last) = {}
  BY DEF Param

\* What a parameter takes is a segment.
LEMMA ParamIsSegment ==
    ASSUME NEW path \in Text, NEW first \in Nat \ {0}, NEW last \in Int, last <= Len(path),
           NEW id \in Param(path, first, last)
    PROVE  \E e : Segment(e) /\ At(path, first, e) /\ last = first + Len(e) - 1
<1> DEFINE e == SubSeq(path, first, last)
<1>1. first <= last /\ \A i \in first .. last : path[i] # "/"
  BY DEF Param
<1>2. Len(path) \in Nat /\ \A i \in first .. last : path[i] \in Symbols
  BY TextSymbols
<1>3. /\ e \in Seq(Symbols) /\ Len(e) = IF first <= last THEN last - first + 1 ELSE 0
      /\ \A i \in 1 .. last - first + 1 : e[i] = path[first + i - 1]
  BY <1>2, SubSeqProperties
<1> HIDE DEF e
<1>4. Len(e) = last - first + 1 /\ Len(e) # 0
  BY <1>1, <1>3
<1>5. \A i \in 1 .. Len(e) : e[i] = path[first - 1 + i] /\ first - 1 + i \in first .. last
  <2>1. \A i \in 1 .. Len(e) : first + i - 1 = first - 1 + i
    BY <1>4
  <2>2. QED
    BY <1>3, <1>4, <2>1
<1>6. Segment(e)
  BY <1>1, <1>3, <1>4, <1>5, EmptySeq DEF Segment, Text, Avoids
<1>7. At(path, first, e) /\ last = first + Len(e) - 1
  BY <1>2, <1>4, <1>5 DEF At
<1>8. QED
  BY <1>6, <1>7

\* A path that names an entity of a kind, and more behind it.
Names(path, k, e) ==
    /\ Segment(e) /\ At(path, 3, e)
    /\ path[1] = Plural[k] /\ path[2] = "/"

EntityPath(path, k, e) == Names(path, k, e) /\ Len(path) = 2 + Len(e)

RoutePath(path, k, e, r) ==
    /\ Names(path, k, e) /\ r \in SubRoutes[k]
    /\ Len(path) = 4 + Len(e)
    /\ path[3 + Len(e)] = "/" /\ path[4 + Len(e)] = r

ItemPath(path, k, e, f) ==
    /\ Names(path, k, e) /\ Segment(f) /\ At(path, 6 + Len(e), f) /\ "data" \in SubRoutes[k]
    /\ Len(path) = 5 + Len(e) + Len(f)
    /\ path[3 + Len(e)] = "/" /\ path[4 + Len(e)] = "data" /\ path[5 + Len(e)] = "/"

\* The names of the kinds tell them apart.
LEMMA PluralsDiffer ==
    /\ \A k, l \in Kinds : Plural[k] = Plural[l] => k = l
    /\ \A k \in Kinds : Plural[k] # "/" /\ "/" \notin SubRoutes[k]
    /\ \A k, l \in Kinds : Plural[k] \notin SubRoutes[l]
  BY DEF Kinds, Plural, SubRoutes, DataCollections

\* When a path begins with a kind.
LEMMA PluralPrefix ==
    ASSUME NEW path \in Text, NEW k \in Kinds
    PROVE  Seqs!IsPrefix(<<Plural[k], "/">>, path)
              <=> Len(path) >= 2 /\ path[1] = Plural[k] /\ path[2] = "/"
<1> DEFINE pair == <<Plural[k], "/">>
<1>1. pair \in Text /\ Len(pair) = 2 /\ pair[1] = Plural[k] /\ pair[2] = "/"
  BY RouteNames, PairIsText
<1> HIDE DEF pair
<1>2. Seqs!IsPrefix(pair, path) <=> Len(pair) <= Len(path) /\ \A i \in 1 .. Len(pair) : path[i] = pair[i]
  BY <1>1, PrefixIs
<1>3. Len(path) \in Nat /\ (\A i \in 1 .. Len(pair) : i = 1 \/ i = 2) /\ 1 \in 1 .. Len(pair)
      /\ 2 \in 1 .. Len(pair)
  BY <1>1, TextSymbols
<1>4. QED
  BY <1>1, <1>2, <1>3 DEF pair

\* A path is routed by the kind that it begins with.
LEMMA OneKind ==
    ASSUME NEW path \in Text, NEW k \in Kinds,
           Len(path) >= 2, path[1] = Plural[k], path[2] = "/"
    PROVE  V1Calls(path) = KindCalls(path, k)
<1> DEFINE Of(l) == IF path = <<Plural[l]>> THEN {Call("list", l, <<>>, <<>>)}
                    ELSE IF Seqs!IsPrefix(<<Plural[l], "/">>, path) THEN KindCalls(path, l) ELSE {}
<1>1. V1Calls(path) = UNION {Of(l) : l \in Kinds}
  BY DEF V1Calls
<1>2. \A l \in Kinds : path # <<Plural[l]>>
  OBVIOUS
<1>3. \A l \in Kinds : Seqs!IsPrefix(<<Plural[l], "/">>, path) <=> l = k
  BY PluralPrefix, PluralsDiffer
<1>4. \A l \in Kinds : Of(l) = IF l = k THEN KindCalls(path, k) ELSE {}
  BY <1>2, <1>3
<1> HIDE DEF Of
<1>5. QED
  BY <1>1, <1>4

\* The path of a collection.
LEMMA ListIsRouted ==
    ASSUME NEW k \in Kinds
    PROVE  V1Calls(<<Plural[k]>>) = {Call("list", k, <<>>, <<>>)}
<1> SUFFICES ASSUME NEW path, path = <<Plural[k]>>
             PROVE  V1Calls(path) = {Call("list", k, <<>>, <<>>)}
  OBVIOUS
<1> DEFINE Of(l) == IF path = <<Plural[l]>> THEN {Call("list", l, <<>>, <<>>)}
                    ELSE IF Seqs!IsPrefix(<<Plural[l], "/">>, path) THEN KindCalls(path, l) ELSE {}
<1>1. V1Calls(path) = UNION {Of(l) : l \in Kinds}
  BY DEF V1Calls
<1>2. path \in Text /\ Len(path) = 1
  BY RouteNames DEF Text
<1>3. \A l \in Kinds : path = <<Plural[l]>> <=> l = k
  BY PluralsDiffer
<1>4. \A l \in Kinds : ~Seqs!IsPrefix(<<Plural[l], "/">>, path)
  BY <1>2, PluralPrefix
<1>5. \A l \in Kinds : Of(l) = IF l = k THEN {Call("list", k, <<>>, <<>>)} ELSE {}
  BY <1>3, <1>4
<1> HIDE DEF Of
<1>6. QED
  BY <1>1, <1>5

\* The three groups of routes of a kind.
CapabilityCalls(path, k) ==
    {Call("capabilities", k, id, <<>>) : id \in Param(path, 3, Len(path))}

RouteOf(path, k, r) == r \in SubRoutes[k] /\ Len(path) > 3
                       /\ SubSeq(path, Len(path) - 1, Len(path)) = <<"/", r>>

RouteCalls(path, k) ==
    {Call(r, k, id, <<>>) : r \in {r \in SubRoutes[k] : RouteOf(path, k, r)},
                            id \in Param(path, 3, Len(path) - 2)}

ItemAt(path, k, i) == i \in 4 .. Len(path) - 3 /\ "data" \in SubRoutes[k]
                      /\ SubSeq(path, i, i + 2) = <<"/", "data", "/">>

ItemCallsAt(path, k, i) ==
    {Call("data-item", k, id, item) : id \in Param(path, 3, i - 1),
                                      item \in Param(path, i + 3, Len(path))}

\* The calls for a path, by group.
LEMMA KindCallsSplit ==
    ASSUME NEW path, NEW k
    PROVE  \A c : c \in KindCalls(path, k) <=>
              \/ c \in CapabilityCalls(path, k)
              \/ c \in RouteCalls(path, k)
              \/ \E i \in 4 .. Len(path) - 3 : ItemAt(path, k, i) /\ c \in ItemCallsAt(path, k, i)
<1> DEFINE n == Len(path)
           A == {Call("capabilities", k, id, <<>>) : id \in Param(path, 3, n)}
           B == {Call(r, k, id, <<>>) :
                    r \in {r \in SubRoutes[k] : n > 3 /\ SubSeq(path, n - 1, n) = <<"/", r>>},
                    id \in Param(path, 3, n - 2)}
           J == {i \in 4 .. n - 3 : /\ "data" \in SubRoutes[k]
                                    /\ SubSeq(path, i, i + 2) = <<"/", "data", "/">>}
           C == UNION {{Call("data-item", k, id, item) :
                           id \in Param(path, 3, i - 1), item \in Param(path, i + 3, n)} : i \in J}
<1>1. KindCalls(path, k) = UNION {A, B, C}
  BY DEF KindCalls
<1>2. A = CapabilityCalls(path, k)
  BY DEF CapabilityCalls
<1>3. B = RouteCalls(path, k)
  BY DEF RouteCalls, RouteOf
<1>4. C = UNION {ItemCallsAt(path, k, i) : i \in J}
  BY DEF ItemCallsAt
<1>5. \A i : i \in J <=> i \in 4 .. Len(path) - 3 /\ ItemAt(path, k, i)
  BY DEF ItemAt
<1> HIDE DEF A, B, C, J
<1>6. QED
  BY <1>1, <1>2, <1>3, <1>4, <1>5

\* The last two symbols of a path.
LEMMA LastTwo ==
    ASSUME NEW path \in Text, NEW x \in Symbols, NEW y \in Symbols, Len(path) > 3
    PROVE  SubSeq(path, Len(path) - 1, Len(path)) = <<x, y>>
              <=> path[Len(path) - 1] = x /\ path[Len(path)] = y
<1> DEFINE n == Len(path)
           s == SubSeq(path, n - 1, n)
           pair == <<x, y>>
<1>1. n \in Nat /\ \A i \in n - 1 .. n : path[i] \in Symbols
  BY TextSymbols
<1>2. /\ s \in Seq(Symbols)
      /\ Len(s) = IF n - 1 <= n THEN n - (n - 1) + 1 ELSE 0
      /\ \A i \in 1 .. n - (n - 1) + 1 : s[i] = path[(n - 1) + i - 1]
  BY <1>1, SubSeqProperties
<1> HIDE DEF s
<1>3. Len(s) = 2 /\ s[1] = path[n - 1] /\ s[2] = path[n]
  <2>1. n - (n - 1) + 1 = 2 /\ (n - 1) + 1 - 1 = n - 1 /\ (n - 1) + 2 - 1 = n /\ n - 1 <= n
    BY <1>1
  <2>2. 1 \in 1 .. n - (n - 1) + 1 /\ 2 \in 1 .. n - (n - 1) + 1
    BY <2>1
  <2>3. s[1] = path[(n - 1) + 1 - 1] /\ s[2] = path[(n - 1) + 2 - 1]
    BY <1>2, <2>2
  <2>4. QED
    BY <1>2, <2>1, <2>3
<1>4. pair \in Text /\ Len(pair) = 2 /\ pair[1] = x /\ pair[2] = y
  BY PairIsText
<1> HIDE DEF pair
<1>5. s = pair <=> s[1] = x /\ s[2] = y
  <2>1. ASSUME s[1] = x, s[2] = y PROVE s = pair
    <3>1. \A i \in 1 .. Len(s) : i = 1 \/ i = 2
      BY <1>3
    <3>2. s \in Text
      BY <1>2 DEF Text
    <3>3. \A i \in 1 .. Len(s) : s[i] = pair[i]
      BY <1>4, <2>1, <3>1
    <3>4. QED
      BY <1>3, <1>4, <3>2, <3>3, TextEqual
  <2>2. QED
    BY <1>4, <2>1
<1>6. QED
  BY <1>3, <1>5 DEF s, pair

\* "data" between two parameters.
LEMMA DataInMiddle ==
    ASSUME NEW path \in Text, NEW i \in 4 .. Len(path) - 3
    PROVE  SubSeq(path, i, i + 2) = <<"/", "data", "/">>
              <=> path[i] = "/" /\ path[i + 1] = "data" /\ path[i + 2] = "/"
<1> DEFINE s == SubSeq(path, i, i + 2)
           three == <<"/", "data", "/">>
<1>1. Len(path) \in Nat /\ i \in Int /\ \A j \in i .. i + 2 : path[j] \in Symbols
  BY TextSymbols
<1>2. /\ s \in Seq(Symbols)
      /\ Len(s) = IF i <= i + 2 THEN (i + 2) - i + 1 ELSE 0
      /\ \A j \in 1 .. (i + 2) - i + 1 : s[j] = path[i + j - 1]
  BY <1>1, SubSeqProperties
<1> HIDE DEF s
<1>3. Len(s) = 3 /\ s[1] = path[i] /\ s[2] = path[i + 1] /\ s[3] = path[i + 2]
  <2>1. (i + 2) - i + 1 = 3 /\ i + 1 - 1 = i /\ i + 2 - 1 = i + 1 /\ i + 3 - 1 = i + 2 /\ i <= i + 2
    BY <1>1
  <2>2. 1 \in 1 .. (i + 2) - i + 1 /\ 2 \in 1 .. (i + 2) - i + 1 /\ 3 \in 1 .. (i + 2) - i + 1
    BY <2>1
  <2>3. s[1] = path[i + 1 - 1] /\ s[2] = path[i + 2 - 1] /\ s[3] = path[i + 3 - 1]
    BY <1>2, <2>2
  <2>4. QED
    BY <1>2, <2>1, <2>3
<1>4. three \in Text /\ Len(three) = 3 /\ three[1] = "/" /\ three[2] = "data" /\ three[3] = "/"
  BY RouteNames DEF Text
<1> HIDE DEF three
<1>5. s = three <=> s[1] = "/" /\ s[2] = "data" /\ s[3] = "/"
  <2>1. ASSUME s[1] = "/", s[2] = "data", s[3] = "/" PROVE s = three
    <3>1. \A j \in 1 .. Len(s) : j = 1 \/ j = 2 \/ j = 3
      BY <1>3
    <3>2. s \in Text
      BY <1>2 DEF Text
    <3>3. \A j \in 1 .. Len(s) : s[j] = three[j]
      BY <1>4, <2>1, <3>1
    <3>4. QED
      BY <1>3, <1>4, <3>2, <3>3, TextEqual
  <2>2. QED
    BY <1>4, <2>1
<1>6. QED
  BY <1>3, <1>5 DEF s, three

\* A path that names an entity.
LEMMA NamesFacts ==
    ASSUME NEW path \in Text, NEW k \in Kinds, NEW e, Names(path, k, e)
    PROVE  /\ Len(e) \in Nat \ {0} /\ Len(path) \in Nat /\ Len(path) >= 2 + Len(e)
           /\ \A i \in 3 .. 2 + Len(e) : path[i] # "/"
           /\ Param(path, 3, 2 + Len(e)) = {Decode(e)}
           /\ V1Calls(path) = KindCalls(path, k)
<1>1. Len(e) \in Nat \ {0} /\ Len(path) \in Nat
  BY TextSymbols, EmptySeq DEF Names, Segment, Text
<1>2. Len(path) >= 2 + Len(e)
  BY <1>1 DEF Names, At
<1>3. ASSUME NEW i \in 3 .. 2 + Len(e)
      PROVE  path[i] # "/"
  <2>1. i - 2 \in 1 .. Len(e) /\ 3 - 1 + (i - 2) = i
    BY <1>1
  <2>2. QED
    BY <2>1 DEF Names, At, Segment, Avoids
<1>4. Param(path, 3, 2 + Len(e)) = {Decode(e)}
  <2>1. 2 + Len(e) = 3 + Len(e) - 1
    BY <1>1
  <2>2. QED
    BY <2>1, ParamIs DEF Names
<1>5. V1Calls(path) = KindCalls(path, k)
  BY <1>1, <1>2, OneKind DEF Names
<1>6. QED
  BY <1>1, <1>2, <1>3, <1>4, <1>5

\* Which positions of a path can begin the route behind an entity, or its data.
LEMMA RouteAt ==
    ASSUME NEW path \in Text, NEW k \in Kinds, NEW r
    PROVE  RouteOf(path, k, r) <=>
              r \in SubRoutes[k] /\ Len(path) > 3 /\ path[Len(path) - 1] = "/" /\ path[Len(path)] = r
<1>1. r \in SubRoutes[k] => r \in Symbols
  BY RouteNames
<1>2. QED
  BY <1>1, RouteNames, LastTwo DEF RouteOf

\* The path of an entity has its capabilities for its only call.
LEMMA EntityIsRouted ==
    ASSUME NEW path \in Text, NEW k \in Kinds, NEW e, EntityPath(path, k, e)
    PROVE  V1Calls(path) = {Call("capabilities", k, Decode(e), <<>>)}
<1>1. Names(path, k, e) /\ Len(path) = 2 + Len(e)
  BY DEF EntityPath
<1>2. Len(e) \in Nat \ {0} /\ \A i \in 3 .. 2 + Len(e) : path[i] # "/"
  BY <1>1, NamesFacts
<1>3. Param(path, 3, Len(path)) = {Decode(e)} /\ V1Calls(path) = KindCalls(path, k)
  BY <1>1, NamesFacts
<1>4. CapabilityCalls(path, k) = {Call("capabilities", k, Decode(e), <<>>)}
  BY <1>3 DEF CapabilityCalls
<1>5. \A r : ~RouteOf(path, k, r)
  <2> SUFFICES ASSUME NEW r, RouteOf(path, k, r) PROVE FALSE
    OBVIOUS
  <2>1. Len(path) > 3 /\ path[Len(path) - 1] = "/"
    BY RouteAt
  <2>2. Len(path) - 1 \in 3 .. 2 + Len(e)
    BY <1>1, <1>2, <2>1
  <2>3. QED
    BY <1>2, <2>1, <2>2
<1>6. \A i \in 4 .. Len(path) - 3 : ~ItemAt(path, k, i)
  <2> SUFFICES ASSUME NEW i \in 4 .. Len(path) - 3, ItemAt(path, k, i) PROVE FALSE
    OBVIOUS
  <2>1. path[i] = "/"
    BY DataInMiddle DEF ItemAt
  <2>2. i \in 3 .. 2 + Len(e)
    BY <1>1, <1>2
  <2>3. QED
    BY <1>2, <2>1, <2>2
<1>7. RouteCalls(path, k) = {}
  BY <1>5 DEF RouteCalls
<1>8. \A c : c \in KindCalls(path, k) <=> c = Call("capabilities", k, Decode(e), <<>>)
  BY <1>4, <1>6, <1>7, KindCallsSplit
<1>9. QED
  BY <1>3, <1>8

\* The path of a route of an entity has that route for its only call.
LEMMA RouteIsRouted ==
    ASSUME NEW path \in Text, NEW k \in Kinds, NEW e, NEW route, RoutePath(path, k, e, route)
    PROVE  V1Calls(path) = {Call(route, k, Decode(e), <<>>)}
<1>1. Names(path, k, e) /\ Len(path) = 4 + Len(e) /\ route \in SubRoutes[k]
      /\ path[3 + Len(e)] = "/" /\ path[4 + Len(e)] = route
  BY DEF RoutePath
<1>2. Len(e) \in Nat \ {0} /\ \A i \in 3 .. 2 + Len(e) : path[i] # "/"
  BY <1>1, NamesFacts
<1>3. Param(path, 3, 2 + Len(e)) = {Decode(e)} /\ V1Calls(path) = KindCalls(path, k)
  BY <1>1, NamesFacts
<1>4. Len(path) - 1 = 3 + Len(e) /\ Len(path) - 2 = 2 + Len(e) /\ Len(path) > 3
  BY <1>1, <1>2
<1>5. CapabilityCalls(path, k) = {}
  <2>1. 3 + Len(e) \in 3 .. Len(path)
    BY <1>1, <1>2
  <2>2. Param(path, 3, Len(path)) = {}
    BY <1>1, <2>1, ParamNone
  <2>3. QED
    BY <2>2 DEF CapabilityCalls
<1>6. \A r : RouteOf(path, k, r) <=> r = route
  BY <1>1, <1>4, RouteAt
<1>7. RouteCalls(path, k) = {Call(route, k, Decode(e), <<>>)}
  BY <1>1, <1>3, <1>4, <1>6 DEF RouteCalls
<1>8. \A i \in 4 .. Len(path) - 3 : ~ItemAt(path, k, i)
  <2> SUFFICES ASSUME NEW i \in 4 .. Len(path) - 3, ItemAt(path, k, i) PROVE FALSE
    OBVIOUS
  <2>1. path[i] = "/"
    BY DataInMiddle DEF ItemAt
  <2>2. i \in 3 .. 2 + Len(e)
    BY <1>1, <1>2
  <2>3. QED
    BY <1>2, <2>1, <2>2
<1>9. \A c : c \in KindCalls(path, k) <=> c = Call(route, k, Decode(e), <<>>)
  BY <1>5, <1>7, <1>8, KindCallsSplit
<1>10. QED
  BY <1>3, <1>9

\* The path of a data resource has that resource for its only call.
LEMMA ItemIsRouted ==
    ASSUME NEW path \in Text, NEW k \in Kinds, NEW e, NEW f, ItemPath(path, k, e, f)
    PROVE  V1Calls(path) = {Call("data-item", k, Decode(e), Decode(f))}
<1> DEFINE s == 3 + Len(e)
           n == Len(path)
<1>1. /\ Names(path, k, e) /\ Segment(f) /\ At(path, 6 + Len(e), f) /\ "data" \in SubRoutes[k]
      /\ n = 5 + Len(e) + Len(f)
      /\ path[s] = "/" /\ path[4 + Len(e)] = "data" /\ path[5 + Len(e)] = "/"
  BY DEF ItemPath
<1>2. Len(e) \in Nat \ {0} /\ \A i \in 3 .. 2 + Len(e) : path[i] # "/"
  BY <1>1, NamesFacts
<1>3. Param(path, 3, 2 + Len(e)) = {Decode(e)} /\ V1Calls(path) = KindCalls(path, k)
  BY <1>1, NamesFacts
<1>4. Len(f) \in Nat \ {0}
  BY <1>1, TextSymbols, EmptySeq DEF Segment, Text
<1>5. Param(path, s + 3, n) = {Decode(f)}
  <2>1. 6 + Len(e) = s + 3 /\ n = 6 + Len(e) + Len(f) - 1 /\ 6 + Len(e) \in Nat \ {0}
    BY <1>1, <1>2, <1>4
  <2> HIDE DEF s, n
  <2>2. Param(path, 6 + Len(e), n) = {Decode(f)}
    BY <1>1, <2>1, ParamIs
  <2>3. QED
    BY <2>1, <2>2
<1>6. \A i \in s + 3 .. n : path[i] # "/"
  <2> SUFFICES ASSUME NEW i \in s + 3 .. n PROVE path[i] # "/"
    OBVIOUS
  <2>1. i - (s + 2) \in 1 .. Len(f) /\ 6 + Len(e) - 1 + (i - (s + 2)) = i
    BY <1>1, <1>2, <1>4
  <2> DEFINE j == i - (s + 2)
  <2>2. f[j] # "/"
    BY <1>1, <2>1 DEF Segment, Avoids
  <2>3. path[6 + Len(e) - 1 + j] = f[j]
    BY <1>1, <2>1 DEF At
  <2>4. QED
    BY <2>1, <2>2, <2>3
<1>7. CapabilityCalls(path, k) = {}
  <2>1. s \in 3 .. n
    BY <1>1, <1>2, <1>4
  <2>2. Param(path, 3, n) = {}
    BY <1>1, <2>1, ParamNone
  <2>3. QED
    BY <2>2 DEF CapabilityCalls
<1>8. RouteCalls(path, k) = {}
  <2>1. s \in 3 .. n - 2
    BY <1>1, <1>2, <1>4
  <2>2. Param(path, 3, n - 2) = {}
    BY <1>1, <2>1, ParamNone
  <2>3. QED
    BY <2>2 DEF RouteCalls
<1>9. s \in 4 .. n - 3 /\ s - 1 = 2 + Len(e) /\ s + 1 = 4 + Len(e) /\ s + 2 = 5 + Len(e)
  BY <1>1, <1>2, <1>4
<1>10. ASSUME NEW i \in 4 .. n - 3
       PROVE  ItemAt(path, k, i) <=> i = s
  <2>1. ItemAt(path, k, i) <=> path[i] = "/" /\ path[i + 1] = "data" /\ path[i + 2] = "/"
    BY <1>1, DataInMiddle DEF ItemAt
  <2>2. i = s => ItemAt(path, k, i)
    BY <1>1, <1>9, <2>1
  <2>3. ASSUME path[i] = "/", path[i + 1] = "data", path[i + 2] = "/" PROVE i = s
    <3>1. i \notin 3 .. 2 + Len(e) /\ i \notin s + 3 .. n /\ i + 2 \notin s + 3 .. n
      BY <1>2, <1>6, <2>3
    <3>2. i # s + 1
      BY <1>1, <1>9, <2>3
    <3>3. QED
      BY <1>1, <1>2, <1>4, <3>1, <3>2
  <2>4. QED
    BY <2>1, <2>2, <2>3
<1>11. ItemCallsAt(path, k, s) = {Call("data-item", k, Decode(e), Decode(f))}
  BY <1>3, <1>5, <1>9 DEF ItemCallsAt
<1> HIDE DEF s
<1>12. \A c : c \in KindCalls(path, k) <=> c = Call("data-item", k, Decode(e), Decode(f))
  BY <1>7, <1>8, <1>9, <1>10, <1>11, KindCallsSplit
<1>13. QED
  BY <1>3, <1>12

(***************************************************************************)
(* From a call back to its path.                                           *)
(***************************************************************************)

\* What a parameter takes is a segment, and the id is that segment decoded.
LEMMA ParamIsDecoded ==
    ASSUME NEW path \in Text, NEW first \in Nat \ {0}, NEW last \in Int, last <= Len(path),
           NEW id \in Param(path, first, last)
    PROVE  \E e : Segment(e) /\ At(path, first, e) /\ last = first + Len(e) - 1 /\ id = Decode(e)
<1>1. PICK e : Segment(e) /\ At(path, first, e) /\ last = first + Len(e) - 1
  BY ParamIsSegment
<1>2. Param(path, first, last) = {Decode(e)}
  BY <1>1, ParamIs
<1>3. QED
  BY <1>1, <1>2

\* What a text behind the version prefix is, given the call it is routed to.
Shape(path, c, k) ==
    \/ path = <<Plural[k]>> /\ c = Call("list", k, <<>>, <<>>)
    \/ \E e : EntityPath(path, k, e) /\ c = Call("capabilities", k, Decode(e), <<>>)
    \/ \E e, r : RoutePath(path, k, e, r) /\ c = Call(r, k, Decode(e), <<>>)
    \/ \E e, f : ItemPath(path, k, e, f) /\ c = Call("data-item", k, Decode(e), Decode(f))

\* The shape of the path of a call, below a kind.
LEMMA KindShape ==
    ASSUME NEW path \in Text, NEW k \in Kinds, NEW c \in KindCalls(path, k),
           Len(path) >= 2, path[1] = Plural[k], path[2] = "/"
    PROVE  Shape(path, c, k)
<1>1. Len(path) \in Nat
  BY TextSymbols
<1>2. CASE c \in CapabilityCalls(path, k)
  <2>1. PICK id \in Param(path, 3, Len(path)) : c = Call("capabilities", k, id, <<>>)
    BY <1>2 DEF CapabilityCalls
  <2>2. 3 \in Nat \ {0} /\ Len(path) \in Int /\ Len(path) <= Len(path)
    BY <1>1
  <2>3. PICK e : /\ Segment(e) /\ At(path, 3, e) /\ Len(path) = 3 + Len(e) - 1
                 /\ id = Decode(e)
    BY <2>2, ParamIsDecoded, Zenon
  <2>4. Len(e) \in Nat
    BY <2>3, TextSymbols DEF Segment
  <2>5. EntityPath(path, k, e)
    BY <1>1, <2>3, <2>4 DEF EntityPath, Names
  <2>6. QED
    BY <2>1, <2>3, <2>5 DEF Shape
<1>3. CASE c \in RouteCalls(path, k)
  <2>1. PICK r \in {r \in SubRoutes[k] : RouteOf(path, k, r)}, id \in Param(path, 3, Len(path) - 2) :
           c = Call(r, k, id, <<>>)
    BY <1>3 DEF RouteCalls
  <2>2. 3 \in Nat \ {0} /\ Len(path) - 2 \in Int /\ Len(path) - 2 <= Len(path)
    BY <1>1
  <2>3. PICK e : /\ Segment(e) /\ At(path, 3, e) /\ Len(path) - 2 = 3 + Len(e) - 1
                 /\ id = Decode(e)
    BY <2>2, ParamIsDecoded, Zenon
  <2>4. Len(e) \in Nat
    BY <2>3, TextSymbols DEF Segment
  <2>5. r \in SubRoutes[k] /\ path[Len(path) - 1] = "/" /\ path[Len(path)] = r
    BY <2>1, RouteAt
  <2>6. Len(path) = 4 + Len(e) /\ Len(path) - 1 = 3 + Len(e)
    BY <1>1, <2>3, <2>4
  <2>7. RoutePath(path, k, e, r)
    BY <2>3, <2>5, <2>6 DEF RoutePath, Names
  <2>8. QED
    BY <2>1, <2>3, <2>7 DEF Shape
<1>4. CASE \E i \in 4 .. Len(path) - 3 : ItemAt(path, k, i) /\ c \in ItemCallsAt(path, k, i)
  <2>1. PICK i \in 4 .. Len(path) - 3 : ItemAt(path, k, i) /\ c \in ItemCallsAt(path, k, i)
    BY <1>4
  <2>2. PICK id \in Param(path, 3, i - 1), item \in Param(path, i + 3, Len(path)) :
           c = Call("data-item", k, id, item)
    BY <2>1 DEF ItemCallsAt
  <2>3. /\ 3 \in Nat \ {0} /\ i - 1 \in Int /\ i - 1 <= Len(path)
        /\ i + 3 \in Nat \ {0} /\ Len(path) \in Int /\ Len(path) <= Len(path)
    BY <1>1
  <2>4. PICK e : /\ Segment(e) /\ At(path, 3, e) /\ i - 1 = 3 + Len(e) - 1
                 /\ id = Decode(e)
    BY <2>3, ParamIsDecoded, Zenon
  <2>5. PICK f : /\ Segment(f) /\ At(path, i + 3, f) /\ Len(path) = i + 3 + Len(f) - 1
                 /\ item = Decode(f)
    BY <2>3, ParamIsDecoded, Zenon
  <2>6. Len(e) \in Nat /\ Len(f) \in Nat
    BY <2>4, <2>5, TextSymbols DEF Segment
  <2>7. /\ i = 3 + Len(e) /\ i + 1 = 4 + Len(e) /\ i + 2 = 5 + Len(e) /\ i + 3 = 6 + Len(e)
        /\ Len(path) = 5 + Len(e) + Len(f)
    BY <1>1, <2>4, <2>5, <2>6
  <2>8. path[i] = "/" /\ path[i + 1] = "data" /\ path[i + 2] = "/" /\ "data" \in SubRoutes[k]
    BY <2>1, DataInMiddle DEF ItemAt
  <2>9. ItemPath(path, k, e, f)
    BY <2>4, <2>5, <2>7, <2>8 DEF ItemPath, Names
  <2>10. QED
    BY <2>2, <2>4, <2>5, <2>9 DEF Shape
<1>5. QED
  BY <1>2, <1>3, <1>4, KindCallsSplit

\* The shape of the path of a call: nothing else leads to it.
LEMMA V1Shape ==
    ASSUME NEW path \in Text, NEW c \in V1Calls(path)
    PROVE  \E k \in Kinds : Shape(path, c, k)
<1> DEFINE Of(l) == IF path = <<Plural[l]>> THEN {Call("list", l, <<>>, <<>>)}
                    ELSE IF Seqs!IsPrefix(<<Plural[l], "/">>, path) THEN KindCalls(path, l) ELSE {}
<1>1. PICK k \in Kinds : c \in Of(k)
  BY DEF V1Calls
<1>2. CASE path = <<Plural[k]>>
  BY <1>1, <1>2 DEF Shape
<1>3. CASE path # <<Plural[k]>>
  <2>1. Seqs!IsPrefix(<<Plural[k], "/">>, path) /\ c \in KindCalls(path, k)
    BY <1>1, <1>3
  <2>2. QED
    BY <2>1, PluralPrefix, KindShape
<1>4. QED
  BY <1>2, <1>3

(***************************************************************************)
(* The entity routes: hrefs and links can be followed.                     *)
(***************************************************************************)

\* The three kinds of live entities.
LEMMA LiveByKind ==
    ASSUME NEW e \in Live
    PROVE  \/ \E c \in DOMAIN components : e = ComponentRef(c)
           \/ \E a \in DOMAIN apps : e = AppRef(a)
           \/ \E r \in areas : e = AreaRef(r)
  BY DEF Live

\* Every live entity has capabilities.
LEMMA LiveEntitiesAnswer ==
    ASSUME NEW e \in Live
    PROVE  Get(Href(e), {}).status = 200
<1>1. Get(Href(e), {}) = Capabilities(e)
  BY DEF Get, Href, Uri
<1>2. CASE \E c \in DOMAIN components : e = ComponentRef(c)
  <2>1. PICK c \in DOMAIN components : e = ComponentRef(c)
    BY <1>2
  <2>2. Capabilities(e) = ComponentCapabilities(c)
    BY <2>1 DEF Capabilities, ComponentRef
  <2>3. QED
    BY <1>1, <2>2 DEF ComponentCapabilities, Ok
<1>3. CASE \E a \in DOMAIN apps : e = AppRef(a)
  <2>1. PICK a \in DOMAIN apps : e = AppRef(a)
    BY <1>3
  <2>2. Capabilities(e) = AppCapabilities(a)
    BY <2>1 DEF Capabilities, AppRef
  <2>3. QED
    BY <1>1, <2>2 DEF AppCapabilities, Ok
<1>4. CASE \E r \in areas : e = AreaRef(r)
  <2>1. PICK r \in areas : e = AreaRef(r)
    BY <1>4
  <2>2. Capabilities(e) = AreaCapabilities(r)
    BY <2>1 DEF Capabilities, AreaRef
  <2>3. QED
    BY <1>1, <2>2 DEF AreaCapabilities, Ok
<1>5. QED
  BY <1>2, <1>3, <1>4, LiveByKind

\* An answer tells of live entities only.
TellsOfLive(answer) == answer.refs \subseteq {Href(e) : e \in Live}

\* A collection of live entities tells of them only, with any filter.
LEMMA CollectionTellsOfLive ==
    ASSUME NEW entities, entities \subseteq Live, NEW query
    PROVE  TellsOfLive(Collection(entities, query))
  BY DEF TellsOfLive, Collection, Tagged, Ok

\* An error refers to nothing.
LEMMA ErrorTellsOfNobody == TellsOfLive(EntityNotFound)
  BY DEF TellsOfLive, EntityNotFound, ErrorResponse, Failure

\* However stale the rows are, no collection reports what is not live.
LEMMA CollectionsTellOfLive ==
    ASSUME NEW query
    PROVE  /\ \A kind : TellsOfLive(EntityList(kind, query))
           /\ \A c : TellsOfLive(ComponentHosts(c, query))
           /\ \A c : TellsOfLive(ComponentBelongsTo(c, query))
           /\ \A a : TellsOfLive(AppIsLocatedOn(a, query))
           /\ \A a : TellsOfLive(AppBelongsTo(a, query))
           /\ \A r : TellsOfLive(AreaContains(r, query))
<1>1. ASSUME NEW kind PROVE TellsOfLive(EntityList(kind, query))
  BY CollectionTellsOfLive DEF EntityList
<1>2. ASSUME NEW c PROVE TellsOfLive(ComponentHosts(c, query))
  <2>1. {AppRef(a) : a \in AppsOfComponent(c)} \subseteq Live
    BY DEF AppsOfComponent, Live
  <2>2. QED
    BY <2>1, CollectionTellsOfLive, ErrorTellsOfNobody DEF ComponentHosts
<1>3. ASSUME NEW c PROVE TellsOfLive(ComponentBelongsTo(c, query))
  <2>1. {AreaRef(r) : r \in AreaOfComponent(c)} \subseteq Live
    BY DEF AreaOfComponent, Live
  <2>2. QED
    BY <2>1, CollectionTellsOfLive, ErrorTellsOfNobody DEF ComponentBelongsTo
<1>4. ASSUME NEW a PROVE TellsOfLive(AppIsLocatedOn(a, query))
  <2>1. TellsOfLive(Ok({Href(ComponentRef(c)) : c \in ComponentOfApp(a)}))
    BY DEF TellsOfLive, Ok, ComponentOfApp, Live
  <2>2. QED
    BY <2>1, ErrorTellsOfNobody DEF AppIsLocatedOn
<1>5. ASSUME NEW a PROVE TellsOfLive(AppBelongsTo(a, query))
  <2>1. {AreaRef(r) : r \in AreaOfApp(a)} \subseteq Live
    BY DEF AreaOfApp, Live
  <2>2. QED
    BY <2>1, CollectionTellsOfLive, ErrorTellsOfNobody DEF AppBelongsTo
<1>6. ASSUME NEW r PROVE TellsOfLive(AreaContains(r, query))
  <2>1. {ComponentRef(c) : c \in ComponentsOfArea(r)} \cup {AppRef(a) : a \in AppsOfArea(r)}
           \subseteq Live
    BY DEF ComponentsOfArea, AppsOfArea, Live
  <2>2. QED
    BY <2>1, CollectionTellsOfLive, ErrorTellsOfNobody DEF AreaContains
<1>7. QED
  BY <1>1, <1>2, <1>3, <1>4, <1>5, <1>6

\* No href of a collection leads nowhere, in any state of the registry.
THEOREM HrefsHold == HrefsCanBeFollowed
<1> SUFFICES ASSUME NEW query \in Queries, NEW uri \in Listed(query)
             PROVE  Get(uri, {}).status = 200
  BY DEF HrefsCanBeFollowed
<1>1. uri \in {Href(e) : e \in Live}
  BY CollectionsTellOfLive DEF Listed, TellsOfLive
<1>2. QED
  BY <1>1, LiveEntitiesAnswer

\* HrefsCanBeFollowed holds in every state of the registry: what a collection tells of
\* can be asked for.
THEOREM HrefsCorrect == StateSpec => []HrefsCanBeFollowed
  BY HrefsHold, PTL

\* What a link leads to, by its route.
LEMMA AreaLinksAnswer ==
    ASSUME NEW e \in Live, e.kind \in {"component", "app"},
           NEW area, NEW uri \in AreaLink(e, area)
    PROVE  Get(uri, {}).status = 200
<1>1. uri = Uri("belongs-to", e)
  BY DEF AreaLink
<1>2. Get(uri, {}) = BelongsTo(e, {})
  BY <1>1 DEF Get, Uri
<1>3. CASE \E c \in DOMAIN components : e = ComponentRef(c)
  <2>1. PICK c \in DOMAIN components : e = ComponentRef(c)
    BY <1>3
  <2>2. BelongsTo(e, {}) = ComponentBelongsTo(c, {})
    BY <2>1 DEF BelongsTo, ComponentRef
  <2>3. QED
    BY <1>2, <2>2 DEF ComponentBelongsTo, Collection, Ok
<1>4. CASE \E a \in DOMAIN apps : e = AppRef(a)
  <2>1. PICK a \in DOMAIN apps : e = AppRef(a)
    BY <1>4
  <2>2. BelongsTo(e, {}) = AppBelongsTo(a, {})
    BY <2>1 DEF BelongsTo, AppRef
  <2>3. QED
    BY <1>2, <2>2 DEF AppBelongsTo, Collection, Ok
<1>5. CASE \E r \in areas : e = AreaRef(r)
  BY <1>5 DEF AreaRef
<1>6. QED
  BY <1>3, <1>4, <1>5, LiveByKind

\* The link to the data of an entity.
LEMMA DataLinksAnswer ==
    ASSUME NEW e \in Live, NEW uri \in DataLink(e)
    PROVE  Get(uri, {}).status = 200
<1>1. uri = Uri("data", e) /\ e \in HasData
  BY DEF DataLink
<1>2. Get(uri, {}) = DataCollection(e, {})
  BY <1>1 DEF Get, Uri
<1>3. DataCollection(e, {}) = Ok({})
  BY <1>1 DEF DataCollection, DataAnswer
<1>4. QED
  BY <1>2, <1>3 DEF Ok

\* The links of a component.
LEMMA ComponentLinksAnswer ==
    ASSUME NEW c \in DOMAIN components, NEW uri \in Capabilities(ComponentRef(c)).refs
    PROVE  Get(uri, {}).status = 200
<1> DEFINE e == ComponentRef(c)
<1>1. e \in Live /\ e.kind = "component" /\ e.id = c
  BY DEF Live, ComponentRef
<1>2. Capabilities(e) = ComponentCapabilities(c)
  BY <1>1 DEF Capabilities
<1>3. \/ uri = Uri("hosts", e)
      \/ uri \in AreaLink(e, components[c])
      \/ uri \in DataLink(e)
  BY <1>2 DEF ComponentCapabilities, Ok
<1>4. CASE uri = Uri("hosts", e)
  <2>1. Get(uri, {}) = ComponentHosts(c, {})
    BY <1>1, <1>4 DEF Get, Uri
  <2>2. QED
    BY <2>1 DEF ComponentHosts, Collection, Ok
<1>5. QED
  BY <1>1, <1>3, <1>4, AreaLinksAnswer, DataLinksAnswer

\* The host of an app is live, or both ways to it answer that it is not.
LEMMA AppLinksAnswer ==
    ASSUME NEW a \in DOMAIN apps, NEW uri \in Capabilities(AppRef(a)).refs
    PROVE  \/ Get(uri, {}).status = 200
           \/ /\ uri = Href(ComponentRef(apps[a].host))
              /\ AppIsLocatedOn(a, {}) = EntityNotFound
<1> DEFINE e == AppRef(a)
<1>1. e \in Live /\ e.kind = "app" /\ e.id = a
  BY DEF Live, AppRef
<1>2. Capabilities(e) = AppCapabilities(a)
  BY <1>1 DEF Capabilities
<1>3. \/ uri = Href(ComponentRef(apps[a].host))
      \/ uri \in AreaLink(e, apps[a].area)
      \/ uri \in DataLink(e)
  BY <1>2 DEF AppCapabilities, Ok
<1>4. CASE uri = Href(ComponentRef(apps[a].host))
  <2>1. CASE apps[a].host \in DOMAIN components
    <3>1. ComponentRef(apps[a].host) \in Live
      BY <2>1 DEF Live
    <3>2. QED
      BY <1>4, <3>1, LiveEntitiesAnswer
  <2>2. CASE apps[a].host \notin DOMAIN components
    BY <1>4, <2>2 DEF AppIsLocatedOn, ComponentOfApp
  <2>3. QED
    BY <2>1, <2>2
<1>5. QED
  BY <1>1, <1>3, <1>4, AreaLinksAnswer, DataLinksAnswer

\* The links of an area.
LEMMA AreaLinksOut ==
    ASSUME NEW r \in areas, NEW uri \in Capabilities(AreaRef(r)).refs
    PROVE  Get(uri, {}).status = 200
<1>1. Capabilities(AreaRef(r)) = AreaCapabilities(r)
  BY DEF Capabilities, AreaRef
<1>2. uri = Uri("contains", AreaRef(r))
  BY <1>1 DEF AreaCapabilities, Ok
<1>3. Get(uri, {}) = AreaContains(r, {})
  BY <1>2 DEF Get, Uri, AreaRef
<1>4. QED
  BY <1>3 DEF AreaContains, Collection, Ok

\* The links of every capabilities object can be followed, but for the one of an app
\* to a component that is not live.
THEOREM LinksHold == LinksCanBeFollowed
<1> SUFFICES ASSUME NEW e \in Live, NEW uri \in Capabilities(e).refs
             PROVE  \/ Get(uri, {}).status = 200
                    \/ /\ e.kind = "app"
                       /\ uri = Href(ComponentRef(apps[e.id].host))
                       /\ AppIsLocatedOn(e.id, {}) = EntityNotFound
  BY DEF LinksCanBeFollowed
<1>1. CASE \E c \in DOMAIN components : e = ComponentRef(c)
  BY <1>1, ComponentLinksAnswer
<1>2. CASE \E a \in DOMAIN apps : e = AppRef(a)
  <2>1. PICK a \in DOMAIN apps : e = AppRef(a)
    BY <1>2
  <2>2. e.kind = "app" /\ e.id = a
    BY <2>1 DEF AppRef
  <2>3. QED
    BY <2>1, <2>2, AppLinksAnswer
<1>3. CASE \E r \in areas : e = AreaRef(r)
  BY <1>3, AreaLinksOut
<1>4. QED
  BY <1>1, <1>2, <1>3, LiveByKind

\* LinksCanBeFollowed holds in every state of the registry: a link of a capabilities object
\* leads somewhere, but for an app on a component that is not live.
THEOREM LinksCorrect == StateSpec => []LinksCanBeFollowed
  BY LinksHold, PTL

(***************************************************************************)
(* The paths that the client writes.                                       *)
(***************************************************************************)

\* Both ways to write an id: one segment, which reads back as the id.
LEMMA EncodedIds ==
    ASSUME NEW id \in Text
    PROVE  /\ ClientEncode(id) \in Text /\ EncodePathSegment(id) \in Text
           /\ \A x \in {"/", "?"} : Avoids(ClientEncode(id), x) /\ Avoids(EncodePathSegment(id), x)
           /\ Decode(ClientEncode(id)) = id /\ Decode(EncodePathSegment(id)) = id
           /\ id # <<>> => Segment(ClientEncode(id)) /\ Segment(EncodePathSegment(id))
           /\ id = <<>> => ClientEncode(id) = <<>> /\ EncodePathSegment(id) = <<>>
<1>1. ReadsBack(id, NonAlphanumeric) /\ ReadsBack(id, PathSegmentEncodeSet)
  BY EncodeSets, EncodedTextsReadBack
<1>2. ASSUME NEW text \in Text, InOnePiece(text)
      PROVE  \A x \in {"/", "?"} : Avoids(text, x)
  BY <1>2, TextSymbols DEF InOnePiece, Avoids
<1>3. ClientEncode(id) \in Text /\ EncodePathSegment(id) \in Text
  BY <1>1 DEF ReadsBack, ClientEncode, EncodePathSegment
<1>4. \A x \in {"/", "?"} : Avoids(ClientEncode(id), x) /\ Avoids(EncodePathSegment(id), x)
  BY <1>1, <1>2 DEF ReadsBack, ClientEncode, EncodePathSegment
<1>5. Decode(ClientEncode(id)) = id /\ Decode(EncodePathSegment(id)) = id
  BY <1>1 DEF ReadsBack, ClientEncode, EncodePathSegment
<1>6. id # <<>> => ClientEncode(id) # <<>> /\ EncodePathSegment(id) # <<>>
  BY <1>1 DEF ReadsBack, ClientEncode, EncodePathSegment
<1>7. id = <<>> => ClientEncode(id) = <<>> /\ EncodePathSegment(id) = <<>>
  BY EmptyTexts DEF ClientEncode, EncodePathSegment
<1>8. QED
  BY <1>3, <1>4, <1>5, <1>6, <1>7 DEF Segment

\* Three symbols are a text.
LEMMA TripleIsText ==
    ASSUME NEW x \in Symbols, NEW y \in Symbols, NEW z \in Symbols
    PROVE  /\ <<x, y, z>> \in Text /\ Len(<<x, y, z>>) = 3
           /\ <<x, y, z>>[1] = x /\ <<x, y, z>>[2] = y /\ <<x, y, z>>[3] = z
  BY DEF Text

\* A text behind three symbols.
LEMMA BehindThree ==
    ASSUME NEW x \in Symbols, NEW y \in Symbols, NEW z \in Symbols, NEW e \in Text
    PROVE  /\ <<x, y, z>> \o e \in Text /\ Len(<<x, y, z>> \o e) = 3 + Len(e)
           /\ (<<x, y, z>> \o e)[1] = x /\ (<<x, y, z>> \o e)[2] = y
           /\ (<<x, y, z>> \o e)[3] = z
           /\ \A i \in 1 .. Len(e) : (<<x, y, z>> \o e)[3 + i] = e[i]
<1> DEFINE t == <<x, y, z>>
<1>1. t \in Text /\ Len(t) = 3 /\ t[1] = x /\ t[2] = y /\ t[3] = z
  BY TripleIsText
<1> HIDE DEF t
<1>2. /\ t \o e \in Text /\ Len(t \o e) = Len(t) + Len(e)
      /\ Len(t) \in Nat /\ Len(e) \in Nat
      /\ \A i \in 1 .. Len(t) : (t \o e)[i] = t[i]
      /\ \A i \in 1 .. Len(e) : (t \o e)[Len(t) + i] = e[i]
  BY <1>1, TextConcat
<1>3. (t \o e)[1] = x /\ (t \o e)[2] = y /\ (t \o e)[3] = z
  <2>1. 1 \in 1 .. Len(t) /\ 2 \in 1 .. Len(t) /\ 3 \in 1 .. Len(t)
    BY <1>1
  <2>2. QED
    BY <1>1, <1>2, <2>1
<1>4. Len(t \o e) = 3 + Len(e) /\ \A i \in 1 .. Len(e) : (t \o e)[3 + i] = e[i]
  BY <1>1, <1>2
<1>5. QED
  BY <1>2, <1>3, <1>4 DEF t

\* The path of an entity behind the version prefix.
EntityOn(k, e) == <<"/", Plural[k], "/">> \o e

\* The path of an entity, symbol by symbol.
LEMMA EntityOnIs ==
    ASSUME NEW k \in Kinds, NEW e \in Text
    PROVE  /\ EntityOn(k, e) \in Text /\ Len(EntityOn(k, e)) = 3 + Len(e)
           /\ EntityOn(k, e)[1] = "/" /\ EntityOn(k, e)[2] = Plural[k] /\ EntityOn(k, e)[3] = "/"
           /\ \A i \in 1 .. Len(e) : EntityOn(k, e)[3 + i] = e[i]
  BY RouteNames, BehindThree DEF EntityOn

\* A path to a route of an entity, symbol by symbol.
IsRouteOn(p, k, e, r) ==
    /\ p \in Text /\ Len(p) = 5 + Len(e)
    /\ p[1] = "/" /\ p[2] = Plural[k] /\ p[3] = "/"
    /\ \A i \in 1 .. Len(e) : p[3 + i] = e[i]
    /\ p[4 + Len(e)] = "/" /\ p[5 + Len(e)] = r

\* The path of a route of an entity.
LEMMA RouteOnIs ==
    ASSUME NEW k \in Kinds, NEW e \in Text, NEW r \in Symbols
    PROVE  IsRouteOn(EntityOn(k, e) \o <<"/", r>>, k, e, r)
<1> SUFFICES ASSUME NEW p, p = EntityOn(k, e) \o <<"/", r>>
             PROVE  IsRouteOn(p, k, e, r)
  OBVIOUS
<1> DEFINE entity == EntityOn(k, e)
<1>1. /\ entity \in Text /\ Len(entity) = 3 + Len(e)
      /\ entity[1] = "/" /\ entity[2] = Plural[k] /\ entity[3] = "/"
      /\ \A i \in 1 .. Len(e) : entity[3 + i] = e[i]
  BY EntityOnIs
<1> HIDE DEF entity
<1>2. /\ entity \o <<"/", r>> \in Text /\ Len(entity \o <<"/", r>>) = Len(entity) + 2
      /\ (entity \o <<"/", r>>)[Len(entity) + 1] = "/"
      /\ (entity \o <<"/", r>>)[Len(entity) + 2] = r
      /\ \A i \in 1 .. Len(entity) : (entity \o <<"/", r>>)[i] = entity[i]
  BY <1>1, SegmentBehind
<1>3. p = entity \o <<"/", r>> /\ Len(e) \in Nat
  BY TextSymbols DEF entity
<1>4. /\ p \in Text /\ Len(p) = 5 + Len(e) /\ p[4 + Len(e)] = "/" /\ p[5 + Len(e)] = r
  <2>1. p \in Text /\ Len(p) = Len(entity) + 2
    BY <1>2, <1>3, Zenon
  <2>2. p[Len(entity) + 1] = "/" /\ p[Len(entity) + 2] = r
    BY <1>2, <1>3, Zenon
  <2>3. Len(entity) + 1 = 4 + Len(e) /\ Len(entity) + 2 = 5 + Len(e)
    BY <1>1, <1>3
  <2>4. QED
    BY <2>1, <2>2, <2>3
<1>5. \A i \in 1 .. 3 + Len(e) : p[i] = entity[i]
  BY <1>1, <1>2, <1>3
<1>6. /\ 1 \in 1 .. 3 + Len(e) /\ 2 \in 1 .. 3 + Len(e) /\ 3 \in 1 .. 3 + Len(e)
      /\ \A i \in 1 .. Len(e) : 3 + i \in 1 .. 3 + Len(e)
  BY <1>3
<1>7. QED
  BY <1>1, <1>4, <1>5, <1>6 DEF IsRouteOn

\* A path to a data resource of an entity, symbol by symbol.
IsItemOn(p, k, e, f) ==
    /\ p \in Text /\ Len(p) = 6 + Len(e) + Len(f)
    /\ p[1] = "/" /\ p[2] = Plural[k] /\ p[3] = "/"
    /\ \A i \in 1 .. Len(e) : p[3 + i] = e[i]
    /\ p[4 + Len(e)] = "/" /\ p[5 + Len(e)] = "data" /\ p[6 + Len(e)] = "/"
    /\ \A i \in 1 .. Len(f) : p[6 + Len(e) + i] = f[i]

\* The path of a data resource.
LEMMA ItemOnIs ==
    ASSUME NEW k \in Kinds, NEW e \in Text, NEW f \in Text
    PROVE  IsItemOn(EntityOn(k, e) \o <<"/", "data", "/">> \o f, k, e, f)
<1> SUFFICES ASSUME NEW p, p = EntityOn(k, e) \o <<"/", "data", "/">> \o f
             PROVE  IsItemOn(p, k, e, f)
  OBVIOUS
<1> DEFINE entity == EntityOn(k, e)
           data   == <<"/", "data", "/">>
           prefix == entity \o data
<1>1. /\ entity \in Text /\ Len(entity) = 3 + Len(e)
      /\ entity[1] = "/" /\ entity[2] = Plural[k] /\ entity[3] = "/"
      /\ \A i \in 1 .. Len(e) : entity[3 + i] = e[i]
  BY EntityOnIs
<1>2. data \in Text /\ Len(data) = 3 /\ data[1] = "/" /\ data[2] = "data" /\ data[3] = "/"
  BY RouteNames, TripleIsText
<1>3. p = prefix \o f /\ Len(e) \in Nat /\ Len(f) \in Nat
  BY TextSymbols
<1> HIDE DEF entity, data, prefix
<1>4. /\ prefix \in Text /\ Len(prefix) = Len(entity) + Len(data)
      /\ \A i \in 1 .. Len(entity) : prefix[i] = entity[i]
      /\ \A i \in 1 .. Len(data) : prefix[Len(entity) + i] = data[i]
  BY <1>1, <1>2, TextConcat DEF prefix
<1>5. /\ p \in Text /\ Len(p) = Len(prefix) + Len(f)
      /\ \A i \in 1 .. Len(prefix) : p[i] = prefix[i]
      /\ \A i \in 1 .. Len(f) : p[Len(prefix) + i] = f[i]
  <2>1. /\ prefix \o f \in Text /\ Len(prefix \o f) = Len(prefix) + Len(f)
        /\ Len(prefix) \in Nat /\ Len(f) \in Nat
        /\ \A i \in 1 .. Len(prefix) : (prefix \o f)[i] = prefix[i]
        /\ \A i \in 1 .. Len(f) : (prefix \o f)[Len(prefix) + i] = f[i]
    BY <1>4, TextConcat, Zenon
  <2>2. QED
    BY <1>3, <2>1, Zenon
<1>6. Len(prefix) = 6 + Len(e)
  BY <1>1, <1>2, <1>3, <1>4
<1>7. Len(p) = 6 + Len(e) + Len(f) /\ \A i \in 1 .. Len(f) : p[6 + Len(e) + i] = f[i]
  BY <1>5, <1>6
<1>8. \A i \in 1 .. 3 + Len(e) : p[i] = entity[i]
  BY <1>1, <1>3, <1>4, <1>5, <1>6
<1>9. /\ 1 \in 1 .. 3 + Len(e) /\ 2 \in 1 .. 3 + Len(e) /\ 3 \in 1 .. 3 + Len(e)
      /\ \A i \in 1 .. Len(e) : 3 + i \in 1 .. 3 + Len(e)
  BY <1>3
<1>10. p[4 + Len(e)] = "/" /\ p[5 + Len(e)] = "data" /\ p[6 + Len(e)] = "/"
  <2>1. 1 \in 1 .. Len(data) /\ 2 \in 1 .. Len(data) /\ 3 \in 1 .. Len(data)
    BY <1>2
  <2>2. /\ prefix[Len(entity) + 1] = "/" /\ prefix[Len(entity) + 2] = "data"
        /\ prefix[Len(entity) + 3] = "/"
    BY <1>2, <1>4, <2>1
  <2>3. /\ Len(entity) + 1 = 4 + Len(e) /\ Len(entity) + 2 = 5 + Len(e)
        /\ Len(entity) + 3 = 6 + Len(e)
        /\ {4 + Len(e), 5 + Len(e), 6 + Len(e)} \subseteq 1 .. Len(prefix)
    BY <1>1, <1>3, <1>6
  <2>4. QED
    BY <1>5, <2>2, <2>3
<1>11. QED
  BY <1>1, <1>5, <1>7, <1>8, <1>9, <1>10 DEF IsItemOn

\* The paths of collections and of data resources.
LEMMA MethodPathIs ==
    ASSUME NEW k, NEW id, NEW item
    PROVE  /\ MethodPath(Call("list", k, id, item)) = <<"/", Plural[k]>>
           /\ MethodPath(Call("data-item", k, id, item))
                 = EntityOn(k, ClientEncode(id)) \o <<"/", "data", "/">> \o ClientEncode(item)
  BY DEF MethodPath, Call, EntityOn

\* The paths of the other routes.
LEMMA RouteMethodPath ==
    ASSUME NEW k, NEW r, r \notin {"list", "data-item"}, NEW id, NEW item
    PROVE  MethodPath(Call(r, k, id, item)) = EntityOn(k, ClientEncode(id)) \o <<"/", r>>
  BY DEF MethodPath, Call, EntityOn

(***************************************************************************)
(* A path behind a base URI.                                               *)
(***************************************************************************)

Query(query) == query = <<>> \/ query = <<"?", "include-schema=true">>

\* A query is a text that begins with "?".
LEMMA QueryFacts ==
    ASSUME NEW query, Query(query)
    PROVE  query \in Text /\ Len(query) \in Nat /\ (Len(query) > 0 => query[1] = "?")
<1>1. CASE query = <<>>
  BY <1>1, EmptyTexts
<1>2. CASE query = <<"?", "include-schema=true">>
  <2>1. "?" \in Symbols /\ "include-schema=true" \in Symbols
    BY RouteNames DEF Symbols
  <2>2. QED
    BY <1>2, <2>1, PairIsText
<1>3. QED
  BY <1>1, <1>2 DEF Query

\* A path that is appended to a base URI, and a query or nothing behind it.
LEMMA AppendedPath ==
    ASSUME NEW base \in Text, base # <<>>, Avoids(base, "?"),
           NEW p \in Text, Avoids(p, "?"), NEW query, Query(query)
    PROVE  /\ Path(base \o p \o query) \in Text
           /\ Len(Path(base \o p \o query)) = Len(base) - 1 + Len(p)
           /\ \A i \in 1 .. Len(base) - 1 : Path(base \o p \o query)[i] = base[i + 1]
           /\ \A i \in 1 .. Len(p) : Path(base \o p \o query)[Len(base) - 1 + i] = p[i]
<1> DEFINE whole == base \o p
           uri   == whole \o query
           path  == SubSeq(whole, 2, Len(whole))
           b     == Len(base)
           n     == b - 1 + Len(p)
<1>1. /\ whole \in Text /\ Len(whole) = b + Len(p)
      /\ b \in Nat /\ Len(p) \in Nat
      /\ \A i \in 1 .. b : whole[i] = base[i]
      /\ \A i \in 1 .. Len(p) : whole[b + i] = p[i]
  BY TextConcat
<1>2. b >= 1
  BY <1>1, EmptySeq DEF Text
<1> HIDE DEF whole
<1>3. /\ uri \in Text /\ Len(uri) = Len(whole) + Len(query)
      /\ \A i \in 1 .. Len(whole) : uri[i] = whole[i]
      /\ \A i \in 1 .. Len(query) : uri[Len(whole) + i] = query[i]
      /\ Len(query) \in Nat
  <2>1. query \in Text
    BY QueryFacts
  <2>2. QED
    BY <1>1, <2>1, TextConcat
<1> HIDE DEF uri
<1>4. path \in Text /\ Len(path) = n /\ \A i \in 1 .. n : path[i] = whole[i + 1]
  <2>1. \A i \in 2 .. Len(whole) : whole[i] \in Symbols
    BY <1>1, TextSymbols
  <2>2. /\ path \in Seq(Symbols)
        /\ Len(path) = IF 2 <= Len(whole) THEN Len(whole) - 2 + 1 ELSE 0
        /\ \A i \in 1 .. Len(whole) - 2 + 1 : path[i] = whole[2 + i - 1]
    BY <1>1, <2>1, SubSeqProperties
  <2> HIDE DEF path
  <2>3. Len(path) = n /\ Len(whole) - 2 + 1 = n
    BY <1>1, <1>2, <2>2
  <2>4. \A i \in 1 .. n : 2 + i - 1 = i + 1
    BY <1>1
  <2>5. QED
    BY <2>2, <2>3, <2>4 DEF Text
<1> HIDE DEF path
<1>5. \A i \in 1 .. b - 1 : path[i] = base[i + 1]
  BY <1>1, <1>4
<1>6. \A i \in 1 .. Len(p) : path[b - 1 + i] = p[i]
  <2> SUFFICES ASSUME NEW i \in 1 .. Len(p) PROVE path[b - 1 + i] = p[i]
    OBVIOUS
  <2>1. b - 1 + i \in 1 .. n /\ (b - 1 + i) + 1 = b + i
    BY <1>1, <1>2
  <2>2. path[b - 1 + i] = whole[(b - 1 + i) + 1]
    BY <1>4, <2>1
  <2>3. QED
    BY <1>1, <2>1, <2>2
<1>7. Avoids(path, "?")
  <2> SUFFICES ASSUME NEW i \in 1 .. n PROVE path[i] # "?"
    BY <1>4 DEF Avoids
  <2>1. CASE i <= b - 1
    BY <1>1, <1>5, <2>1 DEF Avoids
  <2>2. CASE i > b - 1
    <3>1. i - (b - 1) \in 1 .. Len(p) /\ b - 1 + (i - (b - 1)) = i
      BY <1>1, <2>2
    <3>2. QED
      BY <1>6, <3>1 DEF Avoids
  <2>3. QED
    BY <1>1, <2>1, <2>2
<1>8. Path(uri) = path
  <2>1. uri # <<>> /\ Len(uri) >= Len(path) + 1
    BY <1>1, <1>2, <1>3, <1>4, EmptySeq
  <2>2. uri[1] # "?"
    BY <1>1, <1>2, <1>3 DEF Avoids
  <2>3. \A i \in 1 .. Len(path) : uri[i + 1] = path[i]
    BY <1>1, <1>3, <1>4
  <2>4. Len(uri) > Len(path) + 1 => uri[Len(path) + 2] = "?"
    <3>1. Len(path) + 2 = Len(whole) + 1
      BY <1>1, <1>4
    <3>2. Len(uri) > Len(path) + 1 => Len(query) > 0 /\ 1 \in 1 .. Len(query)
      BY <1>1, <1>3, <1>4
    <3>3. QED
      BY <1>3, <3>1, <3>2, QueryFacts
  <2>5. QED
    BY <1>3, <1>4, <1>7, <2>1, <2>2, <2>3, <2>4, PathIs
<1>9. QED
  BY <1>4, <1>5, <1>6, <1>8 DEF uri, whole

\* What is appended to a base URI that ends with the version prefix is routed behind it.
Versioned(base) ==
    /\ base \in Text /\ Len(base) = 1 + Len(V1Prefix) /\ base[1] # "?"
    /\ \A i \in 1 .. Len(V1Prefix) : base[i + 1] = V1Prefix[i]

\* The calls for a path without its first "/".
RoutedBehind(calls, p) ==
    \E rest \in Text : /\ calls = V1Calls(rest)
                       /\ Len(p) = Len(rest) + 1
                       /\ \A i \in 1 .. Len(rest) : rest[i] = p[i + 1]

\* What is appended to a versioned base is what is routed.
LEMMA VersionedCalls ==
    ASSUME NEW base, Versioned(base),
           NEW p \in Text, Avoids(p, "?"), p # <<>>, p[1] = "/", NEW query, Query(query)
    PROVE  RoutedBehind(Calls(base \o p \o query), p)
<1> DEFINE path == Path(base \o p \o query)
           rest == SubSeq(p, 2, Len(p))
           m    == Len(V1Prefix)
<1>1. m \in Nat /\ Len(p) \in Nat /\ Len(p) >= 1
  BY PrefixFacts, TextSymbols, EmptySeq DEF Text
<1>2. base # <<>> /\ Avoids(base, "?")
  <2>1. base # <<>>
    BY <1>1, EmptySeq DEF Versioned
  <2>2. ASSUME NEW i \in 1 .. Len(base) PROVE base[i] # "?"
    <3>1. CASE i = 1
      BY <3>1 DEF Versioned
    <3>2. CASE i # 1
      <4>1. i - 1 \in 1 .. m /\ (i - 1) + 1 = i
        BY <1>1, <3>2 DEF Versioned
      <4>2. base[(i - 1) + 1] = V1Prefix[i - 1]
        BY <4>1 DEF Versioned
      <4>3. QED
        BY <4>1, <4>2, PrefixFacts DEF Avoids
    <3>3. QED
      BY <3>1, <3>2
  <2>3. QED
    BY <2>1, <2>2 DEF Avoids
<1>3. /\ path \in Text /\ Len(path) = Len(base) - 1 + Len(p)
      /\ \A i \in 1 .. Len(base) - 1 : path[i] = base[i + 1]
      /\ \A i \in 1 .. Len(p) : path[Len(base) - 1 + i] = p[i]
  <2>1. base \in Text
    BY DEF Versioned
  <2>2. /\ Path(base \o p \o query) \in Text
        /\ Len(Path(base \o p \o query)) = Len(base) - 1 + Len(p)
        /\ \A i \in 1 .. Len(base) - 1 : Path(base \o p \o query)[i] = base[i + 1]
        /\ \A i \in 1 .. Len(p) : Path(base \o p \o query)[Len(base) - 1 + i] = p[i]
    BY <1>2, <2>1, AppendedPath
  <2>3. QED
    BY <2>2
<1>4. Len(base) - 1 = m
  BY <1>1 DEF Versioned
<1>5. /\ rest \in Text /\ Len(p) = Len(rest) + 1 /\ Len(rest) \in Nat
      /\ \A i \in 1 .. Len(rest) : rest[i] = p[i + 1]
  <2>1. \A i \in 2 .. Len(p) : p[i] \in Symbols
    BY <1>1, TextSymbols
  <2>2. /\ rest \in Seq(Symbols)
        /\ Len(rest) = IF 2 <= Len(p) THEN Len(p) - 2 + 1 ELSE 0
        /\ \A i \in 1 .. Len(p) - 2 + 1 : rest[i] = p[2 + i - 1]
    BY <1>1, <2>1, SubSeqProperties
  <2> HIDE DEF rest
  <2>3. Len(p) = Len(rest) + 1 /\ Len(p) - 2 + 1 = Len(rest) /\ Len(rest) \in Nat
    <3>1. Len(p) >= 2 => Len(rest) = Len(p) - 2 + 1
      BY <1>1, <2>2
    <3>2. Len(p) = 1 => Len(rest) = 0
      BY <1>1, <2>2
    <3>3. Len(p) \in Nat /\ Len(p) >= 1
      BY <1>1
    <3> HIDE DEF m
    <3>4. Len(p) = 1 \/ Len(p) >= 2
      <4>1. \A n \in Nat : n >= 1 => n = 1 \/ n >= 2
        OBVIOUS
      <4>2. QED
        BY <3>3, <4>1
    <3>5. Len(rest) = Len(p) - 1
      <4>1. CASE Len(p) = 1
        BY <3>2, <4>1
      <4>2. CASE Len(p) >= 2
        BY <3>1, <3>3, <4>2
      <4>3. QED
        BY <3>4, <4>1, <4>2, Zenon
    <3>6. QED
      BY <3>3, <3>5
  <2>4. \A i \in 1 .. Len(rest) : 2 + i - 1 = i + 1
    BY <1>1, <2>3
  <2>5. QED
    BY <2>2, <2>3, <2>4 DEF Text
<1> HIDE DEF rest, path
<1>6. Behind(path, rest)
  <2>1. Len(path) = m + 1 + Len(rest)
    <3> HIDE DEF m
    <3>1. Len(path) = m + Len(p)
      BY <1>3, <1>4
    <3>2. QED
      BY <1>1, <1>5, <3>1
  <2>2. \A i \in 1 .. m : path[i] = V1Prefix[i]
    BY <1>3, <1>4 DEF Versioned
  <2>3. path[m + 1] = "/"
    BY <1>1, <1>3, <1>4
  <2>4. ASSUME NEW i \in 1 .. Len(rest) PROVE path[m + 1 + i] = rest[i]
    <3>1. i + 1 \in 1 .. Len(p) /\ m + (i + 1) = m + 1 + i
      BY <1>1, <1>5
    <3>2. path[m + (i + 1)] = p[i + 1]
      BY <1>3, <1>4, <3>1
    <3>3. QED
      BY <1>5, <3>1, <3>2
  <2>5. QED
    BY <2>1, <2>2, <2>3, <2>4 DEF Behind
<1>7. PathCalls(path) = V1Calls(rest)
  BY <1>3, <1>5, <1>6, BehindIsRouted
<1>8. QED
  BY <1>5, <1>7 DEF Calls, path, RoutedBehind

\* The names of the routes have no special characters.
LEMMA NoQuestionMarks ==
    /\ \A k \in Kinds : Plural[k] # "?" /\ "?" \notin SubRoutes[k]
    /\ \A k \in Kinds : "list" \notin SubRoutes[k] /\ "data-item" \notin SubRoutes[k]
  BY DEF Kinds, Plural, SubRoutes, DataCollections

\* The path of an entity has no query.
LEMMA EntityOnAvoids ==
    ASSUME NEW k \in Kinds, NEW e \in Text, Avoids(e, "?")
    PROVE  EntityOn(k, e) # <<>> /\ Avoids(EntityOn(k, e), "?")
<1> DEFINE p == EntityOn(k, e)
<1>1. Len(e) \in Nat
  BY TextSymbols
<1>2. /\ p \in Text /\ Len(p) = 3 + Len(e)
      /\ p[1] = "/" /\ p[2] = Plural[k] /\ p[3] = "/"
      /\ \A i \in 1 .. Len(e) : p[3 + i] = e[i]
  BY EntityOnIs
<1> HIDE DEF p
<1>3. p # <<>> /\ Avoids(p, "?")
  <2> SUFFICES ASSUME NEW i \in 1 .. Len(p) PROVE p[i] # "?"
    BY <1>1, <1>2, EmptyTexts DEF Avoids
  <2>1. CASE i \in 1 .. 3
    BY <1>2, <2>1, NoQuestionMarks
  <2>2. CASE i > 3
    <3>1. i - 3 \in 1 .. Len(e) /\ 3 + (i - 3) = i
      BY <1>1, <1>2, <2>2
    <3>2. QED
      BY <1>2, <3>1 DEF Avoids
  <2>3. QED
    BY <1>1, <1>2, <2>1, <2>2
<1>4. QED
  BY <1>3 DEF p

\* The path of a route of an entity has no query.
LEMMA RouteOnAvoids ==
    ASSUME NEW p, NEW k \in Kinds, NEW e \in Text, Avoids(e, "?"), NEW r \in SubRoutes[k],
           IsRouteOn(p, k, e, r)
    PROVE  p # <<>> /\ Avoids(p, "?")
<1>1. Len(e) \in Nat
  BY TextSymbols
<1>2. /\ p \in Text /\ Len(p) = 5 + Len(e)
      /\ p[1] = "/" /\ p[2] = Plural[k] /\ p[3] = "/"
      /\ \A i \in 1 .. Len(e) : p[3 + i] = e[i]
      /\ p[4 + Len(e)] = "/" /\ p[5 + Len(e)] = r
  BY DEF IsRouteOn
<1>3. QED
  <2> SUFFICES ASSUME NEW i \in 1 .. Len(p) PROVE p[i] # "?"
    BY <1>1, <1>2, EmptyTexts DEF Avoids
  <2>1. CASE i \in 1 .. 3
    BY <1>2, <2>1, NoQuestionMarks
  <2>2. CASE i > 3 /\ i <= 3 + Len(e)
    <3>1. i - 3 \in 1 .. Len(e) /\ 3 + (i - 3) = i
      BY <1>1, <1>2, <2>2
    <3>2. QED
      BY <1>2, <3>1 DEF Avoids
  <2>3. CASE i = 4 + Len(e) \/ i = 5 + Len(e)
    BY <1>2, <2>3, NoQuestionMarks
  <2>4. QED
    BY <1>1, <1>2, <2>1, <2>2, <2>3

\* The path of a data resource has no query.
LEMMA ItemOnAvoids ==
    ASSUME NEW p, NEW k \in Kinds, NEW e \in Text, Avoids(e, "?"), NEW f \in Text, Avoids(f, "?"),
           IsItemOn(p, k, e, f)
    PROVE  p # <<>> /\ Avoids(p, "?")
<1>1. Len(e) \in Nat /\ Len(f) \in Nat
  BY TextSymbols
<1>2. /\ p \in Text /\ Len(p) = 6 + Len(e) + Len(f)
      /\ p[1] = "/" /\ p[2] = Plural[k] /\ p[3] = "/"
      /\ \A i \in 1 .. Len(e) : p[3 + i] = e[i]
      /\ p[4 + Len(e)] = "/" /\ p[5 + Len(e)] = "data" /\ p[6 + Len(e)] = "/"
      /\ \A i \in 1 .. Len(f) : p[6 + Len(e) + i] = f[i]
  BY DEF IsItemOn
<1>3. QED
  <2> SUFFICES ASSUME NEW i \in 1 .. Len(p) PROVE p[i] # "?"
    BY <1>1, <1>2, EmptyTexts DEF Avoids
  <2>1. CASE i \in 1 .. 3
    BY <1>2, <2>1, NoQuestionMarks
  <2>2. CASE i > 3 /\ i <= 3 + Len(e)
    <3>1. i - 3 \in 1 .. Len(e) /\ 3 + (i - 3) = i
      BY <1>1, <1>2, <2>2
    <3>2. QED
      BY <1>2, <3>1 DEF Avoids
  <2>3. CASE i \in {4 + Len(e), 5 + Len(e), 6 + Len(e)}
    BY <1>2, <2>3
  <2>4. CASE i > 6 + Len(e)
    <3>1. i - (6 + Len(e)) \in 1 .. Len(f) /\ 6 + Len(e) + (i - (6 + Len(e))) = i
      BY <1>1, <1>2, <2>4
    <3>2. QED
      BY <1>2, <3>1 DEF Avoids
  <2>5. QED
    BY <1>1, <1>2, <2>1, <2>2, <2>3, <2>4

\* Behind a versioned base: a collection.
LEMMA ListArrives ==
    ASSUME NEW base, Versioned(base), NEW k \in Kinds, NEW query, Query(query)
    PROVE  Calls(base \o <<"/", Plural[k]>> \o query) = {Call("list", k, <<>>, <<>>)}
<1> DEFINE p == <<"/", Plural[k]>>
<1>1. p \in Text /\ Len(p) = 2 /\ p[1] = "/" /\ p[2] = Plural[k]
  BY RouteNames, PairIsText
<1> HIDE DEF p
<1>2. p # <<>> /\ Avoids(p, "?")
  <2>1. \A i \in 1 .. Len(p) : i = 1 \/ i = 2
    BY <1>1
  <2>2. Avoids(p, "?")
    BY <1>1, <2>1, NoQuestionMarks DEF Avoids
  <2>3. p # <<>>
    BY <1>1, EmptyTexts
  <2>4. QED
    BY <2>2, <2>3
<1>3. PICK rest \in Text : /\ Calls(base \o p \o query) = V1Calls(rest)
                           /\ Len(p) = Len(rest) + 1
                           /\ \A i \in 1 .. Len(rest) : rest[i] = p[i + 1]
  <2>1. p \in Text /\ p[1] = "/" /\ p # <<>> /\ Avoids(p, "?")
    BY <1>1, <1>2
  <2>2. RoutedBehind(Calls(base \o p \o query), p)
    BY <2>1, VersionedCalls
  <2>3. QED
    BY <2>2 DEF RoutedBehind
<1>4. rest = <<Plural[k]>>
  <2> DEFINE only == <<Plural[k]>>
  <2>1. only \in Text /\ Len(only) = 1 /\ only[1] = Plural[k]
    BY RouteNames DEF Text
  <2> HIDE DEF only
  <2>2. Len(rest) = 1 /\ rest[1] = Plural[k]
    <3>1. Len(rest) = 1
      <4>1. Len(rest) \in Nat
        BY TextSymbols
      <4>2. 2 = Len(rest) + 1
        BY <1>1, <1>3
      <4>3. \A n \in Nat : 2 = n + 1 => n = 1
        OBVIOUS
      <4>4. QED
        BY <4>1, <4>2, <4>3, Zenon
    <3>2. 1 \in 1 .. Len(rest) /\ 1 + 1 = 2
      BY <3>1
    <3>3. rest[1] = p[1 + 1]
      BY <1>3, <3>2
    <3>4. QED
      BY <1>1, <3>1, <3>2, <3>3
  <2>3. \A i \in 1 .. Len(rest) : i = 1
    BY <2>2
  <2>4. \A i \in 1 .. Len(rest) : rest[i] = only[i]
    BY <2>1, <2>2, <2>3
  <2>5. rest = only
    BY <2>1, <2>2, <2>4, TextEqual
  <2>6. QED
    BY <2>5 DEF only
<1>5. QED
  BY <1>3, <1>4, ListIsRouted DEF p

\* Behind a versioned base: an entity.
LEMMA EntityArrives ==
    ASSUME NEW base, Versioned(base), NEW k \in Kinds, NEW e, Segment(e), Avoids(e, "?"),
           NEW query, Query(query)
    PROVE  Calls(base \o EntityOn(k, e) \o query) = {Call("capabilities", k, Decode(e), <<>>)}
<1> DEFINE p == EntityOn(k, e)
<1>1. e \in Text /\ Len(e) \in Nat
  BY TextSymbols DEF Segment
<1>2. /\ p \in Text /\ Len(p) = 3 + Len(e)
      /\ p[1] = "/" /\ p[2] = Plural[k] /\ p[3] = "/"
      /\ \A i \in 1 .. Len(e) : p[3 + i] = e[i]
  BY <1>1, EntityOnIs
<1> HIDE DEF p
<1>3. p # <<>> /\ Avoids(p, "?")
  BY <1>1, EntityOnAvoids DEF p
<1>4. PICK rest \in Text : /\ Calls(base \o p \o query) = V1Calls(rest)
                           /\ Len(p) = Len(rest) + 1
                           /\ \A i \in 1 .. Len(rest) : rest[i] = p[i + 1]
  <2>1. p \in Text /\ p[1] = "/" /\ p # <<>> /\ Avoids(p, "?")
    BY <1>2, <1>3
  <2>2. RoutedBehind(Calls(base \o p \o query), p)
    BY <2>1, VersionedCalls
  <2>3. QED
    BY <2>2 DEF RoutedBehind
<1>5. Len(rest) = 2 + Len(e)
  BY <1>1, <1>2, <1>4, TextSymbols
<1>6. rest[1] = Plural[k] /\ rest[2] = "/"
  BY <1>1, <1>2, <1>4, <1>5
<1>7. \A i \in 1 .. Len(e) : rest[3 - 1 + i] = e[i]
  BY <1>1, <1>2, <1>4, <1>5
<1>8. EntityPath(rest, k, e)
  BY <1>1, <1>5, <1>6, <1>7 DEF EntityPath, Names, At
<1>9. QED
  BY <1>4, <1>8, EntityIsRouted DEF p

\* Behind a versioned base: a route of an entity.
LEMMA RouteArrives ==
    ASSUME NEW base, Versioned(base), NEW k \in Kinds, NEW e, Segment(e), Avoids(e, "?"),
           NEW r \in SubRoutes[k], NEW query, Query(query)
    PROVE  Calls(base \o (EntityOn(k, e) \o <<"/", r>>) \o query) = {Call(r, k, Decode(e), <<>>)}
<1> DEFINE p == EntityOn(k, e) \o <<"/", r>>
<1>1. e \in Text /\ Len(e) \in Nat /\ r \in Symbols
  BY TextSymbols, RouteNames DEF Segment
<1>2. /\ p \in Text /\ Len(p) = 5 + Len(e)
      /\ p[1] = "/" /\ p[2] = Plural[k] /\ p[3] = "/"
      /\ \A i \in 1 .. Len(e) : p[3 + i] = e[i]
      /\ p[4 + Len(e)] = "/" /\ p[5 + Len(e)] = r
  <2>1. IsRouteOn(p, k, e, r)
    BY <1>1, RouteOnIs
  <2> HIDE DEF p
  <2>2. QED
    BY <2>1 DEF IsRouteOn
<1> HIDE DEF p
<1>3. p # <<>> /\ Avoids(p, "?")
  <2>1. IsRouteOn(p, k, e, r)
    BY <1>1, RouteOnIs DEF p
  <2>2. QED
    BY <1>1, <2>1, RouteOnAvoids
<1>4. PICK rest \in Text : /\ Calls(base \o p \o query) = V1Calls(rest)
                           /\ Len(p) = Len(rest) + 1
                           /\ \A i \in 1 .. Len(rest) : rest[i] = p[i + 1]
  <2>1. p \in Text /\ p[1] = "/" /\ p # <<>> /\ Avoids(p, "?")
    BY <1>2, <1>3
  <2>2. RoutedBehind(Calls(base \o p \o query), p)
    BY <2>1, VersionedCalls
  <2>3. QED
    BY <2>2 DEF RoutedBehind
<1>5. Len(rest) = 4 + Len(e)
  BY <1>1, <1>2, <1>4, TextSymbols
<1>6. rest[1] = Plural[k] /\ rest[2] = "/"
  BY <1>1, <1>2, <1>4, <1>5
<1>7. \A i \in 1 .. Len(e) : rest[3 - 1 + i] = e[i]
  BY <1>1, <1>2, <1>4, <1>5
<1>8. rest[3 + Len(e)] = "/" /\ rest[4 + Len(e)] = r
  BY <1>1, <1>2, <1>4, <1>5
<1>9. RoutePath(rest, k, e, r)
  BY <1>1, <1>5, <1>6, <1>7, <1>8 DEF RoutePath, Names, At
<1>10. QED
  BY <1>4, <1>9, RouteIsRouted DEF p

\* Behind a versioned base: a data resource.
LEMMA ItemArrives ==
    ASSUME NEW base, Versioned(base), NEW k \in Kinds, "data" \in SubRoutes[k],
           NEW e, Segment(e), Avoids(e, "?"), NEW f, Segment(f), Avoids(f, "?"),
           NEW query, Query(query)
    PROVE  Calls(base \o (EntityOn(k, e) \o <<"/", "data", "/">> \o f) \o query)
              = {Call("data-item", k, Decode(e), Decode(f))}
<1> DEFINE p == EntityOn(k, e) \o <<"/", "data", "/">> \o f
<1>1. e \in Text /\ Len(e) \in Nat /\ f \in Text /\ Len(f) \in Nat
  BY TextSymbols DEF Segment
<1>2. /\ p \in Text /\ Len(p) = 6 + Len(e) + Len(f)
      /\ p[1] = "/" /\ p[2] = Plural[k] /\ p[3] = "/"
      /\ \A i \in 1 .. Len(e) : p[3 + i] = e[i]
      /\ p[4 + Len(e)] = "/" /\ p[5 + Len(e)] = "data" /\ p[6 + Len(e)] = "/"
      /\ \A i \in 1 .. Len(f) : p[6 + Len(e) + i] = f[i]
  <2>1. IsItemOn(p, k, e, f)
    BY <1>1, ItemOnIs
  <2> HIDE DEF p
  <2>2. QED
    BY <2>1 DEF IsItemOn
<1> HIDE DEF p
<1>3. p # <<>> /\ Avoids(p, "?")
  <2>1. IsItemOn(p, k, e, f)
    BY <1>1, ItemOnIs DEF p
  <2>2. QED
    BY <1>1, <2>1, ItemOnAvoids
<1>4. PICK rest \in Text : /\ Calls(base \o p \o query) = V1Calls(rest)
                           /\ Len(p) = Len(rest) + 1
                           /\ \A i \in 1 .. Len(rest) : rest[i] = p[i + 1]
  <2>1. p \in Text /\ p[1] = "/" /\ p # <<>> /\ Avoids(p, "?")
    BY <1>2, <1>3
  <2>2. RoutedBehind(Calls(base \o p \o query), p)
    BY <2>1, VersionedCalls
  <2>3. QED
    BY <2>2 DEF RoutedBehind
<1>5. Len(rest) = 5 + Len(e) + Len(f)
  BY <1>1, <1>2, <1>4, TextSymbols
<1>6. rest[1] = Plural[k] /\ rest[2] = "/"
  BY <1>1, <1>2, <1>4, <1>5
<1>7. \A i \in 1 .. Len(e) : rest[3 - 1 + i] = e[i]
  BY <1>1, <1>2, <1>4, <1>5
<1>8. rest[3 + Len(e)] = "/" /\ rest[4 + Len(e)] = "data" /\ rest[5 + Len(e)] = "/"
  BY <1>1, <1>2, <1>4, <1>5
<1>9. \A i \in 1 .. Len(f) : rest[6 + Len(e) - 1 + i] = f[i]
  <2> SUFFICES ASSUME NEW i \in 1 .. Len(f) PROVE rest[6 + Len(e) - 1 + i] = f[i]
    OBVIOUS
  <2>1. 6 + Len(e) - 1 + i \in 1 .. Len(rest) /\ (6 + Len(e) - 1 + i) + 1 = 6 + Len(e) + i
    BY <1>1, <1>5
  <2>2. rest[6 + Len(e) - 1 + i] = p[(6 + Len(e) - 1 + i) + 1]
    BY <1>4, <2>1
  <2>3. QED
    BY <1>2, <2>1, <2>2
<1>10. Names(rest, k, e) /\ At(rest, 6 + Len(e), f)
  BY <1>1, <1>5, <1>6, <1>7, <1>9 DEF Names, At
<1>11. ItemPath(rest, k, e, f)
  BY <1>5, <1>8, <1>10 DEF ItemPath
<1>12. QED
  BY <1>4, <1>11, ItemIsRouted DEF p

(***************************************************************************)
(* What the methods of the client ask for.                                 *)
(***************************************************************************)

\* A call that a method of the client can mean.
IsMethodCall(c, k) ==
    \/ c = Call("list", k, <<>>, <<>>)
    \/ \E id \in Text, r \in SubRoutes[k] : c = Call(r, k, id, <<>>)
    \/ "data" \in SubRoutes[k] /\ \E id \in Text, item \in Text : c = Call("data-item", k, id, item)

\* What a call is made of.
LEMMA CallFields ==
    ASSUME NEW r, NEW k, NEW id, NEW item
    PROVE  /\ Call(r, k, id, item).route = r /\ Call(r, k, id, item).kind = k
           /\ Call(r, k, id, item).id = id /\ Call(r, k, id, item).item = item
  BY DEF Call

\* Ids are texts.
LEMMA TextsAreTexts ==
    /\ ComponentIds \subseteq Text /\ AppIds \subseteq Text /\ AreaIds \subseteq Text
    /\ Items \subseteq Text /\ Texts \subseteq Text
<1>1. STRING \subseteq Symbols
  BY DEF Symbols
<1>2. Seq(STRING) \subseteq Seq(Symbols)
  BY <1>1, SeqMonotonic
<1>3. QED
  BY <1>2, IdsAssumption DEF Text

\* The base URI of a client is a text that begins with its host.
LEMMA BasesAreTexts ==
    ASSUME NEW client \in Clients
    PROVE  client.base \in Text /\ client.base # <<>> /\ client.base[1] # "?"
<1>1. STRING \subseteq Symbols
  BY DEF Symbols
<1>2. Seq(STRING) \subseteq Seq(Symbols)
  BY <1>1, SeqMonotonic
<1>3. QED
  BY <1>2, ClientsAssumption DEF Text

\* What the methods of the client mean.
IsMethod(m) ==
    /\ \E k \in Kinds : IsMethodCall(m.call, k)
    /\ m.method = "PUT" => m.call.route = "data-item"
    /\ m.schema \in BOOLEAN

\* The methods for data resources.
LEMMA DataMethodsMean ==
    ASSUME NEW k \in {"component", "app"}, NEW ids, ids \subseteq Text, NEW m \in DataMethods(k, ids)
    PROVE  IsMethod(m)
<1>1. k \in Kinds /\ "data" \in SubRoutes[k] /\ <<>> \in Text
  BY EmptyTexts DEF Kinds, SubRoutes, DataCollections
<1>2. Items \subseteq Text
  BY TextsAreTexts
<1>3. CASE \E id \in ids, s \in BOOLEAN : m = Asks("GET", Call("data", k, id, <<>>), s)
  <2>1. PICK id \in ids, s \in BOOLEAN : m = Asks("GET", Call("data", k, id, <<>>), s)
    BY <1>3
  <2>2. m.method = "GET" /\ m.call = Call("data", k, id, <<>>) /\ m.schema = s
    BY <2>1 DEF Asks
  <2>3. IsMethodCall(m.call, k)
    BY <1>1, <2>2 DEF IsMethodCall
  <2>4. QED
    BY <1>1, <2>2, <2>3 DEF IsMethod
<1>4. CASE \E id \in ids, item \in Items, s \in BOOLEAN :
              m = Asks("GET", Call("data-item", k, id, item), s)
  <2>1. PICK id \in ids, item \in Items, s \in BOOLEAN :
           m = Asks("GET", Call("data-item", k, id, item), s)
    BY <1>4
  <2>2. m.method = "GET" /\ m.call = Call("data-item", k, id, item) /\ m.schema = s
    BY <2>1 DEF Asks
  <2>3. IsMethodCall(m.call, k)
    BY <1>1, <1>2, <2>2 DEF IsMethodCall
  <2>4. QED
    BY <1>1, <2>2, <2>3 DEF IsMethod
<1>5. CASE \E id \in ids, item \in Items : m = Puts(k, id, item)
  <2>1. PICK id \in ids, item \in Items : m = Puts(k, id, item)
    BY <1>5
  <2>2. m.method = "PUT" /\ m.call = Call("data-item", k, id, item) /\ m.schema = FALSE
    BY <2>1 DEF Puts, Asks
  <2>3. IsMethodCall(m.call, k)
    BY <1>1, <1>2, <2>2 DEF IsMethodCall
  <2>4. m.call.route = "data-item"
    BY <2>2, CallFields
  <2>5. QED
    BY <1>1, <2>2, <2>3, <2>4 DEF IsMethod
<1>6. \/ m \in {Asks("GET", Call("data", k, id, <<>>), s) : id \in ids, s \in BOOLEAN}
      \/ m \in {Asks("GET", Call("data-item", k, id, item), s) :
                  id \in ids, item \in Items, s \in BOOLEAN}
      \/ m \in {Puts(k, id, item) : id \in ids, item \in Items}
  BY DEF DataMethods
<1>7. m \in {Asks("GET", Call("data", k, id, <<>>), s) : id \in ids, s \in BOOLEAN} =>
        \E id \in ids, s \in BOOLEAN : m = Asks("GET", Call("data", k, id, <<>>), s)
  OBVIOUS
<1>8. m \in {Asks("GET", Call("data-item", k, id, item), s) :
               id \in ids, item \in Items, s \in BOOLEAN} =>
        \E id \in ids, item \in Items, s \in BOOLEAN :
              m = Asks("GET", Call("data-item", k, id, item), s)
  OBVIOUS
<1>9. m \in {Puts(k, id, item) : id \in ids, item \in Items} =>
        \E id \in ids, item \in Items : m = Puts(k, id, item)
  OBVIOUS
<1>10. QED
  BY <1>3, <1>4, <1>5, <1>6, <1>7, <1>8, <1>9

\* The methods for an entity.
LEMMA EntityMethodsMean ==
    ASSUME NEW k \in Kinds, NEW id \in Text, NEW r \in SubRoutes[k], NEW m, m = Gets(r, k, id)
    PROVE  IsMethod(m)
<1>1. m.method = "GET" /\ m.call = Call(r, k, id, <<>>) /\ m.schema = FALSE
  BY DEF Gets, Asks
<1>2. IsMethodCall(m.call, k)
  BY <1>1 DEF IsMethodCall
<1>3. QED
  BY <1>1, <1>2 DEF IsMethod

\* Every method means a call that the routes have.
LEMMA MethodsMean == \A m \in Methods : IsMethod(m)
<1> SUFFICES ASSUME NEW m \in Methods PROVE IsMethod(m)
  OBVIOUS
<1>1. CASE m \in ListEntities
  <2>1. PICK k \in Kinds, s \in BOOLEAN : m = Asks("GET", Call("list", k, <<>>, <<>>), s)
    BY <1>1 DEF ListEntities
  <2>2. m.method = "GET" /\ m.call = Call("list", k, <<>>, <<>>) /\ m.schema = s
    BY <2>1 DEF Asks
  <2>3. IsMethodCall(m.call, k)
    BY <2>2 DEF IsMethodCall
  <2>4. QED
    BY <2>2, <2>3 DEF IsMethod
<1>2. CASE m \in ComponentMethods
  <2>1. PICK id \in ComponentIds, r \in {"hosts", "belongs-to", "data-categories", "data-groups"} :
           m = Gets(r, "component", id)
    BY <1>2 DEF ComponentMethods
  <2>2. "component" \in Kinds /\ r \in SubRoutes["component"]
    BY DEF Kinds, SubRoutes, DataCollections
  <2>3. QED
    BY <2>1, <2>2, EntityMethodsMean, TextsAreTexts
<1>3. CASE m \in AppMethods
  <2>1. PICK id \in AppIds, r \in {"is-located-on", "belongs-to", "data-categories", "data-groups"} :
           m = Gets(r, "app", id)
    BY <1>3 DEF AppMethods
  <2>2. "app" \in Kinds /\ r \in SubRoutes["app"]
    BY DEF Kinds, SubRoutes, DataCollections
  <2>3. QED
    BY <2>1, <2>2, EntityMethodsMean, TextsAreTexts
<1>4. CASE m \in AreaMethods
  <2>1. PICK id \in AreaIds : m = Gets("contains", "area", id)
    BY <1>4 DEF AreaMethods
  <2>2. "area" \in Kinds /\ "contains" \in SubRoutes["area"]
    BY DEF Kinds, SubRoutes
  <2>3. QED
    BY <2>1, <2>2, EntityMethodsMean, TextsAreTexts
<1>5. CASE m \in DataMethods("component", ComponentIds) \cup DataMethods("app", AppIds)
  BY <1>5, DataMethodsMean, TextsAreTexts
<1>6. QED
  BY <1>1, <1>2, <1>3, <1>4, <1>5 DEF Methods

\* Under the version prefix every method arrives at what it means, if it names
\* something.
LEMMA MethodArrives ==
    ASSUME NEW base, Versioned(base), NEW k \in Kinds, NEW c, IsMethodCall(c, k), Named(c),
           NEW query, Query(query)
    PROVE  Calls(base \o MethodPath(c) \o query) = {c}
<1>1. CASE c = Call("list", k, <<>>, <<>>)
  <2>1. MethodPath(c) = <<"/", Plural[k]>>
    BY <1>1, MethodPathIs
  <2>2. QED
    BY <1>1, <2>1, ListArrives
<1>2. ASSUME NEW id \in Text, NEW r \in SubRoutes[k], c = Call(r, k, id, <<>>)
      PROVE  Calls(base \o MethodPath(c) \o query) = {c}
  <2> DEFINE e == ClientEncode(id)
  <2>1. r \notin {"list", "data-item"}
    BY NoQuestionMarks
  <2>2. id # <<>>
    BY <1>2, <2>1, CallFields DEF Named
  <2>3. Segment(e) /\ Avoids(e, "?") /\ Decode(e) = id
    BY <2>2, EncodedIds
  <2>4. MethodPath(c) = EntityOn(k, e) \o <<"/", r>>
    <3>1. MethodPath(Call(r, k, id, <<>>)) = EntityOn(k, ClientEncode(id)) \o <<"/", r>>
      BY <2>1, RouteMethodPath
    <3>2. QED
      BY <1>2, <3>1
  <2> HIDE DEF e
  <2>5. Calls(base \o (EntityOn(k, e) \o <<"/", r>>) \o query) = {Call(r, k, Decode(e), <<>>)}
    BY <2>3, RouteArrives
  <2>6. QED
    BY <1>2, <2>3, <2>4, <2>5
<1>3. ASSUME "data" \in SubRoutes[k], NEW id \in Text, NEW item \in Text,
             c = Call("data-item", k, id, item)
      PROVE  Calls(base \o MethodPath(c) \o query) = {c}
  <2> DEFINE e == ClientEncode(id)
             f == ClientEncode(item)
  <2>1. id # <<>> /\ item # <<>>
    BY <1>3, CallFields DEF Named
  <2>2. Segment(e) /\ Avoids(e, "?") /\ Decode(e) = id
    BY <2>1, EncodedIds
  <2>3. Segment(f) /\ Avoids(f, "?") /\ Decode(f) = item
    BY <2>1, EncodedIds
  <2>4. MethodPath(c) = EntityOn(k, e) \o <<"/", "data", "/">> \o f
    BY <1>3, MethodPathIs
  <2> HIDE DEF e, f
  <2>5. Calls(base \o (EntityOn(k, e) \o <<"/", "data", "/">> \o f) \o query)
           = {Call("data-item", k, Decode(e), Decode(f))}
    BY <1>3, <2>2, <2>3, ItemArrives
  <2>6. QED
    BY <1>3, <2>2, <2>3, <2>4, <2>5
<1>4. QED
  BY <1>1, <1>2, <1>3 DEF IsMethodCall

\* The base URI that the documentation asks for.
LEMMA ProperIsVersioned ==
    ASSUME NEW client \in Clients, Proper(client)
    PROVE  Versioned(client.base)
<1> DEFINE host == <<Host(client)>>
<1>1. client.base \in Text /\ client.base # <<>> /\ client.base[1] # "?"
  BY BasesAreTexts
<1>2. Host(client) \in Symbols
  BY <1>1, EmptySeq DEF Host, Text
<1>3. host \in Text /\ Len(host) = 1 /\ client.base = host \o V1Prefix
  BY <1>2 DEF Text, Proper
<1> HIDE DEF host
<1>4. /\ Len(host \o V1Prefix) = Len(host) + Len(V1Prefix)
      /\ \A i \in 1 .. Len(V1Prefix) : (host \o V1Prefix)[Len(host) + i] = V1Prefix[i]
      /\ Len(V1Prefix) \in Nat
  BY <1>3, PrefixFacts, TextConcat
<1>5. Len(client.base) = 1 + Len(V1Prefix)
  BY <1>3, <1>4
<1>6. \A i \in 1 .. Len(V1Prefix) : client.base[i + 1] = V1Prefix[i]
  <2>1. \A i \in 1 .. Len(V1Prefix) : Len(host) + i = i + 1
    BY <1>3, <1>4
  <2>2. QED
    BY <1>3, <1>4, <2>1
<1>7. QED
  BY <1>1, <1>5, <1>6 DEF Versioned

\* A text with nothing behind it.
LEMMA NothingBehind ==
    ASSUME NEW s \in Text
    PROVE  s \o <<>> = s
<1>1. <<>> \in Text /\ Len(<<>>) = 0
  BY EmptyTexts
<1>2. /\ s \o <<>> \in Text /\ Len(s \o <<>>) = Len(s) + Len(<<>>)
      /\ Len(s) \in Nat /\ \A i \in 1 .. Len(s) : (s \o <<>>)[i] = s[i]
  BY <1>1, TextConcat
<1>3. QED
  BY <1>1, <1>2, TextEqual

(***************************************************************************)
(* A client with the right base URI.                                       *)
(***************************************************************************)

\* An error has a code, and is "entity-not-found" only if that is so.
Explains(answer, e) ==
    /\ answer.status # 200 => answer.code # "none"
    /\ answer.status = 200 \/ answer.code # "entity-not-found" \/ e \notin Live

\* A success tells of no error.
LEMMA OkExplains == \A refs, e : Explains(Ok(refs), e)
  BY DEF Explains, Ok

\* The error for an entity that is not live.
LEMMA NotFoundExplains == \A e : e \notin Live => Explains(EntityNotFound, e)
  BY DEF Explains, EntityNotFound, ErrorResponse, Failure

\* The errors of the data routes.
LEMMA DataExplains ==
    ASSUME NEW e, NEW outcome \in {"Ok", "Internal", "NotFound", "ReadOnly"}
    PROVE  Explains(DataAnswer(e, outcome), e)
<1>1. CASE e \notin Live
  BY <1>1, NotFoundExplains DEF DataAnswer
<1>2. CASE e \in Live \ HasData
  <2>1. DataAnswer(e, outcome) = ErrorResponse("ProviderNotAvailable")
    BY <1>2 DEF DataAnswer
  <2>2. QED
    BY <2>1 DEF Explains, ErrorResponse, Failure
<1>3. CASE e \in Live /\ e \in HasData
  <2>1. DataAnswer(e, outcome) = IF outcome = "Ok" THEN Ok({}) ELSE ErrorResponse(outcome)
    BY <1>3 DEF DataAnswer
  <2>2. CASE outcome = "Ok"
    BY <2>1, <2>2, OkExplains
  <2>3. CASE outcome \in {"Internal", "NotFound", "ReadOnly"}
    BY <2>1, <2>3 DEF Explains, ErrorResponse, Failure
  <2>4. QED
    BY <2>2, <2>3
<1>4. QED
  BY <1>1, <1>2, <1>3

\* Whether an entity is live shows in the maps.
LEMMA LiveIs ==
    /\ \A id : [kind |-> "component", id |-> id] \in Live => id \in DOMAIN components
    /\ \A id : [kind |-> "app", id |-> id] \in Live => id \in DOMAIN apps
    /\ \A id : [kind |-> "area", id |-> id] \in Live => id \in areas
<1>1. ASSUME NEW id, NEW kind, [kind |-> kind, id |-> id] \in Live
      PROVE  /\ kind = "component" => id \in DOMAIN components
             /\ kind = "app" => id \in DOMAIN apps
             /\ kind = "area" => id \in areas
  <2> DEFINE e == [kind |-> kind, id |-> id]
  <2>1. e.kind = kind /\ e.id = id
    OBVIOUS
  <2> HIDE DEF e
  <2>2. \/ \E c \in DOMAIN components : e = ComponentRef(c)
        \/ \E a \in DOMAIN apps : e = AppRef(a)
        \/ \E r \in areas : e = AreaRef(r)
    BY <1>1, LiveByKind DEF e
  <2>3. QED
    BY <2>1, <2>2 DEF ComponentRef, AppRef, AreaRef
<1>2. QED
  BY <1>1

\* What each handler answers is explained by what is live.
LEMMA HandlersExplain ==
    ASSUME NEW k \in Kinds, NEW c, IsMethodCall(c, k), c.route # "is-located-on",
           NEW outcome \in Outcomes(c)
    PROVE  Explains(Handle(c, outcome), EntityOf(c))
<1> DEFINE e == EntityOf(c)
<1>1. outcome \in {"Ok", "Internal", "NotFound", "ReadOnly"}
  BY DEF Outcomes
<1>2. CASE c.route = "list"
  <2>1. Handle(c, outcome) = EntityList(c.kind, {})
    BY <1>2 DEF Handle
  <2>2. QED
    BY <2>1, OkExplains DEF EntityList, Collection
<1>3. CASE c.route = "data-item"
  <2>1. Handle(c, outcome) = DataAnswer(e, outcome)
    BY <1>3 DEF Handle
  <2>2. QED
    BY <1>1, <2>1, DataExplains
<1>4. ASSUME NEW id \in Text, NEW r \in SubRoutes[k], c = Call(r, k, id, <<>>)
      PROVE  Explains(Handle(c, outcome), e)
  <2>1. c.route = r /\ c.kind = k /\ c.id = id
    BY <1>4, CallFields
  <2>2. e = [kind |-> k, id |-> id]
    BY <2>1 DEF EntityOf
  <2> HIDE DEF e
  <2>3. CASE r \in {"data-categories", "data-groups"}
    <3>1. Handle(c, outcome) = DataAnswer(e, outcome)
      BY <2>1, <2>3 DEF Handle, e
    <3>2. QED
      BY <1>1, <3>1, DataExplains
  <2>4. CASE r = "data"
    <3>1. Handle(c, outcome) = Get([route |-> "data", entity |-> e], {})
      BY <2>1, <2>4 DEF Handle, e
    <3>2. Handle(c, outcome) = DataAnswer(e, "Ok")
      BY <3>1 DEF Get, DataCollection
    <3>3. QED
      BY <3>2, DataExplains
  <2>5. CASE r = "hosts"
    <3>1. k = "component"
      BY <2>5 DEF Kinds, SubRoutes, DataCollections
    <3>2. Handle(c, outcome) = Get([route |-> "hosts", entity |-> e], {})
      BY <2>1, <2>5 DEF Handle, e
    <3>3. Handle(c, outcome) = ComponentHosts(id, {})
      BY <2>2, <3>2 DEF Get
    <3>4. QED
      BY <2>2, <3>1, <3>3, LiveIs, OkExplains, NotFoundExplains DEF ComponentHosts, Collection
  <2>6. CASE r = "contains"
    <3>1. k = "area"
      BY <2>6 DEF Kinds, SubRoutes, DataCollections
    <3>2. Handle(c, outcome) = Get([route |-> "contains", entity |-> e], {})
      BY <2>1, <2>6 DEF Handle, e
    <3>3. Handle(c, outcome) = AreaContains(id, {})
      BY <2>2, <3>2 DEF Get
    <3>4. QED
      BY <2>2, <3>1, <3>3, LiveIs, OkExplains, NotFoundExplains DEF AreaContains, Collection
  <2>7. CASE r = "belongs-to"
    <3>1. k \in {"component", "app"}
      BY <2>7 DEF Kinds, SubRoutes, DataCollections
    <3>2. Handle(c, outcome) = Get([route |-> "belongs-to", entity |-> e], {})
      BY <2>1, <2>7 DEF Handle, e
    <3>3. Handle(c, outcome) = BelongsTo(e, {})
      BY <3>2 DEF Get
    <3>4. CASE k = "component"
      <4>1. Handle(c, outcome) = ComponentBelongsTo(id, {})
        BY <2>2, <3>3, <3>4 DEF BelongsTo
      <4>2. QED
        BY <2>2, <3>4, <4>1, LiveIs, OkExplains, NotFoundExplains
           DEF ComponentBelongsTo, Collection
    <3>5. CASE k = "app"
      <4>1. Handle(c, outcome) = AppBelongsTo(id, {})
        BY <2>2, <3>3, <3>5 DEF BelongsTo
      <4>2. QED
        BY <2>2, <3>5, <4>1, LiveIs, OkExplains, NotFoundExplains DEF AppBelongsTo, Collection
    <3>6. QED
      BY <3>1, <3>4, <3>5
  <2>8. r \in {"data-categories", "data-groups", "data", "hosts", "contains", "belongs-to"}
    BY <2>1 DEF Kinds, SubRoutes, DataCollections
  <2>9. QED
    BY <2>3, <2>4, <2>5, <2>6, <2>7, <2>8
<1>5. \/ c.route = "list" \/ c.route = "data-item"
      \/ \E id \in Text, r \in SubRoutes[k] : c = Call(r, k, id, <<>>)
  BY CallFields DEF IsMethodCall
<1>6. QED
  BY <1>2, <1>3, <1>4, <1>5

\* Also the exception answers an error with a code.
LEMMA LocatedExplains ==
    ASSUME NEW k \in Kinds, NEW c, IsMethodCall(c, k), c.route = "is-located-on", NEW outcome
    PROVE  Handle(c, outcome).status = 200 \/ Handle(c, outcome).code # "none"
<1>1. Handle(c, outcome) = Get([route |-> "is-located-on", entity |-> EntityOf(c)], {})
  BY DEF Handle
<1>2. Handle(c, outcome) = AppIsLocatedOn(EntityOf(c).id, {})
  BY <1>1 DEF Get
<1>3. QED
  BY <1>2 DEF AppIsLocatedOn, Ok, EntityNotFound, ErrorResponse, Failure

\* A client with the right base URI reaches the call that it means.
LEMMA ProperArrives ==
    ASSUME NEW client \in Clients, Proper(client), NEW m \in Methods, Named(m.call)
    PROVE  Arrives[client][m] = {m.call}
<1>1. IsMethod(m)
  BY MethodsMean
<1>2. PICK k \in Kinds : IsMethodCall(m.call, k)
  BY <1>1 DEF IsMethod
<1>3. Query(SchemaQuery(m.schema))
  BY DEF Query, SchemaQuery
<1>4. Versioned(client.base)
  BY ProperIsVersioned
<1>5. Calls(client.base \o MethodPath(m.call) \o SchemaQuery(m.schema)) = {m.call}
  BY <1>2, <1>3, <1>4, MethodArrives
<1>6. Arrives[client][m] = Calls(RequestText(client, m))
  BY DEF Arrives
<1>7. QED
  BY <1>5, <1>6 DEF RequestText, BuildUriWithQuery

\* Whatever the characters of ids, a data resource is reached.
LEMMA TextsHold == TextsArrive
<1> SUFFICES ASSUME NEW client \in Clients, Proper(client),
                    NEW id \in Texts \ {<<>>}, NEW item \in Texts \ {<<>>}
             PROVE  Calls(client.base \o MethodPath(Call("data-item", "app", id, item)))
                       = {Call("data-item", "app", id, item)}
  BY DEF TextsArrive
<1> DEFINE c == Call("data-item", "app", id, item)
<1>1. id \in Text /\ item \in Text /\ "app" \in Kinds /\ "data" \in SubRoutes["app"]
  BY TextsAreTexts DEF Kinds, SubRoutes, DataCollections
<1>2. c.route = "data-item" /\ c.id = id /\ c.item = item
  BY CallFields
<1>3. IsMethodCall(c, "app")
  BY <1>1 DEF IsMethodCall
<1>4. MethodPath(c) \in Text
  <2>1. MethodPath(c) = EntityOn("app", ClientEncode(id)) \o <<"/", "data", "/">> \o ClientEncode(item)
    BY MethodPathIs
  <2>2. ClientEncode(id) \in Text /\ ClientEncode(item) \in Text
    BY <1>1, EncodedIds
  <2>3. IsItemOn(EntityOn("app", ClientEncode(id)) \o <<"/", "data", "/">> \o ClientEncode(item),
                 "app", ClientEncode(id), ClientEncode(item))
    BY <1>1, <2>2, ItemOnIs
  <2>4. QED
    BY <2>1, <2>3 DEF IsItemOn
<1> HIDE DEF c
<1>5. Named(c)
  BY <1>2 DEF Named
<1>6. Versioned(client.base) /\ Query(<<>>)
  BY ProperIsVersioned DEF Query
<1>7. Calls(client.base \o MethodPath(c) \o <<>>) = {c}
  BY <1>1, <1>3, <1>5, <1>6, MethodArrives
<1>8. client.base \o MethodPath(c) \o <<>> = client.base \o MethodPath(c)
  <2>1. client.base \o MethodPath(c) \in Text
    BY <1>4, BasesAreTexts, TextConcat
  <2>2. QED
    BY <2>1, NothingBehind
<1>9. QED
  BY <1>7, <1>8 DEF c

(***************************************************************************)
(* Where a path of a method is in a longer one.                            *)
(***************************************************************************)

ListIn(path, b, k) == Len(path) = b + 2 /\ path[b + 2] = Plural[k]

RouteIn(path, b, k, e, r) ==
    /\ Len(path) = b + 5 + Len(e)
    /\ path[b + 2] = Plural[k] /\ path[b + 3] = "/"
    /\ \A i \in 1 .. Len(e) : path[b + 3 + i] = e[i]
    /\ path[b + 5 + Len(e)] = r

ItemIn(path, b, k, e, f) ==
    /\ Len(path) = b + 6 + Len(e) + Len(f)
    /\ path[b + 2] = Plural[k] /\ path[b + 3] = "/"
    /\ \A i \in 1 .. Len(e) : path[b + 3 + i] = e[i]
    /\ path[b + 6 + Len(e)] = "/"
    /\ \A i \in 1 .. Len(f) : path[b + 6 + Len(e) + i] = f[i]

\* A text at the end of a path.
Ends(path, b, p) == Len(path) = b + Len(p) /\ \A i \in 1 .. Len(p) : path[b + i] = p[i]

\* How the path of a route ends.
LEMMA RouteEnds ==
    ASSUME NEW path, NEW b \in Nat, NEW p, Ends(path, b, p), NEW k, NEW e \in Text, NEW r,
           IsRouteOn(p, k, e, r)
    PROVE  RouteIn(path, b, k, e, r)
<1>1. Len(e) \in Nat /\ Len(p) = 5 + Len(e)
  BY TextSymbols DEF IsRouteOn
<1>2. Len(path) = b + 5 + Len(e)
  BY <1>1 DEF Ends
<1>3. path[b + 2] = Plural[k] /\ path[b + 3] = "/"
  BY <1>1 DEF Ends, IsRouteOn
<1>4. ASSUME NEW i \in 1 .. Len(e) PROVE path[b + 3 + i] = e[i]
  <2>1. 3 + i \in 1 .. Len(p) /\ b + (3 + i) = b + 3 + i
    BY <1>1
  <2>2. path[b + (3 + i)] = p[3 + i]
    BY <2>1 DEF Ends
  <2>3. QED
    BY <2>1, <2>2 DEF IsRouteOn
<1>5. path[b + 5 + Len(e)] = r
  <2>1. 5 + Len(e) \in 1 .. Len(p) /\ b + (5 + Len(e)) = b + 5 + Len(e)
    BY <1>1
  <2>2. path[b + (5 + Len(e))] = p[5 + Len(e)]
    BY <2>1 DEF Ends
  <2>3. QED
    BY <2>1, <2>2 DEF IsRouteOn
<1>6. QED
  BY <1>2, <1>3, <1>4, <1>5 DEF RouteIn

\* How the path of a data resource ends.
LEMMA ItemEnds ==
    ASSUME NEW path, NEW b \in Nat, NEW p, Ends(path, b, p), NEW k, NEW e \in Text, NEW f \in Text,
           IsItemOn(p, k, e, f)
    PROVE  ItemIn(path, b, k, e, f)
<1>1. Len(e) \in Nat /\ Len(f) \in Nat /\ Len(p) = 6 + Len(e) + Len(f)
  BY TextSymbols DEF IsItemOn
<1>2. Len(path) = b + 6 + Len(e) + Len(f)
  BY <1>1 DEF Ends
<1>3. path[b + 2] = Plural[k] /\ path[b + 3] = "/"
  BY <1>1 DEF Ends, IsItemOn
<1>4. ASSUME NEW i \in 1 .. Len(e) PROVE path[b + 3 + i] = e[i]
  <2>1. 3 + i \in 1 .. Len(p) /\ b + (3 + i) = b + 3 + i
    BY <1>1
  <2>2. path[b + (3 + i)] = p[3 + i]
    BY <2>1 DEF Ends
  <2>3. QED
    BY <2>1, <2>2 DEF IsItemOn
<1>5. path[b + 6 + Len(e)] = "/"
  <2>1. 6 + Len(e) \in 1 .. Len(p) /\ b + (6 + Len(e)) = b + 6 + Len(e)
    BY <1>1
  <2>2. path[b + (6 + Len(e))] = p[6 + Len(e)]
    BY <2>1 DEF Ends
  <2>3. QED
    BY <2>1, <2>2 DEF IsItemOn
<1>6. ASSUME NEW i \in 1 .. Len(f) PROVE path[b + 6 + Len(e) + i] = f[i]
  <2>1. 6 + Len(e) + i \in 1 .. Len(p) /\ b + (6 + Len(e) + i) = b + 6 + Len(e) + i
    BY <1>1
  <2>2. path[b + (6 + Len(e) + i)] = p[6 + Len(e) + i]
    BY <2>1 DEF Ends
  <2>3. QED
    BY <2>1, <2>2 DEF IsItemOn
<1>7. QED
  BY <1>2, <1>3, <1>4, <1>5, <1>6 DEF ItemIn

\* What is routed behind the version prefix has these forms as well.
LEMMA RouteBehind ==
    ASSUME NEW path \in Text, NEW rest \in Text, Behind(path, rest),
           NEW k, NEW e, NEW r, RoutePath(rest, k, e, r)
    PROVE  RouteIn(path, Len(V1Prefix), k, e, r)
<1> DEFINE m == Len(V1Prefix)
<1>1. m \in Nat /\ Len(e) \in Nat /\ Len(rest) = 4 + Len(e)
  BY PrefixFacts, TextSymbols DEF RoutePath, Names, Segment
<1> HIDE DEF m
<1>2. Len(path) = m + 1 + Len(rest) /\ \A i \in 1 .. Len(rest) : path[m + 1 + i] = rest[i]
  BY DEF Behind, m
<1>3. Len(path) = m + 5 + Len(e)
  BY <1>1, <1>2
<1>4. path[m + 2] = Plural[k] /\ path[m + 3] = "/"
  <2>1. 1 \in 1 .. Len(rest) /\ 2 \in 1 .. Len(rest) /\ m + 1 + 1 = m + 2 /\ m + 1 + 2 = m + 3
    BY <1>1
  <2>2. QED
    BY <1>2, <2>1 DEF RoutePath, Names
<1>5. ASSUME NEW i \in 1 .. Len(e) PROVE path[m + 3 + i] = e[i]
  <2>1. 3 - 1 + i \in 1 .. Len(rest) /\ m + 1 + (3 - 1 + i) = m + 3 + i
    BY <1>1
  <2>2. path[m + 1 + (3 - 1 + i)] = rest[3 - 1 + i]
    BY <1>2, <2>1
  <2>3. QED
    BY <2>1, <2>2 DEF RoutePath, Names, At
<1>6. path[m + 5 + Len(e)] = r
  <2>1. 4 + Len(e) \in 1 .. Len(rest) /\ m + 1 + (4 + Len(e)) = m + 5 + Len(e)
    BY <1>1
  <2>2. path[m + 1 + (4 + Len(e))] = rest[4 + Len(e)]
    BY <1>2, <2>1
  <2>3. QED
    BY <2>1, <2>2 DEF RoutePath
<1>7. QED
  BY <1>3, <1>4, <1>5, <1>6 DEF RouteIn, m

\* A data resource behind the version prefix.
LEMMA ItemBehind ==
    ASSUME NEW path \in Text, NEW rest \in Text, Behind(path, rest),
           NEW k, NEW e, NEW f, ItemPath(rest, k, e, f)
    PROVE  ItemIn(path, Len(V1Prefix), k, e, f)
<1> DEFINE m == Len(V1Prefix)
<1>1. m \in Nat /\ Len(e) \in Nat /\ Len(f) \in Nat /\ Len(rest) = 5 + Len(e) + Len(f)
  BY PrefixFacts, TextSymbols DEF ItemPath, Names, Segment
<1> HIDE DEF m
<1>2. Len(path) = m + 1 + Len(rest) /\ \A i \in 1 .. Len(rest) : path[m + 1 + i] = rest[i]
  BY DEF Behind, m
<1>3. Len(path) = m + 6 + Len(e) + Len(f)
  BY <1>1, <1>2
<1>4. path[m + 2] = Plural[k] /\ path[m + 3] = "/"
  <2>1. 1 \in 1 .. Len(rest) /\ 2 \in 1 .. Len(rest) /\ m + 1 + 1 = m + 2 /\ m + 1 + 2 = m + 3
    BY <1>1
  <2>2. QED
    BY <1>2, <2>1 DEF ItemPath, Names
<1>5. ASSUME NEW i \in 1 .. Len(e) PROVE path[m + 3 + i] = e[i]
  <2>1. 3 - 1 + i \in 1 .. Len(rest) /\ m + 1 + (3 - 1 + i) = m + 3 + i
    BY <1>1
  <2>2. path[m + 1 + (3 - 1 + i)] = rest[3 - 1 + i]
    BY <1>2, <2>1
  <2>3. QED
    BY <2>1, <2>2 DEF ItemPath, Names, At
<1>6. path[m + 6 + Len(e)] = "/"
  <2>1. 5 + Len(e) \in 1 .. Len(rest) /\ m + 1 + (5 + Len(e)) = m + 6 + Len(e)
    BY <1>1
  <2>2. path[m + 1 + (5 + Len(e))] = rest[5 + Len(e)]
    BY <1>2, <2>1
  <2>3. QED
    BY <2>1, <2>2 DEF ItemPath
<1>7. ASSUME NEW i \in 1 .. Len(f) PROVE path[m + 6 + Len(e) + i] = f[i]
  <2>1. /\ 6 + Len(e) - 1 + i \in 1 .. Len(rest)
        /\ m + 1 + (6 + Len(e) - 1 + i) = m + 6 + Len(e) + i
    BY <1>1
  <2>2. path[m + 1 + (6 + Len(e) - 1 + i)] = rest[6 + Len(e) - 1 + i]
    BY <1>2, <2>1
  <2>3. rest[6 + Len(e) - 1 + i] = f[i]
    BY DEF ItemPath, At
  <2>4. QED
    BY <2>1, <2>2, <2>3
<1>8. QED
  BY <1>3, <1>4, <1>5, <1>6, <1>7 DEF ItemIn, m

\* A segment between a "/" and a position of a path.
SegmentTo(path, last, e) ==
    /\ Len(e) < last /\ path[last - Len(e)] = "/"
    /\ \A i \in 1 .. Len(e) : path[last - Len(e) + i] = e[i]

\* A segment between the same slashes is the same.
LEMMA OneSegment ==
    ASSUME NEW path \in Text, NEW last \in 1 .. Len(path), NEW e \in Text, NEW f \in Text,
           Avoids(e, "/"), Avoids(f, "/"), SegmentTo(path, last, e), SegmentTo(path, last, f)
    PROVE  e = f
  BY SameSegment DEF SegmentTo

\* The name of a collection stands for one kind.
LEMMA SamePlural ==
    \A k, l \in Kinds : Plural[k] = Plural[l] => k = l
  BY PluralsDiffer

\* A path that ends as one route of one entity is in no other.
LEMMA OneRouteIn ==
    ASSUME NEW path \in Text, NEW a \in Nat, NEW b \in Nat, NEW k \in Kinds, NEW l \in Kinds,
           NEW e \in Text, NEW f \in Text, Avoids(e, "/"), Avoids(f, "/"), NEW r, NEW q,
           RouteIn(path, a, k, e, r), RouteIn(path, b, l, f, q)
    PROVE  k = l /\ e = f /\ r = q
<1> DEFINE last == Len(path) - 2
<1>1. Len(e) \in Nat /\ Len(f) \in Nat
  BY TextSymbols
<1>2. Len(path) = a + 5 + Len(e) /\ Len(path) = b + 5 + Len(f)
  BY DEF RouteIn
<1>3. last \in 1 .. Len(path) /\ last - Len(e) = a + 3 /\ last - Len(f) = b + 3
      /\ Len(e) < last /\ Len(f) < last
  BY <1>1, <1>2
<1> HIDE DEF last
<1>4. SegmentTo(path, last, e)
  BY <1>3 DEF SegmentTo, RouteIn
<1>5. SegmentTo(path, last, f)
  BY <1>3 DEF SegmentTo, RouteIn
<1>6. e = f
  BY <1>3, <1>4, <1>5, OneSegment
<1>7. a = b
  BY <1>1, <1>2, <1>6
<1>8. Plural[k] = Plural[l] /\ r = q
  BY <1>6, <1>7 DEF RouteIn
<1>9. QED
  BY <1>6, <1>8, SamePlural

\* A path that ends as one data resource is no other.
LEMMA OneItemIn ==
    ASSUME NEW path \in Text, NEW a \in Nat, NEW b \in Nat, NEW k \in Kinds, NEW l \in Kinds,
           NEW e \in Text, NEW f \in Text, Avoids(e, "/"), Avoids(f, "/"),
           NEW x \in Text, NEW y \in Text, Avoids(x, "/"), Avoids(y, "/"),
           ItemIn(path, a, k, e, x), ItemIn(path, b, l, f, y)
    PROVE  k = l /\ e = f /\ x = y
<1> DEFINE end  == Len(path)
           last == end - Len(x) - 3
<1>1. Len(e) \in Nat /\ Len(f) \in Nat /\ Len(x) \in Nat /\ Len(y) \in Nat
  BY TextSymbols
<1>2. end = a + 6 + Len(e) + Len(x) /\ end = b + 6 + Len(f) + Len(y)
  BY DEF ItemIn
<1>3. /\ end \in 1 .. Len(path) /\ Len(x) < end /\ Len(y) < end
      /\ end - Len(x) = a + 6 + Len(e) /\ end - Len(y) = b + 6 + Len(f)
  BY <1>1, <1>2
<1>4. SegmentTo(path, end, x)
  <2> HIDE DEF end
  <2>1. QED
    BY <1>3 DEF SegmentTo, ItemIn
<1>5. SegmentTo(path, end, y)
  <2> HIDE DEF end
  <2>1. QED
    BY <1>3 DEF SegmentTo, ItemIn
<1>6. x = y
  <2> HIDE DEF end
  <2>1. QED
    BY <1>3, <1>4, <1>5, OneSegment
<1>7. last \in 1 .. Len(path) /\ last - Len(e) = a + 3 /\ last - Len(f) = b + 3
      /\ Len(e) < last /\ Len(f) < last
  BY <1>1, <1>2, <1>6
<1> HIDE DEF end, last
<1>8. SegmentTo(path, last, e)
  BY <1>7 DEF SegmentTo, ItemIn
<1>9. SegmentTo(path, last, f)
  BY <1>7 DEF SegmentTo, ItemIn
<1>10. e = f
  BY <1>7, <1>8, <1>9, OneSegment
<1>11. a = b
  BY <1>7, <1>10
<1>12. Plural[k] = Plural[l]
  BY <1>11 DEF ItemIn
<1>13. QED
  BY <1>6, <1>10, <1>12, SamePlural

(***************************************************************************)
(* The types of the bodies.                                                *)
(***************************************************************************)

\* The bodies of the routes.
LEMMA Bodies ==
    /\ BodyType("list") = "Entities" /\ BodyType("data-item") = "ReadResponse"
    /\ BodyType("root") = "EntityCapabilities" /\ BodyType("capabilities") = "EntityCapabilities"
    /\ BodyType("version-info") = "version-info"
    /\ \A k \in Kinds : \A r \in SubRoutes[k] : BodyType(r) \in DataCollections \cup {"Entities"}
<1>1. /\ BodyType("list") = "Entities" /\ BodyType("data-item") = "ReadResponse"
      /\ BodyType("root") = "EntityCapabilities" /\ BodyType("capabilities") = "EntityCapabilities"
      /\ BodyType("version-info") = "version-info"
  BY DEF BodyType, DataCollections
<1>2. ASSUME NEW k \in Kinds, NEW r \in SubRoutes[k]
      PROVE  BodyType(r) \in DataCollections \cup {"Entities"}
  <2>1. r \in {"hosts", "belongs-to", "is-located-on", "contains"} \cup DataCollections
    BY DEF Kinds, SubRoutes
  <2>2. CASE r \in {"hosts", "belongs-to", "is-located-on", "contains"}
    <3>1. BodyType(r) = "Entities"
      BY <2>2 DEF BodyType, DataCollections
    <3>2. QED
      BY <3>1
  <2>3. CASE r \in DataCollections
    <3>1. BodyType(r) = r
      BY <2>3 DEF BodyType, DataCollections
    <3>2. QED
      BY <2>3, <3>1
  <2>4. QED
    BY <2>1, <2>2, <2>3
<1>3. QED
  BY <1>1, <1>2

\* The calls that a path can be taken for: nothing but the version info, the root and
\* capabilities, or one of the forms above.
LEMMA RoutedForms ==
    ASSUME NEW path \in Text, NEW d \in PathCalls(path)
    PROVE  \/ d.route \in {"version-info", "root", "capabilities"}
           \/ \E l \in Kinds : /\ ListIn(path, Len(V1Prefix), l)
                               /\ d = Call("list", l, <<>>, <<>>) /\ PathCalls(path) = {d}
           \/ \E l \in Kinds : \E f, q :
                 /\ RouteIn(path, Len(V1Prefix), l, f, q)
                 /\ Segment(f) /\ q \in SubRoutes[l]
                 /\ d = Call(q, l, Decode(f), <<>>) /\ PathCalls(path) = {d}
           \/ \E l \in Kinds : \E f, y :
                 /\ ItemIn(path, Len(V1Prefix), l, f, y)
                 /\ Segment(f) /\ Segment(y)
                 /\ d = Call("data-item", l, Decode(f), Decode(y))
                 /\ PathCalls(path) = {d}
<1>1. CASE d.route \in {"version-info", "root"}
  BY <1>1
<1>2. ASSUME NEW rest \in Text, Behind(path, rest), d \in V1Calls(rest)
      PROVE  \/ d.route = "capabilities"
             \/ \E l \in Kinds : /\ ListIn(path, Len(V1Prefix), l)
                                 /\ d = Call("list", l, <<>>, <<>>) /\ PathCalls(path) = {d}
             \/ \E l \in Kinds : \E f, q :
                   /\ RouteIn(path, Len(V1Prefix), l, f, q)
                   /\ Segment(f) /\ q \in SubRoutes[l]
                   /\ d = Call(q, l, Decode(f), <<>>) /\ PathCalls(path) = {d}
             \/ \E l \in Kinds : \E f, y :
                   /\ ItemIn(path, Len(V1Prefix), l, f, y)
                   /\ Segment(f) /\ Segment(y)
                   /\ d = Call("data-item", l, Decode(f), Decode(y))
                   /\ PathCalls(path) = {d}
  <2>1. PathCalls(path) = V1Calls(rest)
    BY <1>2, BehindIsRouted
  <2>2. PICK l \in Kinds : Shape(rest, d, l)
    BY <1>2, V1Shape
  <2>3. CASE rest = <<Plural[l]>> /\ d = Call("list", l, <<>>, <<>>)
    <3>1. PathCalls(path) = {d}
      BY <2>1, <2>3, ListIsRouted
    <3>2. ListIn(path, Len(V1Prefix), l)
      <4>1. Len(rest) = 1 /\ rest[1] = Plural[l] /\ Len(V1Prefix) \in Nat
        BY <2>3, PrefixFacts
      <4>2. Len(path) = Len(V1Prefix) + 1 + Len(rest)
        BY <1>2 DEF Behind
      <4>3. path[Len(V1Prefix) + 1 + 1] = rest[1]
        BY <1>2, <4>1 DEF Behind
      <4>4. Len(V1Prefix) + 1 + 1 = Len(V1Prefix) + 2
        BY <4>1
      <4>5. QED
        BY <4>1, <4>2, <4>3, <4>4 DEF ListIn
    <3>3. QED
      BY <2>3, <3>1, <3>2
  <2>4. CASE \E f : EntityPath(rest, l, f) /\ d = Call("capabilities", l, Decode(f), <<>>)
    BY <2>4, CallFields
  <2>5. CASE \E f, q : RoutePath(rest, l, f, q) /\ d = Call(q, l, Decode(f), <<>>)
    <3>1. PICK f, q : RoutePath(rest, l, f, q) /\ d = Call(q, l, Decode(f), <<>>)
      BY <2>5
    <3>2. PathCalls(path) = {d}
      BY <2>1, <3>1, RouteIsRouted
    <3>3. Segment(f) /\ q \in SubRoutes[l]
      BY <3>1 DEF RoutePath, Names
    <3>4. RouteIn(path, Len(V1Prefix), l, f, q)
      BY <1>2, <3>1, RouteBehind
    <3>5. QED
      BY <3>1, <3>2, <3>3, <3>4
  <2>6. CASE \E f, y : ItemPath(rest, l, f, y) /\ d = Call("data-item", l, Decode(f), Decode(y))
    <3>1. PICK f, y : ItemPath(rest, l, f, y) /\ d = Call("data-item", l, Decode(f), Decode(y))
      BY <2>6
    <3>2. PathCalls(path) = {d}
      BY <2>1, <3>1, ItemIsRouted
    <3>3. Segment(f) /\ Segment(y)
      BY <3>1 DEF ItemPath, Names
    <3>4. ItemIn(path, Len(V1Prefix), l, f, y)
      BY <1>2, <3>1, ItemBehind
    <3>5. QED
      BY <3>1, <3>2, <3>3, <3>4
  <2>7. QED
    BY <2>2, <2>3, <2>4, <2>5, <2>6 DEF Shape
<1>3. QED
  BY <1>1, <1>2, RoutedIsBehind

(***************************************************************************)
(* A client with any base URI: a success is what was named.                *)
(***************************************************************************)

\* Routes with a body of the same type.
LEMMA OtherBodies ==
    {"EntityCapabilities", "version-info", "ReadResponse"} \cap (DataCollections \cup {"Entities"}) = {}
  BY DEF DataCollections

\* If the body of the answer has the type that a method expects, it is the answer that
\* the method asked for.
LEMMA SameBodySameCall ==
    ASSUME NEW path \in Text, NEW b \in Nat, NEW k \in Kinds, NEW c, IsMethodCall(c, k),
           Ends(path, b, MethodPath(c)),
           NEW d \in PathCalls(path), BodyType(d.route) = BodyType(c.route)
    PROVE  PathCalls(path) = {c}
<1> DEFINE m == Len(V1Prefix)
<1>1. m \in Nat
  BY PrefixFacts
<1>2. CASE c = Call("list", k, <<>>, <<>>)
  <2>1. BodyType(d.route) = "Entities"
    BY <1>2, Bodies, CallFields
  <2>2. ListIn(path, b, k)
    <3> DEFINE p == <<"/", Plural[k]>>
    <3>1. Len(p) = 2 /\ p[2] = Plural[k]
      OBVIOUS
    <3>2. MethodPath(c) = p
      BY <1>2, MethodPathIs
    <3> HIDE DEF p
    <3>3. Ends(path, b, p)
      BY <3>2
    <3>4. 2 \in 1 .. Len(p)
      BY <3>1
    <3>5. Len(path) = b + 2
      BY <3>1, <3>3 DEF Ends
    <3>6. path[b + 2] = Plural[k]
      BY <3>1, <3>3, <3>4 DEF Ends
    <3>7. QED
      BY <3>5, <3>6 DEF ListIn
  <2>3. d.route \notin {"version-info", "root", "capabilities"}
    BY <2>1, Bodies
  <2>4. ASSUME NEW l \in Kinds, ListIn(path, m, l), d = Call("list", l, <<>>, <<>>)
        PROVE  c = d
    <3>1. b = m
      BY <1>1, <2>2, <2>4 DEF ListIn
    <3>2. Plural[l] = Plural[k]
      BY <2>2, <2>4, <3>1 DEF ListIn
    <3>3. QED
      BY <1>2, <2>4, <3>2, SamePlural
  <2>5. ASSUME NEW l \in Kinds, NEW f, NEW q \in SubRoutes[l], RouteIn(path, m, l, f, q)
        PROVE  FALSE
    <3>1. path[Len(path)] = Plural[k]
      BY <2>2 DEF ListIn
    <3>2. path[Len(path)] = q
      BY <2>5 DEF RouteIn
    <3>3. QED
      BY <3>1, <3>2, PluralsDiffer
  <2>6. \A l, f, y : d # Call("data-item", l, f, y)
    BY <2>1, Bodies, CallFields
  <2>7. QED
    BY <2>3, <2>4, <2>5, <2>6, RoutedForms
<1>3. ASSUME NEW id \in Text, NEW r \in SubRoutes[k], c = Call(r, k, id, <<>>)
      PROVE  PathCalls(path) = {c}
  <2> DEFINE e == ClientEncode(id)
  <2>1. e \in Text /\ Avoids(e, "/") /\ Decode(e) = id
    BY EncodedIds
  <2>2. r \in Symbols /\ r \notin {"list", "data-item"}
    BY RouteNames, NoQuestionMarks
  <2>3. MethodPath(c) = EntityOn(k, e) \o <<"/", r>>
    BY <1>3, <2>2, RouteMethodPath
  <2> HIDE DEF e
  <2>4. IsRouteOn(MethodPath(c), k, e, r)
    BY <2>1, <2>2, <2>3, RouteOnIs
  <2>5. RouteIn(path, b, k, e, r)
    BY <2>1, <2>4, RouteEnds
  <2>6. BodyType(d.route) \in DataCollections \cup {"Entities"}
    BY <1>3, Bodies, CallFields
  <2>7. d.route \notin {"version-info", "root", "capabilities"}
    BY <2>6, Bodies, OtherBodies
  <2>8. ASSUME NEW l \in Kinds, ListIn(path, m, l)
        PROVE  FALSE
    <3>1. path[Len(path)] = Plural[l]
      BY <2>8 DEF ListIn
    <3>2. path[Len(path)] = r
      BY <2>5 DEF RouteIn
    <3>3. QED
      BY <3>1, <3>2, PluralsDiffer
  <2>9. ASSUME NEW l \in Kinds, NEW f, NEW q, RouteIn(path, m, l, f, q), Segment(f),
               d = Call(q, l, Decode(f), <<>>)
        PROVE  c = d
    <3>1. f \in Text /\ Avoids(f, "/")
      BY <2>9 DEF Segment
    <3>2. k = l /\ e = f /\ r = q
      BY <1>1, <2>1, <2>5, <2>9, <3>1, OneRouteIn
    <3>3. QED
      BY <1>3, <2>1, <2>9, <3>2
  <2>10. \A l, f, y : d # Call("data-item", l, f, y)
    BY <2>6, Bodies, OtherBodies, CallFields
  <2>11. QED
    BY <2>7, <2>8, <2>9, <2>10, RoutedForms
<1>4. ASSUME NEW id \in Text, NEW item \in Text, c = Call("data-item", k, id, item)
      PROVE  PathCalls(path) = {c}
  <2> DEFINE e == ClientEncode(id)
             x == ClientEncode(item)
  <2>1. e \in Text /\ Avoids(e, "/") /\ Decode(e) = id
    BY EncodedIds
  <2>2. x \in Text /\ Avoids(x, "/") /\ Decode(x) = item
    BY EncodedIds
  <2>3. MethodPath(c) = EntityOn(k, e) \o <<"/", "data", "/">> \o x
    BY <1>4, MethodPathIs
  <2> HIDE DEF e, x
  <2>4. IsItemOn(MethodPath(c), k, e, x)
    BY <2>1, <2>2, <2>3, ItemOnIs
  <2>5. ItemIn(path, b, k, e, x)
    BY <2>1, <2>2, <2>4, ItemEnds
  <2>6. BodyType(d.route) = "ReadResponse"
    BY <1>4, Bodies, CallFields
  <2>7. d.route \notin {"version-info", "root", "capabilities"}
    BY <2>6, Bodies
  <2>8. \A l : d # Call("list", l, <<>>, <<>>)
    BY <2>6, Bodies, CallFields
  <2>9. ASSUME NEW l \in Kinds, NEW f, NEW q \in SubRoutes[l], d = Call(q, l, f, <<>>)
        PROVE  FALSE
    BY <2>6, <2>9, Bodies, OtherBodies, CallFields
  <2>10. ASSUME NEW l \in Kinds, NEW f, NEW y, ItemIn(path, m, l, f, y), Segment(f), Segment(y),
                d = Call("data-item", l, Decode(f), Decode(y))
         PROVE  c = d
    <3>1. f \in Text /\ Avoids(f, "/") /\ y \in Text /\ Avoids(y, "/")
      BY <2>10 DEF Segment
    <3>2. k = l /\ e = f /\ x = y
      <4>1. ItemIn(path, m, l, f, y)
        BY <2>10
      <4>2. e \in Text /\ Avoids(e, "/") /\ x \in Text /\ Avoids(x, "/")
        BY <2>1, <2>2
      <4> HIDE DEF m
      <4>3. \A e1, e2, x1, x2 \in Text :
               /\ Avoids(e1, "/") /\ Avoids(e2, "/") /\ Avoids(x1, "/") /\ Avoids(x2, "/")
               /\ ItemIn(path, b, k, e1, x1) /\ ItemIn(path, m, l, e2, x2)
               => k = l /\ e1 = e2 /\ x1 = x2
        BY <1>1, OneItemIn
      <4>4. QED
        BY <2>5, <3>1, <4>1, <4>2, <4>3
    <3>3. QED
      BY <1>4, <2>1, <2>2, <2>10, <3>2
  <2>11. QED
    BY <2>7, <2>8, <2>9, <2>10, RoutedForms
<1>5. QED
  BY <1>2, <1>3, <1>4 DEF IsMethodCall

\* The path of a method is a text that a query does not begin in.
LEMMA MethodPathFacts ==
    ASSUME NEW k \in Kinds, NEW c, IsMethodCall(c, k)
    PROVE  MethodPath(c) \in Text /\ Avoids(MethodPath(c), "?")
<1>1. CASE c = Call("list", k, <<>>, <<>>)
  <2> DEFINE p == <<"/", Plural[k]>>
  <2>1. p \in Text /\ Len(p) = 2 /\ p[1] = "/" /\ p[2] = Plural[k]
    BY RouteNames, PairIsText
  <2>2. MethodPath(c) = p
    BY <1>1, MethodPathIs
  <2> HIDE DEF p
  <2>3. \A i \in 1 .. Len(p) : i = 1 \/ i = 2
    BY <2>1
  <2>4. Avoids(p, "?")
    BY <2>1, <2>3, NoQuestionMarks DEF Avoids
  <2>5. QED
    BY <2>1, <2>2, <2>4
<1>2. ASSUME NEW id \in Text, NEW r \in SubRoutes[k], c = Call(r, k, id, <<>>)
      PROVE  MethodPath(c) \in Text /\ Avoids(MethodPath(c), "?")
  <2> DEFINE e == ClientEncode(id)
  <2>1. e \in Text /\ Avoids(e, "?")
    BY EncodedIds
  <2>2. r \in Symbols /\ r \notin {"list", "data-item"}
    BY RouteNames, NoQuestionMarks
  <2>3. MethodPath(c) = EntityOn(k, e) \o <<"/", r>>
    BY <1>2, <2>2, RouteMethodPath
  <2> HIDE DEF e
  <2>4. IsRouteOn(MethodPath(c), k, e, r)
    BY <2>1, <2>2, <2>3, RouteOnIs
  <2>5. Avoids(MethodPath(c), "?")
    BY <2>1, <2>4, RouteOnAvoids
  <2>6. QED
    BY <2>4, <2>5 DEF IsRouteOn
<1>3. ASSUME NEW id \in Text, NEW item \in Text, c = Call("data-item", k, id, item)
      PROVE  MethodPath(c) \in Text /\ Avoids(MethodPath(c), "?")
  <2> DEFINE e == ClientEncode(id)
             x == ClientEncode(item)
  <2>1. e \in Text /\ Avoids(e, "?") /\ x \in Text /\ Avoids(x, "?")
    BY EncodedIds
  <2>2. MethodPath(c) = EntityOn(k, e) \o <<"/", "data", "/">> \o x
    BY <1>3, MethodPathIs
  <2> HIDE DEF e, x
  <2>3. IsItemOn(MethodPath(c), k, e, x)
    BY <2>1, <2>2, ItemOnIs
  <2>4. Avoids(MethodPath(c), "?")
    BY <2>1, <2>3, ItemOnAvoids
  <2>5. QED
    BY <2>3, <2>4 DEF IsItemOn
<1>4. QED
  BY <1>1, <1>2, <1>3 DEF IsMethodCall

\* Where the query of a URI begins.
QueryAt(uri, q) == q \in 2 .. Len(uri) /\ uri[q] = "?" /\ \A i \in 1 .. q - 1 : uri[i] # "?"

\* A URI with a query has a first "?".
LEMMA QueriesBegin ==
    ASSUME NEW uri \in Text, uri # <<>>, uri[1] # "?", ~Avoids(uri, "?")
    PROVE  \E q : QueryAt(uri, q)
<1> DEFINE Q == {i \in 1 .. Len(uri) : uri[i] = "?"}
<1>1. Q \subseteq Nat /\ Q # {} /\ Len(uri) \in Nat
  BY TextSymbols DEF Avoids
<1>2. PICK q \in Q : \A i \in Q : q <= i
  <2> HIDE DEF Q
  <2>1. QED
    BY <1>1, LeastNumber
<1>3. ASSUME NEW i \in 1 .. q - 1 PROVE uri[i] # "?"
  <2>1. i \in 1 .. Len(uri) /\ ~(q <= i)
    BY <1>1, <1>2
  <2>2. QED
    BY <1>2, <2>1
<1>4. q \in 2 .. Len(uri) /\ uri[q] = "?"
  BY <1>1, <1>2
<1>5. QED
  BY <1>3, <1>4 DEF QueryAt

\* What is behind the first "?" is not in the path.
LEMMA QuerySwallows ==
    ASSUME NEW uri \in Text, NEW q, QueryAt(uri, q), NEW t \in Text
    PROVE  QueryAt(uri \o t, q) /\ Path(uri \o t) = Path(uri)
<1> DEFINE longer == uri \o t
<1>1. /\ longer \in Text /\ Len(longer) = Len(uri) + Len(t)
      /\ Len(uri) \in Nat /\ Len(t) \in Nat
      /\ \A i \in 1 .. Len(uri) : longer[i] = uri[i]
  BY TextConcat
<1> HIDE DEF longer
<1>2. q \in 2 .. Len(uri) /\ q \in 1 .. Len(uri) /\ q \in 2 .. Len(longer) /\ q \in 1 .. Len(longer)
      /\ uri[q] = "?" /\ \A i \in 1 .. q - 1 : uri[i] # "?"
  BY <1>1 DEF QueryAt
<1>3. longer[q] = "?" /\ \A i \in 1 .. q - 1 : longer[i] # "?"
  BY <1>1, <1>2
<1>4. Seqs!SelectInSeq(longer, LAMBDA x : x = "?") = q
  BY <1>1, <1>2, <1>3, FirstQuestionMark
<1>5. Seqs!SelectInSeq(uri, LAMBDA x : x = "?") = q
  BY <1>2, FirstQuestionMark
<1>6. Path(longer) = SubSeq(longer, 2, q - 1) /\ Path(uri) = SubSeq(uri, 2, q - 1)
  <2>1. q # 0
    BY <1>2
  <2>2. Path(longer) = SubSeq(longer, 2, q - 1)
    BY <1>4, <2>1 DEF Path
  <2>3. Path(uri) = SubSeq(uri, 2, q - 1)
    BY <1>5, <2>1 DEF Path
  <2>4. QED
    BY <2>2, <2>3
<1>7. SubSeq(longer, 2, q - 1) = SubSeq(uri, 2, q - 1)
  <2> DEFINE s == SubSeq(longer, 2, q - 1)
             u == SubSeq(uri, 2, q - 1)
  <2>1. q - 1 \in Int /\ 2 \in Int /\ \A i \in 2 .. q - 1 : longer[i] \in Symbols /\ uri[i] \in Symbols
    BY <1>1, <1>2, TextSymbols
  <2>2. /\ s \in Seq(Symbols)
        /\ Len(s) = IF 2 <= q - 1 THEN q - 1 - 2 + 1 ELSE 0
        /\ \A i \in 1 .. q - 1 - 2 + 1 : s[i] = longer[2 + i - 1]
    BY <2>1, SubSeqProperties
  <2>3. /\ u \in Seq(Symbols)
        /\ Len(u) = IF 2 <= q - 1 THEN q - 1 - 2 + 1 ELSE 0
        /\ \A i \in 1 .. q - 1 - 2 + 1 : u[i] = uri[2 + i - 1]
    BY <2>1, SubSeqProperties
  <2> HIDE DEF s, u
  <2>4. ASSUME NEW i \in 1 .. Len(s) PROVE s[i] = u[i]
    <3>1. i \in 1 .. q - 1 - 2 + 1 /\ 2 + i - 1 \in 1 .. Len(uri)
      BY <1>1, <1>2, <2>2
    <3>2. QED
      BY <1>1, <2>2, <2>3, <3>1
  <2>5. s = u
    BY <2>2, <2>3, <2>4, TextEqual DEF Text
  <2>6. QED
    BY <2>5 DEF s, u
<1>8. QED
  BY <1>2, <1>3, <1>6, <1>7 DEF QueryAt, longer

\* The request for a method.
LEMMA RequestIs ==
    ASSUME NEW client \in Clients, NEW m \in Methods
    PROVE  /\ Arrives[client][m]
                 = Calls(client.base \o MethodPath(m.call) \o SchemaQuery(m.schema))
           /\ Query(SchemaQuery(m.schema))
           /\ \E k \in Kinds : IsMethodCall(m.call, k)
<1>1. Arrives[client][m] = Calls(RequestText(client, m))
  BY DEF Arrives
<1>2. Query(SchemaQuery(m.schema))
  BY DEF Query, SchemaQuery
<1>3. IsMethod(m)
  BY MethodsMean
<1>4. QED
  BY <1>1, <1>2, <1>3 DEF RequestText, BuildUriWithQuery, IsMethod

\* A client with a query in its base URI gets the base URI.
LEMMA QueryClientsGetTheBase ==
    ASSUME NEW client \in Clients, HasQuery(client), NEW m \in Methods
    PROVE  Arrives[client][m] = Calls(client.base)
<1> DEFINE p == MethodPath(m.call)
           s == SchemaQuery(m.schema)
<1>1. Arrives[client][m] = Calls(client.base \o p \o s) /\ Query(s)
  BY RequestIs
<1>2. PICK k \in Kinds : IsMethodCall(m.call, k)
  BY RequestIs
<1>3. p \in Text /\ s \in Text
  BY <1>1, <1>2, MethodPathFacts, QueryFacts
<1>4. client.base \in Text /\ client.base # <<>> /\ client.base[1] # "?"
  BY BasesAreTexts
<1>5. ~Avoids(client.base, "?")
  BY <1>4, TextSymbols DEF HasQuery, Avoids
<1>6. PICK q : QueryAt(client.base, q)
  BY <1>4, <1>5, QueriesBegin
<1> HIDE DEF p, s
<1>7. QueryAt(client.base \o p, q) /\ Path(client.base \o p) = Path(client.base)
  BY <1>3, <1>4, <1>6, QuerySwallows
<1>8. client.base \o p \in Text
  BY <1>3, <1>4, TextConcat
<1>9. Path(client.base \o p \o s) = Path(client.base \o p)
  BY <1>3, <1>7, <1>8, QuerySwallows
<1>10. QED
  BY <1>1, <1>7, <1>9 DEF Calls

\* p appended to the path of base.
Appended(path, base, p) ==
    /\ path \in Text
    /\ Len(path) = Len(base) - 1 + Len(p)
    /\ \A i \in 1 .. Len(base) - 1 : path[i] = base[i + 1]
    /\ \A i \in 1 .. Len(p) : path[Len(base) - 1 + i] = p[i]

\* A path appended to a base URI without a query.
LEMMA AppendedIs ==
    ASSUME NEW base \in Text, base # <<>>, Avoids(base, "?"),
           NEW p \in Text, Avoids(p, "?"), NEW query, Query(query)
    PROVE  Appended(Path(base \o p \o query), base, p)
<1>1. /\ Path(base \o p \o query) \in Text
      /\ Len(Path(base \o p \o query)) = Len(base) - 1 + Len(p)
      /\ \A i \in 1 .. Len(base) - 1 : Path(base \o p \o query)[i] = base[i + 1]
      /\ \A i \in 1 .. Len(p) : Path(base \o p \o query)[Len(base) - 1 + i] = p[i]
  BY AppendedPath
<1>2. QED
  BY <1>1 DEF Appended

\* The path of the request ends with the path of the method.
LEMMA RequestEnds ==
    ASSUME NEW client \in Clients, ~HasQuery(client), NEW m \in Methods
    PROVE  \E path \in Text, b \in Nat : /\ Arrives[client][m] = PathCalls(path)
                                         /\ Ends(path, b, MethodPath(m.call))
<1> DEFINE p == MethodPath(m.call)
           s == SchemaQuery(m.schema)
           path == Path(client.base \o p \o s)
<1>1. Arrives[client][m] = Calls(client.base \o p \o s) /\ Query(s)
  BY RequestIs
<1>2. PICK k \in Kinds : IsMethodCall(m.call, k)
  BY RequestIs
<1>3. p \in Text /\ Avoids(p, "?")
  BY <1>2, MethodPathFacts
<1>4. client.base \in Text /\ client.base # <<>>
  BY BasesAreTexts
<1>5. Avoids(client.base, "?")
  BY <1>4, TextSymbols DEF HasQuery, Avoids
<1> HIDE DEF p, s
<1>6. /\ path \in Text
      /\ Len(path) = Len(client.base) - 1 + Len(p)
      /\ \A i \in 1 .. Len(p) : path[Len(client.base) - 1 + i] = p[i]
  <2>1. Appended(Path(client.base \o p \o s), client.base, p)
    BY <1>1, <1>3, <1>4, <1>5, AppendedIs
  <2>2. QED
    BY <2>1 DEF Appended
<1>7. Len(client.base) - 1 \in Nat
  BY <1>4, EmptySeq, TextSymbols DEF Text
<1> HIDE DEF path
<1>8. Ends(path, Len(client.base) - 1, p)
  BY <1>6 DEF Ends
<1>9. Arrives[client][m] = PathCalls(path)
  BY <1>1 DEF Calls, path
<1>10. QED
  BY <1>6, <1>7, <1>8, <1>9 DEF p

\* A success is the answer to the call that was named, whatever the base URI.
LEMMA SuccessIsWhatWasNamed ==
    ASSUME NEW client \in Clients, ~HasQuery(client), NEW m \in Methods, NEW outcome,
           Result(client, m, outcome).error = "none"
    PROVE  Arrives[client][m] = {m.call}
<1> DEFINE calls == Arrives[client][m]
           d     == CHOOSE c \in calls : TRUE
           answer == Handle(d, outcome)
<1>1. calls # {} /\ Result(client, m, outcome) = FromAnswer(m, d, answer)
  BY DEF Result, Fails
<1>2. d \in calls
  BY <1>1
<1> HIDE DEF answer, d
<1>3. BodyType(d.route) = BodyType(m.call.route)
  <2>1. FromAnswer(m, d, answer).error = "none"
    BY <1>1
  <2>2. answer.status = 200
    BY <2>1 DEF FromAnswer, Fails
  <2>3. QED
    BY <2>1, <2>2 DEF FromAnswer, Fails
<1>4. PICK path \in Text, b \in Nat : calls = PathCalls(path) /\ Ends(path, b, MethodPath(m.call))
  BY RequestEnds
<1>5. PICK k \in Kinds : IsMethodCall(m.call, k)
  BY RequestIs
<1> HIDE DEF calls
<1>6. PathCalls(path) = {m.call}
  BY <1>2, <1>3, <1>4, <1>5, SameBodySameCall
<1>7. QED
  BY <1>4, <1>6 DEF calls

\* A client with the right base URI is told what is missing.
LEMMA ProperClientsAreTold ==
    ASSUME NEW client \in Clients, Proper(client), NEW m \in Methods, Named(m.call),
           NEW outcome \in Outcomes(m.call), NEW result, result = Result(client, m, outcome)
    PROVE  /\ result.error \in {"none", "ApiError"}
           /\ result.error = "ApiError" => result.code # "none"
           /\ result.code = "entity-not-found" =>
                 EntityOf(m.call) \notin Live \/ m.call.route = "is-located-on"
<1> DEFINE answer == Handle(m.call, outcome)
<1>1. Arrives[client][m] = {m.call}
  BY ProperArrives
<1>2. (CHOOSE c \in {m.call} : TRUE) = m.call
  OBVIOUS
<1>3. Reaches(client)
  BY DEF Proper
<1>4. IsMethod(m)
  BY MethodsMean
<1>5. result = FromAnswer(m, m.call, answer)
  BY <1>1, <1>2, <1>3, <1>4 DEF Result, IsMethod
<1>6. PICK k \in Kinds : IsMethodCall(m.call, k)
  BY <1>4 DEF IsMethod
<1>7. /\ answer.status # 200 => answer.code # "none"
      /\ \/ answer.status = 200 \/ answer.code # "entity-not-found"
         \/ EntityOf(m.call) \notin Live \/ m.call.route = "is-located-on"
  <2>1. CASE m.call.route = "is-located-on"
    BY <1>6, <2>1, LocatedExplains
  <2>2. CASE m.call.route # "is-located-on"
    <3>1. Explains(answer, EntityOf(m.call))
      BY <1>6, <2>2, HandlersExplain
    <3>2. QED
      BY <3>1 DEF Explains
  <2>3. QED
    BY <2>1, <2>2
<1> HIDE DEF answer
<1>8. CASE answer.status = 200
  <2>1. result = Succeeds
    BY <1>5, <1>8 DEF FromAnswer
  <2>2. QED
    BY <2>1 DEF Succeeds
<1>9. CASE answer.status # 200
  <2>1. result = Fails("ApiError", answer.status, answer.code)
    BY <1>5, <1>9 DEF FromAnswer
  <2>2. result.error = "ApiError" /\ result.code = answer.code
    BY <2>1 DEF Fails
  <2>3. QED
    BY <1>7, <1>9, <2>2
<1>10. QED
  BY <1>8, <1>9

\* In every state: a success is about what was named, and an error of a client with the
\* right base URI tells what is missing, for every text of an id.
THEOREM ClientHolds == ClientFindsWhatItNames
<1>1. TextsArrive
  BY TextsHold
<1>2. ASSUME NEW client \in Clients, NEW m \in Methods, NEW outcome \in Outcomes(m.call)
      PROVE  LET result == Result(client, m, outcome)
                 e      == EntityOf(m.call)
             IN  /\ IF HasQuery(client) THEN Arrives[client][m] = Calls(client.base)
                    ELSE result.error = "none" => Arrives[client][m] = {m.call}
                 /\ Proper(client) /\ Named(m.call) =>
                       /\ result.error \in {"none", "ApiError"}
                       /\ result.error = "ApiError" => result.code # "none"
                       /\ result.code = "entity-not-found" =>
                             e \notin Live \/ m.call.route = "is-located-on"
  <2> DEFINE result == Result(client, m, outcome)
  <2>1. HasQuery(client) => Arrives[client][m] = Calls(client.base)
    BY QueryClientsGetTheBase
  <2>2. ~HasQuery(client) /\ result.error = "none" => Arrives[client][m] = {m.call}
    BY SuccessIsWhatWasNamed
  <2>3. Proper(client) /\ Named(m.call) =>
           /\ result.error \in {"none", "ApiError"}
           /\ result.error = "ApiError" => result.code # "none"
           /\ result.code = "entity-not-found" =>
                 EntityOf(m.call) \notin Live \/ m.call.route = "is-located-on"
    BY ProperClientsAreTold
  <2>4. QED
    BY <2>1, <2>2, <2>3
<1>3. QED
  BY <1>1, <1>2 DEF ClientFindsWhatItNames

\* ClientFindsWhatItNames holds in every state of the registry.
THEOREM ClientCorrect == StateSpec => []ClientFindsWhatItNames
  BY ClientHolds, PTL

(***************************************************************************)
(* From version-info to every live entity.                                 *)
(***************************************************************************)

\* A host with a path behind it.
HostPath(uri, path) ==
    /\ uri \in Text /\ Len(uri) = Len(path) + 1 /\ uri[1] # "?"
    /\ \A i \in 1 .. Len(path) : uri[i + 1] = path[i]

\* A host and a path are routed by the path.
LEMMA HostPathCalls ==
    ASSUME NEW path \in Text, Avoids(path, "?"), NEW uri, HostPath(uri, path)
    PROVE  Calls(uri) = PathCalls(path)
<1>1. Len(path) \in Nat
  BY TextSymbols
<1>2. uri \in Text /\ uri # <<>> /\ uri[1] # "?" /\ Len(uri) = Len(path) + 1
  BY <1>1, EmptyTexts DEF HostPath
<1>3. \A i \in 1 .. Len(path) : uri[i + 1] = path[i]
  BY DEF HostPath
<1>4. Path(uri) = path
  BY <1>1, <1>2, <1>3, PathIs
<1>5. QED
  BY <1>4 DEF Calls

\* A host before a path.
LEMMA HostBefore ==
    ASSUME NEW host \in Symbols, host # "?", NEW path \in Text
    PROVE  HostPath(<<host>> \o path, path) /\ <<host>> \in Text
<1> DEFINE h == <<host>>
<1>1. h \in Text /\ Len(h) = 1 /\ h[1] = host
  BY DEF Text
<1> HIDE DEF h
<1>2. /\ h \o path \in Text /\ Len(h \o path) = Len(h) + Len(path)
      /\ Len(path) \in Nat
      /\ \A i \in 1 .. Len(h) : (h \o path)[i] = h[i]
      /\ \A i \in 1 .. Len(path) : (h \o path)[Len(h) + i] = path[i]
  BY <1>1, TextConcat
<1>3. 1 \in 1 .. Len(h) /\ \A i \in 1 .. Len(path) : Len(h) + i = i + 1
  BY <1>1, <1>2
<1>4. (h \o path)[1] = host
  BY <1>1, <1>2, <1>3
<1>5. \A i \in 1 .. Len(path) : (h \o path)[i + 1] = path[i]
  BY <1>2, <1>3
<1>6. HostPath(h \o path, path)
  BY <1>1, <1>2, <1>4, <1>5 DEF HostPath
<1>7. QED
  BY <1>1, <1>6 DEF h

\* Texts are joined in any order.
LEMMA TextAssociative ==
    ASSUME NEW s \in Text, NEW t \in Text, NEW u \in Text
    PROVE  (s \o t) \o u = s \o (t \o u)
  BY ConcatAssociative DEF Text

\* The version info and the root are where a client looks for them.
LEMMA VersionInfoIsFound ==
    ASSUME NEW host \in Symbols, host # "?"
    PROVE  Calls(<<host>> \o NormalizedBase \o <<"/", "version-info">>)
              = {Call("version-info", "server", <<>>, <<>>)}
<1> DEFINE info == NormalizedBase \o <<"/", "version-info">>
           pair == <<"/", "version-info">>
           h    == <<host>>
<1>1. pair \in Text /\ Len(pair) = 2 /\ pair[1] = "/" /\ pair[2] = "version-info"
  BY RouteNames, PairIsText
<1>2. info \in Text /\ Avoids(info, "?")
  <2> HIDE DEF pair
  <2>1. /\ NormalizedBase \o pair \in Text
        /\ Len(NormalizedBase \o pair) = Len(NormalizedBase) + Len(pair)
        /\ Len(NormalizedBase) \in Nat
        /\ \A i \in 1 .. Len(NormalizedBase) : (NormalizedBase \o pair)[i] = NormalizedBase[i]
        /\ \A i \in 1 .. Len(pair) : (NormalizedBase \o pair)[Len(NormalizedBase) + i] = pair[i]
    BY <1>1, BaseFacts, TextConcat
  <2> DEFINE n == Len(NormalizedBase)
             whole == NormalizedBase \o pair
  <2> HIDE DEF whole
  <2>2. whole \in Text /\ Len(whole) = n + 2 /\ n \in Nat
        /\ (\A i \in 1 .. n : whole[i] = NormalizedBase[i])
        /\ whole[n + 1] = "/" /\ whole[n + 2] = "version-info"
    <3>1. 1 \in 1 .. Len(pair) /\ 2 \in 1 .. Len(pair)
      BY <1>1
    <3>2. QED
      BY <1>1, <2>1, <3>1 DEF whole
  <2>3. ASSUME NEW i \in 1 .. Len(whole) PROVE whole[i] # "?"
    <3>1. CASE i \in 1 .. n
      BY <2>2, <3>1, BaseFacts DEF Avoids
    <3>2. CASE i \notin 1 .. n
      <4>1. i = n + 1 \/ i = n + 2
        BY <2>2, <3>2
      <4>2. QED
        BY <2>2, <4>1
    <3>3. QED
      BY <3>1, <3>2
  <2>4. QED
    BY <2>2, <2>3 DEF Avoids, whole, pair
<1>3. h \o NormalizedBase \o pair = h \o info
  <2> HIDE DEF pair, h
  <2>1. h \in Text
    BY DEF h, Text
  <2>2. (h \o NormalizedBase) \o pair = h \o (NormalizedBase \o pair)
    BY <1>1, <2>1, BaseFacts, TextAssociative
  <2>3. QED
    BY <2>2 DEF pair
<1>4. HostPath(h \o info, info)
  <2> HIDE DEF info
  <2>1. QED
    BY <1>2, HostBefore
<1>5. PathCalls(info) = {Call("version-info", "server", <<>>, <<>>)}
  BY <1>2, FixedRoutes
<1> HIDE DEF info
<1>6. Calls(h \o info) = PathCalls(info)
  BY <1>2, <1>4, HostPathCalls
<1>7. QED
  BY <1>3, <1>5, <1>6

\* The versioned URI leads to the root.
LEMMA RootIsFound ==
    ASSUME NEW base, Versioned(base)
    PROVE  Calls(base) = {Call("root", "server", <<>>, <<>>)}
<1>1. HostPath(base, V1Prefix)
  <2>1. Len(V1Prefix) \in Nat
    BY PrefixFacts
  <2>2. Len(base) = Len(V1Prefix) + 1
    BY <2>1 DEF Versioned
  <2>3. QED
    BY <2>2 DEF Versioned, HostPath
<1>2. Calls(base) = PathCalls(V1Prefix)
  BY <1>1, PrefixFacts, HostPathCalls
<1>3. QED
  BY <1>2, PrefixFacts, FixedRoutes

\* No route takes an entity whose id is empty.
LEMMA NoEmptySegment ==
    ASSUME NEW k \in Kinds, NEW path \in Text, Len(path) = 2, path[1] = Plural[k], path[2] = "/"
    PROVE  V1Calls(path) = {}
<1>1. V1Calls(path) = KindCalls(path, k)
  BY OneKind
<1>2. Param(path, 3, 2) = {}
  BY DEF Param
<1>3. CapabilityCalls(path, k) = {}
  BY <1>2 DEF CapabilityCalls
<1>4. RouteCalls(path, k) = {}
  <2>1. ~\E r : RouteOf(path, k, r)
    BY DEF RouteOf
  <2>2. QED
    BY <2>1 DEF RouteCalls
<1>5. 4 .. Len(path) - 3 = {}
  OBVIOUS
<1>6. \A c : c \notin KindCalls(path, k)
  BY <1>3, <1>4, <1>5, KindCallsSplit
<1>7. QED
  BY <1>1, <1>6

\* The href of an entity with an empty id leads nowhere.
LEMMA EmptyIdIsNowhere ==
    ASSUME NEW base, Versioned(base), NEW k \in Kinds, NEW e \in Text, Len(e) = 0
    PROVE  Calls(base \o EntityOn(k, e)) = {}
<1> DEFINE p == EntityOn(k, e)
<1>1. p \in Text /\ Len(p) = 3 /\ p[1] = "/" /\ p[2] = Plural[k] /\ p[3] = "/"
  <2>1. /\ p \in Text /\ Len(p) = 3 + Len(e)
        /\ p[1] = "/" /\ p[2] = Plural[k] /\ p[3] = "/"
    BY EntityOnIs
  <2> HIDE DEF p
  <2>2. QED
    BY <2>1
<1>2. p # <<>> /\ Avoids(p, "?")
  <2>1. Avoids(e, "?")
    BY DEF Avoids
  <2>2. QED
    BY <2>1, EntityOnAvoids
<1> HIDE DEF p
<1>3. base \o p \o <<>> = base \o p
  <2>1. base \o p \in Text
    BY <1>1, TextConcat DEF Versioned
  <2>2. QED
    BY <2>1, NothingBehind
<1>4. RoutedBehind(Calls(base \o p \o <<>>), p)
  BY <1>1, <1>2, VersionedCalls DEF Query
<1>5. PICK rest \in Text : /\ Calls(base \o p \o <<>>) = V1Calls(rest)
                           /\ Len(p) = Len(rest) + 1
                           /\ \A i \in 1 .. Len(rest) : rest[i] = p[i + 1]
  BY <1>4 DEF RoutedBehind
<1>6. Len(rest) = 2
  <2>1. Len(rest) \in Nat /\ 3 = Len(rest) + 1
    BY <1>1, <1>5, TextSymbols
  <2>2. \A n \in Nat : 3 = n + 1 => n = 2
    OBVIOUS
  <2>3. QED
    BY <2>1, <2>2, Zenon
<1>7. rest[1] = Plural[k] /\ rest[2] = "/"
  <2>1. 1 \in 1 .. Len(rest) /\ 2 \in 1 .. Len(rest) /\ 1 + 1 = 2 /\ 2 + 1 = 3
    BY <1>6
  <2>2. rest[1] = p[1 + 1] /\ rest[2] = p[2 + 1]
    BY <1>5, <2>1
  <2>3. QED
    BY <1>1, <2>1, <2>2
<1>8. V1Calls(rest) = {}
  BY <1>6, <1>7, NoEmptySegment
<1>9. QED
  BY <1>3, <1>5, <1>8 DEF p

\* Three symbols with a text behind them.
HostAndTwo(text, x, y, z, tail) ==
    /\ text \in Text /\ Len(text) = 3 + Len(tail)
    /\ text[1] = x /\ text[2] = y /\ text[3] = z
    /\ \A i \in 1 .. Len(tail) : text[3 + i] = tail[i]

\* Three symbols before a text.
LEMMA HostAndTwoIs ==
    ASSUME NEW x \in Symbols, NEW y \in Symbols, NEW z \in Symbols, NEW tail \in Text
    PROVE  HostAndTwo(<<x, y, z>> \o tail, x, y, z, tail)
<1>1. /\ <<x, y, z>> \o tail \in Text /\ Len(<<x, y, z>> \o tail) = 3 + Len(tail)
      /\ (<<x, y, z>> \o tail)[1] = x /\ (<<x, y, z>> \o tail)[2] = y
      /\ (<<x, y, z>> \o tail)[3] = z
      /\ \A i \in 1 .. Len(tail) : (<<x, y, z>> \o tail)[3 + i] = tail[i]
  BY BehindThree
<1> DEFINE text == <<x, y, z>> \o tail
<1> HIDE DEF text
<1>2. HostAndTwo(text, x, y, z, tail)
  BY <1>1 DEF HostAndTwo, text
<1>3. QED
  BY <1>2 DEF text

\* For the default base, the URIs that the server hands out begin with a versioned base.
LEMMA VersionedUriIs ==
    ASSUME NormalizedBase = <<"/", "sovd">>, NEW host \in Symbols, host # "?"
    PROVE  Versioned(VersionedUri(host))
<1> DEFINE tail == <<"/", "v1">>
           uri  == <<host, "/", "sovd">> \o tail
<1>1. tail \in Text /\ Len(tail) = 2 /\ tail[1] = "/" /\ tail[2] = "v1"
  BY RouteNames, PairIsText
<1>2. /\ uri \in Text /\ Len(uri) = 3 + Len(tail)
      /\ uri[1] = host /\ uri[2] = "/" /\ uri[3] = "sovd"
      /\ \A i \in 1 .. Len(tail) : uri[3 + i] = tail[i]
  <2> HIDE DEF tail
  <2>1. "/" \in Symbols /\ "sovd" \in Symbols
    BY RouteNames
  <2>2. HostAndTwo(<<host, "/", "sovd">> \o tail, host, "/", "sovd", tail)
    BY <1>1, <2>1, HostAndTwoIs
  <2>3. QED
    BY <2>2 DEF HostAndTwo
<1>3. V1Prefix \in Text /\ Len(V1Prefix) = 4
      /\ V1Prefix[1] = "/" /\ V1Prefix[2] = "sovd" /\ V1Prefix[3] = "/" /\ V1Prefix[4] = "v1"
  <2>1. <<"/", "sovd">> \in Text /\ Len(<<"/", "sovd">>) = 2
        /\ <<"/", "sovd">>[1] = "/" /\ <<"/", "sovd">>[2] = "sovd"
    BY RouteNames, PairIsText
  <2>2. Len(NormalizedBase) = 2 /\ NormalizedBase[1] = "/" /\ NormalizedBase[2] = "sovd"
    BY <2>1
  <2>3. 1 \in 1 .. 2 /\ 2 \in 1 .. 2
    OBVIOUS
  <2>4. QED
    BY <2>2, <2>3, PrefixFacts
<1> HIDE DEF tail, uri
<1>4. uri[4] = "/" /\ uri[5] = "v1" /\ Len(uri) = 5
  <2>1. 1 \in 1 .. Len(tail) /\ 2 \in 1 .. Len(tail) /\ 3 + 1 = 4 /\ 3 + 2 = 5
    BY <1>1
  <2>2. uri[3 + 1] = tail[1] /\ uri[3 + 2] = tail[2]
    BY <1>2, <2>1
  <2>3. QED
    BY <1>1, <1>2, <2>1, <2>2
<1>5. \A i \in 1 .. 4 : i = 1 \/ i = 2 \/ i = 3 \/ i = 4
  OBVIOUS
<1>6. \A i \in 1 .. Len(V1Prefix) : uri[i + 1] = V1Prefix[i]
  BY <1>2, <1>3, <1>4, <1>5
<1>7. Versioned(uri)
  <2>1. uri \in Text /\ uri[1] # "?" /\ Len(uri) = 1 + Len(V1Prefix)
    <3>1. uri \in Text
      BY <1>2
    <3>2. uri[1] # "?"
      BY <1>2
    <3>3. Len(uri) = 1 + Len(V1Prefix)
      BY <1>3, <1>4
    <3>4. QED
      BY <3>1, <3>2, <3>3
  <2>2. QED
    BY <1>6, <2>1 DEF Versioned
<1>8. QED
  BY <1>7 DEF uri, tail, VersionedUri, BaseUri

\* The collections and the hrefs lead where they say, but for an empty id.
LEMMA CollectionLeads ==
    ASSUME NEW host, Versioned(VersionedUri(host)), NEW k \in Kinds
    PROVE  Calls(LinkText(host, CollectionUri(k))) = {Call("list", k, <<>>, <<>>)}
<1> DEFINE base == VersionedUri(host)
           p    == <<"/", Plural[k]>>
<1>1. LinkText(host, CollectionUri(k)) = base \o p
  BY DEF LinkText, CollectionUri, CollectionText
<1>2. Calls(base \o p \o <<>>) = {Call("list", k, <<>>, <<>>)}
  BY ListArrives DEF Query
<1>3. base \o p \o <<>> = base \o p
  <2>1. p \in Text
    BY RouteNames, PairIsText
  <2> HIDE DEF base, p
  <2>2. base \o p \in Text
    BY <2>1, TextConcat DEF Versioned, base
  <2>3. QED
    BY <2>2, NothingBehind
<1>4. QED
  BY <1>1, <1>2, <1>3

\* The text of an href is the path of the entity behind the versioned base.
LEMMA EntityTextIs ==
    ASSUME NEW host, VersionedUri(host) \in Text, NEW k \in Kinds, NEW e \in Text
    PROVE  CollectionText(host, k) \o <<"/">> \o e = VersionedUri(host) \o EntityOn(k, e)
<1> DEFINE base  == VersionedUri(host)
           list  == <<"/", Plural[k]>>
           slash == <<"/">>
<1>1. list \in Text /\ slash \in Text /\ base \in Text /\ list \o slash = <<"/", Plural[k], "/">>
  <2>1. list \in Text
    BY RouteNames, PairIsText
  <2>2. slash \in Text
    BY RouteNames DEF Text
  <2>3. list \o slash = <<"/", Plural[k], "/">>
    <3>1. /\ <<"/", Plural[k], "/">> \in Text /\ Len(<<"/", Plural[k], "/">>) = 3
          /\ <<"/", Plural[k], "/">>[1] = "/" /\ <<"/", Plural[k], "/">>[2] = Plural[k]
          /\ <<"/", Plural[k], "/">>[3] = "/"
      BY RouteNames, TripleIsText
    <3>2. Len(list) = 2 /\ list[1] = "/" /\ list[2] = Plural[k]
      BY RouteNames, PairIsText
    <3> DEFINE longer == list \o slash
               triple == <<"/", Plural[k], "/">>
    <3>3. /\ longer \in Text /\ Len(longer) = Len(list) + 1 /\ longer[Len(list) + 1] = "/"
          /\ \A i \in 1 .. Len(list) : longer[i] = list[i]
      BY <2>1, SlashBehind
    <3> HIDE DEF list, slash, longer, triple
    <3>4. Len(longer) = 3 /\ longer[3] = "/" /\ longer[1] = "/" /\ longer[2] = Plural[k]
      BY <3>2, <3>3
    <3>5. \A i \in 1 .. 3 : i = 1 \/ i = 2 \/ i = 3
      OBVIOUS
    <3>6. longer = triple
      <4>1. triple \in Text /\ Len(triple) = 3
            /\ triple[1] = "/" /\ triple[2] = Plural[k] /\ triple[3] = "/"
        BY <3>1 DEF triple
      <4>2. \A i \in 1 .. Len(longer) : longer[i] = triple[i]
        BY <3>4, <3>5, <4>1
      <4>3. QED
        BY <3>3, <3>4, <4>1, <4>2, TextEqual
    <3>7. QED
      BY <3>6 DEF longer, triple
  <2>4. QED
    BY <2>1, <2>2, <2>3
<1> DEFINE three == <<"/", Plural[k], "/">>
<1> HIDE DEF base, list, slash, three
<1>2. (base \o list) \o slash = base \o (list \o slash)
  BY <1>1, TextAssociative
<1>3. three \in Text
  <2>1. list \o slash = three
    BY <1>1 DEF three
  <2>2. QED
    BY <1>1, <2>1, TextConcat
<1>4. (base \o three) \o e = base \o (three \o e)
  <2>1. base \in Text
    BY <1>1
  <2>2. QED
    BY <1>3, <2>1, TextAssociative
<1>5. (base \o list) \o slash = base \o three
  BY <1>1, <1>2 DEF three
<1>6. QED
  BY <1>4, <1>5 DEF base, list, slash, three, CollectionText, EntityOn

\* An href leads to the capabilities of its entity.
LEMMA HrefLeads ==
    ASSUME NEW host, Versioned(VersionedUri(host)),
           NEW e, e.kind \in Kinds, e.id \in Text
    PROVE  Calls(LinkText(host, Href(e)))
              = IF e.id = <<>> THEN {} ELSE {Call("capabilities", e.kind, e.id, <<>>)}
<1> DEFINE base == VersionedUri(host)
           text == EncodePathSegment(e.id)
           k    == e.kind
           p    == EntityOn(k, text)
<1>0. k \in Kinds
  OBVIOUS
<1>1. /\ text \in Text /\ Avoids(text, "?") /\ Decode(text) = e.id
      /\ e.id # <<>> => Segment(text)
      /\ e.id = <<>> => text = <<>>
  BY EncodedIds
<1> HIDE DEF text, k
<1>2. LinkText(host, Href(e)) = base \o p
  <2>1. LinkText(host, Href(e)) = EntityText(host, e)
    BY DEF LinkText, Href, Uri
  <2>2. EntityText(host, e) = CollectionText(host, k) \o <<"/">> \o text
    BY DEF EntityText, text, k
  <2>3. QED
    BY <1>0, <1>1, <2>1, <2>2, EntityTextIs DEF Versioned
<1>3. base \o p \o <<>> = base \o p
  <2>1. p \in Text
    BY <1>0, <1>1, EntityOnIs
  <2> HIDE DEF base, p
  <2>2. base \o p \in Text
    BY <2>1, TextConcat DEF Versioned, base
  <2>3. QED
    BY <2>2, NothingBehind
<1>4. CASE e.id = <<>>
  <2>1. Len(text) = 0
    BY <1>1, <1>4, EmptyTexts
  <2>2. Calls(base \o p) = {}
    BY <1>0, <1>1, <2>1, EmptyIdIsNowhere
  <2>3. QED
    BY <1>2, <1>4, <2>2
<1>5. CASE e.id # <<>>
  <2>1. Calls(base \o p \o <<>>) = {Call("capabilities", k, Decode(text), <<>>)}
    <3>1. Query(<<>>) /\ Segment(text) /\ Avoids(text, "?") /\ Versioned(base)
      BY <1>1, <1>5 DEF Query
    <3> DEFINE query == <<>>
    <3>2. Query(query)
      BY <3>1
    <3> HIDE DEF base, query
    <3>3. Calls(base \o EntityOn(k, text) \o query)
             = {Call("capabilities", k, Decode(text), <<>>)}
      BY <1>0, <1>1, <3>1, <3>2, EntityArrives
    <3>4. QED
      BY <3>3 DEF query
  <2>2. QED
    BY <1>1, <1>2, <1>3, <1>5, <2>1 DEF k
<1>6. QED
  BY <1>4, <1>5

\* What entities are.
LEMMA EntityFacts ==
    ASSUME NEW e \in Entities
    PROVE  e.kind \in Kinds /\ e.id \in Text /\ e = [kind |-> e.kind, id |-> e.id]
  BY TextsAreTexts DEF Entities, ComponentRef, AppRef, AreaRef, Kinds

\* Whoever is live is an entity.
LEMMA LiveAreEntities == StateTypeOK => Live \subseteq Entities
  BY DEF StateTypeOK, Live, Entities

\* What a client finds that follows the texts is what is live.
LEMMA FoundIs ==
    ASSUME StateTypeOK, NEW client \in Clients, Versioned(VersionedUri(Host(client))), NEW query
    PROVE  Found(client, query) = Tagged({e \in Live : e.id # <<>>}, query)
<1>1. \A k \in Kinds : Leads[client][CollectionUri(k)] = {Call("list", k, <<>>, <<>>)}
  <2>1. \A k \in Kinds : CollectionUri(k) \in Uris
    BY DEF Uris
  <2>2. QED
    BY <2>1, CollectionLeads DEF Leads
<1>2. ASSUME NEW e \in Entities
      PROVE  Leads[client][Href(e)]
                = IF e.id = <<>> THEN {} ELSE {Call("capabilities", e.kind, e.id, <<>>)}
  <2>1. Href(e) \in Uris
    BY DEF Uris
  <2>2. QED
    BY <2>1, EntityFacts, HrefLeads DEF Leads
<1>3. ASSUME NEW e \in Entities
      PROVE  CollectionUri(e.kind) \in RootCapabilities.refs <=> \E x \in Live : x.kind = e.kind
  BY DEF CollectionUri, RootCapabilities, Ok
<1>4. ASSUME NEW e \in Entities
      PROVE  Href(e) \in EntityList(e.kind, query).refs
                <=> e \in Tagged({x \in Live : x.kind = e.kind}, query)
  BY DEF Href, Uri, EntityList, Collection, Ok
<1>5. ASSUME NEW e \in Entities, e \in Live, e.id # <<>>, NEW call,
             call = Call("capabilities", e.kind, e.id, <<>>)
      PROVE  EntityOf(call) = e /\ Handle(call, "Ok").status = 200
  <2>1. call.route = "capabilities" /\ call.kind = e.kind /\ call.id = e.id
    BY <1>5, CallFields
  <2>2. EntityOf(call) = e
    BY <2>1, EntityFacts DEF EntityOf
  <2>3. Handle(call, "Ok") = Get(Href(e), {})
    BY <2>1, <2>2 DEF Handle, Href, Uri
  <2>4. QED
    BY <1>5, <2>2, <2>3, LiveEntitiesAnswer
<1>6. ASSUME NEW e
      PROVE  e \in Found(client, query) <=> e \in Tagged({x \in Live : x.id # <<>>}, query)
  <2>1. ASSUME e \in Found(client, query)
        PROVE  e \in Tagged({x \in Live : x.id # <<>>}, query)
    <3>1. e \in Entities /\ Href(e) \in EntityList(e.kind, query).refs
          /\ Leads[client][Href(e)] # {}
      BY <2>1 DEF Found
    <3>2. e.id # <<>>
      BY <1>2, <3>1
    <3>3. e \in Tagged({x \in Live : x.kind = e.kind}, query)
      BY <1>4, <3>1
    <3>4. QED
      BY <3>2, <3>3 DEF Tagged
  <2>2. ASSUME e \in Tagged({x \in Live : x.id # <<>>}, query)
        PROVE  e \in Found(client, query)
    <3>1. e \in Live /\ e.id # <<>> /\ e \in Entities
      BY <2>2, LiveAreEntities DEF Tagged
    <3>2. e \in Tagged({x \in Live : x.kind = e.kind}, query)
      BY <2>2, <3>1 DEF Tagged
    <3>3. CollectionUri(e.kind) \in RootCapabilities.refs
      BY <1>3, <3>1
    <3>4. Href(e) \in EntityList(e.kind, query).refs
      BY <1>4, <3>1, <3>2
    <3>5. Leads[client][CollectionUri(e.kind)] = {Call("list", e.kind, <<>>, <<>>)}
      BY <1>1, <3>1, EntityFacts
    <3>6. Leads[client][Href(e)] = {Call("capabilities", e.kind, e.id, <<>>)}
      BY <1>2, <3>1
    <3>7. \E call \in Leads[client][Href(e)] :
             EntityOf(call) = e /\ Handle(call, "Ok").status = 200
      BY <1>5, <3>1, <3>6
    <3>8. QED
      BY <3>1, <3>3, <3>4, <3>5, <3>7 DEF Found
  <2>3. QED
    BY <2>1, <2>2
<1>7. QED
  BY <1>6

\* In a well-typed state everything can be found, if the server has the base of its hrefs.
THEOREM FoundHolds ==
    ASSUME NormalizedBase = <<"/", "sovd">>, StateTypeOK
    PROVE  EverythingCanBeFound
<1> SUFFICES ASSUME NEW client \in Clients, NEW query \in Queries
             PROVE  FindsRoot[client]
                    /\ Found(client, query) = Tagged({e \in Live : e.id # <<>>}, query)
  BY DEF EverythingCanBeFound
<1>1. Host(client) \in Symbols /\ Host(client) # "?"
  BY BasesAreTexts, EmptySeq DEF Host, Text
<1>2. Versioned(VersionedUri(Host(client)))
  BY <1>1, VersionedUriIs
<1>3. FindsRoot[client]
  BY <1>1, <1>2, VersionInfoIsFound, RootIsFound DEF FindsRoot
<1>4. QED
  BY <1>2, <1>3, FoundIs

\* EverythingCanBeFound holds in every state of the registry, if the base of the server is
\* the one that its hrefs have: what other bases break is HrefsIncludeBase.
THEOREM FoundCorrect ==
    ASSUME NormalizedBase = <<"/", "sovd">>
    PROVE  StateSpec => []EverythingCanBeFound
<1>1. StateTypeOK => EverythingCanBeFound
  BY FoundHolds
<1>2. QED
  BY <1>1, StateTypeCorrect, PTL

=============================================================================
