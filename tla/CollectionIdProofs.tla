------------------------ MODULE CollectionIdProofs --------------------------
(***************************************************************************)
(* What the hashed text of a collection tells apart, for books of every    *)
(* length with any fields.  The text is put together recursively, so most  *)
(* of this is induction over the length of the book, which rests on the    *)
(* well-foundedness of the natural numbers.                                *)
(***************************************************************************)
EXTENDS CollectionId, SequenceTheorems, WellFoundedInduction, TLAPS

-----------------------------------------------------------------------------
(* Induction *)

\* A set of numbers that is not empty has a least one.
LEMMA LeastNumber ==
  ASSUME NEW T \in SUBSET Nat, T # {}
  PROVE  \E x \in T : \A y \in T : ~(y < x)
  <1>. DEFINE R == OpToRel(<, Nat)
  <1>1. IsWellFoundedOn(R, Nat)
    BY NatLessThanWellFounded
  <1>2. \E x \in T : \A y \in T : ~(<<y, x>> \in R)
    <2>. HIDE DEF R
    <2>. QED
      BY <1>1, WFMin
  <1>. QED
    BY <1>2 DEF OpToRel

\* Induction, with a set in place of a property.
LEMMA SetInduction ==
  ASSUME NEW S \in SUBSET Nat, 0 \in S, \A n \in S : n + 1 \in S
  PROVE  S = Nat
  <1>1. SUFFICES ASSUME Nat \ S # {} PROVE FALSE
    OBVIOUS
  <1>2. PICK x \in Nat \ S : \A y \in Nat \ S : ~(y < x)
    BY <1>1, LeastNumber
  <1>3. x - 1 \in Nat /\ x - 1 < x
    BY <1>2
  <1>4. x - 1 \in S
    BY <1>2, <1>3
  <1>. QED
    BY <1>4, <1>2

\* The texts of the first i elements of s, for every i up to n.
PrefixesOf(S, s, n) ==
  {f \in [0..n -> Seq(S)] : f[0] = <<>> /\ \A i \in 1..n : f[i] = f[i - 1] \o s[i]}

\* One more text can be joined.
LEMMA ExtendPrefixes ==
  ASSUME NEW S, NEW s \in Seq(Seq(S)), NEW n \in Nat, n < Len(s), NEW f \in PrefixesOf(S, s, n)
  PROVE  PrefixesOf(S, s, n + 1) # {}
  <1>1. f[n] \in Seq(S) /\ s[n + 1] \in Seq(S)
    BY DEF PrefixesOf
  <1>2. PICK last : last \in Seq(S) /\ last = f[n] \o s[n + 1]
    BY <1>1, ConcatProperties
  <1>. DEFINE g == [i \in 0..(n + 1) |-> IF i = n + 1 THEN last ELSE f[i]]
  <1>3. g \in [0..(n + 1) -> Seq(S)]
    BY <1>2 DEF PrefixesOf
  <1>4. /\ g[n + 1] = last
        /\ \A i \in 0..n : g[i] = f[i]
    OBVIOUS
  <1>. HIDE DEF g
  <1>5. \A i \in 1..(n + 1) : g[i] = g[i - 1] \o s[i]
    <2>. SUFFICES ASSUME NEW i \in 1..(n + 1) PROVE g[i] = g[i - 1] \o s[i]
      OBVIOUS
    <2>1. CASE i = n + 1
      <3>1. g[i - 1] = f[n]
        BY <1>4, <2>1
      <3>. QED
        BY <1>2, <1>4, <2>1, <3>1
    <2>2. CASE i # n + 1
      <3>1. i \in 1..n /\ i - 1 \in 0..n /\ i \in 0..n
        BY <2>2
      <3>2. f[i] = f[i - 1] \o s[i]
        BY <3>1 DEF PrefixesOf
      <3>. QED
        BY <1>4, <3>1, <3>2
    <2>. QED
      BY <2>1, <2>2
  <1>6. g[0] = <<>>
    BY <1>4 DEF PrefixesOf
  <1>. QED
    BY <1>3, <1>5, <1>6 DEF PrefixesOf

\* The texts of the first elements exist for all of a sequence.
LEMMA PrefixesExist ==
  ASSUME NEW S, NEW s \in Seq(Seq(S))
  PROVE  PrefixesOf(S, s, Len(s)) # {}
  <1>. DEFINE N == {n \in Nat : n <= Len(s) => PrefixesOf(S, s, n) # {}}
  <1>1. 0 \in N
    <2>1. [i \in 0..0 |-> <<>>] \in PrefixesOf(S, s, 0)
      <3>1. <<>> \in Seq(S)
        OBVIOUS
      <3>. QED
        BY <3>1 DEF PrefixesOf
    <2>. QED
      BY <2>1
  <1>2. ASSUME NEW n \in N PROVE n + 1 \in N
    BY ExtendPrefixes
  <1>. HIDE DEF N
  <1>3. N = Nat
    <2>1. N \in SUBSET Nat
      BY DEF N
    <2>. QED
      BY <1>1, <1>2, <2>1, SetInduction
  <1>4. Len(s) \in N
    BY <1>3
  <1>. QED
    BY <1>4 DEF N

\* The sequence joined is the last of these texts.
LEMMA FlattenIsPrefix ==
  ASSUME NEW S, NEW s \in Seq(Seq(S)), NEW f \in PrefixesOf(S, s, Len(s))
  PROVE  FlattenSeq(s) = f[Len(s)]
  <1>1. CASE Len(s) = 0
    BY <1>1 DEF FlattenSeq, PrefixesOf
  <1>2. CASE Len(s) # 0
    <2>. DEFINE Eq(h) == h = [i \in 1..Len(s) |-> IF i = 1 THEN s[i] ELSE h[i - 1] \o s[i]]
                flatten == CHOOSE h : Eq(h)
                g == [i \in 1..Len(s) |-> f[i]]
                N == {n \in Nat : n + 1 <= Len(s) => flatten[n + 1] = f[n + 1]}
    <2>1. FlattenSeq(s) = flatten[Len(s)]
      BY <1>2 DEF FlattenSeq
    <2>2. f[1] = s[1]
      <3>1. 1 \in 1..Len(s) /\ s[1] \in Seq(S)
        BY <1>2
      <3>2. f[0] = <<>> /\ \A i \in 1..Len(s) : f[i] = f[i - 1] \o s[i]
        BY DEF PrefixesOf
      <3>3. f[1] = f[1 - 1] \o s[1]
        BY <3>1, <3>2, Zenon
      <3>4. 1 - 1 = 0
        OBVIOUS
      <3>5. f[1] = f[0] \o s[1]
        BY <3>3, <3>4, Zenon
      <3>. QED
        BY <3>1, <3>2, <3>5, ConcatEmptySeq
    <2>3. ASSUME NEW i \in 1..Len(s)
          PROVE  f[i] = IF i = 1 THEN s[i] ELSE f[i - 1] \o s[i]
      BY <2>2 DEF PrefixesOf
    <2>4. Eq(g)
      <3>1. ASSUME NEW i \in 1..Len(s)
            PROVE  g[i] = IF i = 1 THEN s[i] ELSE g[i - 1] \o s[i]
        <4>1. CASE i = 1
          BY <2>3, <4>1
        <4>2. CASE i # 1
          <5>1. i - 1 \in 1..Len(s) /\ g[i] = f[i]
            BY <4>2
          <5>2. g[i - 1] = f[i - 1]
            BY <5>1
          <5>. QED
            BY <2>3, <4>2, <5>1, <5>2
        <4>. QED
          BY <4>1, <4>2
      <3>. HIDE DEF g
      <3>2. g = [i \in 1..Len(s) |-> g[i]]
        BY DEF g
      <3>. QED
        BY <3>1, <3>2
    <2>5. Eq(flatten)
      <3>. HIDE DEF Eq, g
      <3>. QED
        BY <2>4
    <2>. HIDE DEF flatten
    <2>6. \A i \in 1..Len(s) : flatten[i] = IF i = 1 THEN s[i] ELSE flatten[i - 1] \o s[i]
      BY <2>5
    <2>. HIDE DEF Eq, g
    <2>7. 0 \in N
      BY <2>2, <2>6
    <2>8. ASSUME NEW n \in N PROVE n + 1 \in N
      <3>. SUFFICES ASSUME n + 2 <= Len(s) PROVE flatten[n + 2] = f[n + 2]
        OBVIOUS
      <3>1. n + 2 \in 1..Len(s) /\ n + 2 # 1 /\ (n + 2) - 1 = n + 1
        OBVIOUS
      <3>2. flatten[n + 2] = flatten[n + 1] \o s[n + 2] /\ f[n + 2] = f[n + 1] \o s[n + 2]
        BY <2>3, <2>6, <3>1
      <3>3. flatten[n + 1] = f[n + 1]
        OBVIOUS
      <3>. QED
        BY <3>2, <3>3
    <2>. HIDE DEF N
    <2>9. N = Nat
      <3>1. N \in SUBSET Nat
        BY DEF N
      <3>. QED
        BY <2>7, <2>8, <3>1, SetInduction
    <2>10. Len(s) - 1 \in N
      BY <1>2, <2>9
    <2>. QED
      BY <1>2, <2>1, <2>10 DEF N
  <1>. QED
    BY <1>1, <1>2

-----------------------------------------------------------------------------
(* Splitting a text *)

\* Two splits of one text at the same place have the same parts.
LEMMA SplitUnique ==
  ASSUME NEW S, NEW x \in Seq(S), NEW y \in Seq(S), NEW u \in Seq(S), NEW v \in Seq(S),
         x \o u = y \o v, Len(x) = Len(y)
  PROVE  x = y /\ u = v
  <1>1. \A i \in 1..Len(x) : (x \o u)[i] = x[i] /\ (y \o v)[i] = y[i]
    BY ConcatProperties
  <1>2. x = y
    BY <1>1, SeqEqual
  <1>3. u = v
    BY <1>2, ConcatSimplifications
  <1>. QED
    BY <1>2, <1>3

\* A line of the text.
Line == [key : {"url", "title", "revision"} \cup Range(Keys),
         value : Titles \cup Urls \cup Revisions \cup {Empty}]

\* The line for what an article refers to.
MainLine(item) ==
  IF item.url # Empty THEN [key |-> "url", value |-> item.url]
                      ELSE [key |-> "title", value |-> item.title]

\* An article is one line, or two of which the last is its revision.
LEMMA ArticleLines ==
  ASSUME NEW item \in Article
  PROVE  /\ UpdateArticle(item) \in Seq(Line)
         /\ Len(UpdateArticle(item)) = IF item.revision = Empty THEN 1 ELSE 2
         /\ item.revision = Empty => UpdateArticle(item) = <<MainLine(item)>>
         /\ item.revision # Empty =>
              UpdateArticle(item) = <<MainLine(item), [key |-> "revision", value |-> item.revision]>>
         /\ MainLine(item) \in Line
         /\ MainLine(item).key # "revision"
  <1>1. MainLine(item) \in Line /\ MainLine(item).key # "revision"
    BY DEF MainLine, Line, Article
  <1>2. [key |-> "revision", value |-> item.revision] \in Line
    BY DEF Line, Article
  <1>3. UpdateArticle(item) = <<MainLine(item)>> \o
          (IF item.revision # Empty THEN <<[key |-> "revision", value |-> item.revision]>> ELSE <<>>)
    BY DEF UpdateArticle, UpdateLine, MainLine
  <1>4. CASE item.revision = Empty
    <2>1. UpdateArticle(item) = <<MainLine(item)>> \o <<>>
      BY <1>3, <1>4
    <2>2. <<MainLine(item)>> \in Seq(Line)
      BY <1>1
    <2>3. UpdateArticle(item) = <<MainLine(item)>>
      BY <2>1, <2>2, ConcatEmptySeq
    <2>. QED
      BY <1>1, <1>4, <2>2, <2>3
  <1>5. CASE item.revision # Empty
    <2>. DEFINE main == MainLine(item)
                revision == [key |-> "revision", value |-> item.revision]
    <2>1. UpdateArticle(item) = <<main>> \o <<revision>>
      BY <1>3, <1>5
    <2>2. main \in Line /\ revision \in Line
      BY <1>1, <1>2
    <2>. HIDE DEF main, revision
    <2>3. <<main>> \o <<revision>> = <<main, revision>>
      <3>. DEFINE joined == <<main>> \o <<revision>>
                  pair == <<main, revision>>
      <3>1. /\ <<main>> \in Seq(Line) /\ Len(<<main>>) = 1 /\ <<main>>[1] = main
            /\ <<revision>> \in Seq(Line) /\ Len(<<revision>>) = 1 /\ <<revision>>[1] = revision
            /\ pair \in Seq(Line) /\ Len(pair) = 2 /\ pair[1] = main /\ pair[2] = revision
        BY <2>2
      <3>2. /\ joined \in Seq(Line) /\ Len(joined) = 2
            /\ joined[1] = main /\ joined[2] = revision
        BY <3>1, ConcatProperties
      <3>. HIDE DEF joined, pair
      <3>3. \A i \in 1..Len(joined) : joined[i] = pair[i]
        BY <3>1, <3>2
      <3>4. joined = pair
        BY <3>1, <3>2, <3>3, SeqEqual
      <3>. QED
        BY <3>4 DEF joined, pair
    <2>4. <<main, revision>> \in Seq(Line)
      BY <2>2
    <2>. QED
      BY <1>1, <1>5, <2>1, <2>3, <2>4 DEF main, revision
  <1>. QED
    BY <1>4, <1>5

After(x, item) == x \o UpdateArticle(item)

\* The last article of a text can be told from what comes before it.
LEMMA LastArticle ==
  ASSUME NEW x \in Seq(Line), NEW y \in Seq(Line), NEW a \in Article, NEW b \in Article,
         After(x, a) = After(y, b)
  PROVE  x = y /\ Reference(a) = Reference(b)
  <1>. DEFINE u == UpdateArticle(a)
              v == UpdateArticle(b)
              ra == [key |-> "revision", value |-> a.revision]
              rb == [key |-> "revision", value |-> b.revision]
              ma == MainLine(a)
              mb == MainLine(b)
  <1>1. /\ u \in Seq(Line) /\ ma.key # "revision"
        /\ a.revision = Empty => u = <<ma>>
        /\ a.revision # Empty => u = <<ma, ra>>
    BY ArticleLines
  <1>2. /\ v \in Seq(Line) /\ mb.key # "revision"
        /\ b.revision = Empty => v = <<mb>>
        /\ b.revision # Empty => v = <<mb, rb>>
    BY ArticleLines
  <1>3. ra.key = "revision" /\ rb.key = "revision" /\ ra.value = a.revision /\ rb.value = b.revision
    OBVIOUS
  <1>. HIDE DEF u, v, ra, rb, ma, mb
  <1>4. /\ Len(u) \in {1, 2} /\ Len(v) \in {1, 2}
        /\ u[1] = ma /\ v[1] = mb
        /\ Len(u) = 2 => u[2] = ra
        /\ Len(v) = 2 => v[2] = rb
        /\ Len(u) = 1 <=> a.revision = Empty
        /\ Len(v) = 1 <=> b.revision = Empty
    BY <1>1, <1>2
  <1>5. x \o u = y \o v
    BY DEF u, v, After
  <1>6. /\ Len(x) + Len(u) = Len(y) + Len(v)
        /\ (x \o u)[Len(x) + Len(u)] = u[Len(u)]
        /\ (y \o v)[Len(y) + Len(v)] = v[Len(v)]
    <2>1. /\ Len(x \o u) = Len(x) + Len(u)
          /\ \A i \in 1..Len(x) + Len(u) :
               (x \o u)[i] = IF i <= Len(x) THEN x[i] ELSE u[i - Len(x)]
      BY <1>1, ConcatProperties
    <2>2. /\ Len(y \o v) = Len(y) + Len(v)
          /\ \A i \in 1..Len(y) + Len(v) :
               (y \o v)[i] = IF i <= Len(y) THEN y[i] ELSE v[i - Len(y)]
      BY <1>2, ConcatProperties
    <2>3. Len(x) \in Nat /\ Len(y) \in Nat
      OBVIOUS
    <2>4. (x \o u)[Len(x) + Len(u)] = u[(Len(x) + Len(u)) - Len(x)]
      BY <1>4, <2>1, <2>3
    <2>5. (y \o v)[Len(y) + Len(v)] = v[(Len(y) + Len(v)) - Len(y)]
      BY <1>4, <2>2, <2>3
    <2>6. (Len(x) + Len(u)) - Len(x) = Len(u) /\ (Len(y) + Len(v)) - Len(y) = Len(v)
      BY <1>4, <2>3
    <2>. QED
      BY <1>5, <2>1, <2>2, <2>4, <2>5, <2>6
  <1>7. u[Len(u)] = v[Len(v)]
    BY <1>5, <1>6
  <1>8. Len(u) = Len(v)
    BY <1>1, <1>2, <1>3, <1>4, <1>7
  <1>9. Len(x) = Len(y)
    BY <1>4, <1>6, <1>8
  <1>10. x = y /\ u = v
    BY <1>1, <1>2, <1>5, <1>9, SplitUnique
  <1>11. ma = mb /\ a.revision = b.revision
    BY <1>3, <1>4, <1>8, <1>10
  <1>12. a.url = b.url /\ (a.url = Empty => a.title = b.title)
    BY <1>11 DEF ma, mb, MainLine
  <1>. QED
    BY <1>10, <1>11, <1>12 DEF Reference

-----------------------------------------------------------------------------
(* Books without chapters *)

ArticleTexts(articles) == [i \in 1..Len(articles) |-> UpdateArticle(articles[i])]

\* The text of a list of articles is a sequence of lines.
LEMMA ArticlesText ==
  ASSUME NEW articles \in Seq(Article)
  PROVE  /\ ArticleTexts(articles) \in Seq(Seq(Line))
         /\ Len(ArticleTexts(articles)) = Len(articles)
         /\ FlattenSeq(ArticleTexts(articles)) \in Seq(Line)
  <1>1. \A i \in 1..Len(articles) : UpdateArticle(articles[i]) \in Seq(Line)
    BY ArticleLines
  <1>2. /\ ArticleTexts(articles) \in Seq(Seq(Line))
        /\ Len(ArticleTexts(articles)) = Len(articles)
    BY <1>1 DEF ArticleTexts
  <1>3. PICK f \in PrefixesOf(Line, ArticleTexts(articles), Len(articles)) : TRUE
    BY <1>2, PrefixesExist
  <1>4. FlattenSeq(ArticleTexts(articles)) = f[Len(articles)]
    BY <1>2, <1>3, FlattenIsPrefix
  <1>5. f[Len(articles)] \in Seq(Line)
    BY <1>3 DEF PrefixesOf
  <1>. QED
    BY <1>2, <1>4, <1>5

\* Nothing but the articles of a list can have put its text together.
LEMMA ArticlesUnique ==
  ASSUME NEW a \in Seq(Article), NEW b \in Seq(Article),
         FlattenSeq(ArticleTexts(a)) = FlattenSeq(ArticleTexts(b))
  PROVE  Len(a) = Len(b) /\ \A i \in 1..Len(b) : Reference(a[i]) = Reference(b[i])
  <1>. DEFINE s == ArticleTexts(a)
              t == ArticleTexts(b)
  <1>1. /\ s \in Seq(Seq(Line)) /\ Len(s) = Len(a)
        /\ \A i \in 1..Len(a) : s[i] = UpdateArticle(a[i]) /\ a[i] \in Article
    BY ArticlesText DEF ArticleTexts
  <1>2. /\ t \in Seq(Seq(Line)) /\ Len(t) = Len(b)
        /\ \A i \in 1..Len(b) : t[i] = UpdateArticle(b[i]) /\ b[i] \in Article
    BY ArticlesText DEF ArticleTexts
  <1>3. FlattenSeq(s) = FlattenSeq(t)
    OBVIOUS
  <1>. HIDE DEF s, t
  <1>4. PICK f \in PrefixesOf(Line, s, Len(s)) : TRUE
    BY <1>1, PrefixesExist
  <1>5. PICK g \in PrefixesOf(Line, t, Len(t)) : TRUE
    BY <1>2, PrefixesExist
  <1>6. /\ f[0] = <<>> /\ \A i \in 0..Len(a) : f[i] \in Seq(Line)
        /\ \A i \in 1..Len(a) : f[i] = f[i - 1] \o UpdateArticle(a[i])
    BY <1>1, <1>4 DEF PrefixesOf
  <1>7. /\ g[0] = <<>> /\ \A i \in 0..Len(b) : g[i] \in Seq(Line)
        /\ \A i \in 1..Len(b) : g[i] = g[i - 1] \o UpdateArticle(b[i])
    BY <1>2, <1>5 DEF PrefixesOf
  <1>8. f[Len(a)] = g[Len(b)]
    BY <1>1, <1>2, <1>3, <1>4, <1>5, FlattenIsPrefix
  <1>9. ASSUME NEW x \in Seq(Line), NEW item \in Article
        PROVE  x \o UpdateArticle(item) # <<>>
    <2>1. UpdateArticle(item) \in Seq(Line)
      BY ArticleLines
    <2>2. UpdateArticle(item) # <<>>
      <3>1. Len(UpdateArticle(item)) = IF item.revision = Empty THEN 1 ELSE 2
        BY ArticleLines
      <3>2. Len(UpdateArticle(item)) # 0 /\ Len(<<>>) = 0
        BY <3>1
      <3>. QED
        BY <3>2, Zenon
    <2>. QED
      BY <2>1, <2>2, ConcatEqualIffEmpty
  <1>. DEFINE Agree(n) == \A m \in 0..Len(b) : f[n] = g[m] =>
                n = m /\ \A i \in 1..n : Reference(a[i]) = Reference(b[i])
              N == {n \in Nat : n <= Len(a) => Agree(n)}
  <1>10. 0 \in N
    <2>. SUFFICES ASSUME NEW m \in 0..Len(b), g[m] = <<>>, m # 0 PROVE FALSE
      BY <1>6
    <2>1. m \in 1..Len(b) /\ m - 1 \in 0..Len(b)
      OBVIOUS
    <2>. QED
      BY <1>2, <1>7, <1>9, <2>1
  <1>. HIDE DEF N
  <1>11. ASSUME NEW n \in N PROVE n + 1 \in N
    <2>. SUFFICES ASSUME n + 1 <= Len(a), NEW m \in 0..Len(b), f[n + 1] = g[m]
                  PROVE  n + 1 = m /\ \A i \in 1..(n + 1) : Reference(a[i]) = Reference(b[i])
      BY DEF N
    <2>1. n \in 0..Len(a) /\ n + 1 \in 1..Len(a) /\ (n + 1) - 1 = n
      BY DEF N
    <2>2. f[n + 1] = f[n] \o UpdateArticle(a[n + 1]) /\ f[n] \in Seq(Line) /\ a[n + 1] \in Article
      BY <1>1, <1>6, <2>1
    <2>3. m # 0
      BY <1>7, <1>9, <2>2
    <2>4. m \in 1..Len(b) /\ m - 1 \in 0..Len(b)
      BY <2>3
    <2>5. g[m] = g[m - 1] \o UpdateArticle(b[m]) /\ g[m - 1] \in Seq(Line) /\ b[m] \in Article
      BY <1>2, <1>7, <2>4
    <2>6. f[n] = g[m - 1] /\ Reference(a[n + 1]) = Reference(b[m])
      <3>1. f[n] \o UpdateArticle(a[n + 1]) = g[m - 1] \o UpdateArticle(b[m])
        BY <2>2, <2>5
      <3>2. After(f[n], a[n + 1]) = After(g[m - 1], b[m])
        BY <3>1 DEF After
      <3>. QED
        BY <2>2, <2>5, <3>2, LastArticle
    <2>7. n = m - 1 /\ \A i \in 1..n : Reference(a[i]) = Reference(b[i])
      BY <2>1, <2>4, <2>6 DEF N
    <2>. QED
      BY <2>4, <2>6, <2>7
  <1>12. N = Nat
    <2>1. N \in SUBSET Nat
      BY DEF N
    <2>. QED
      BY <1>10, <1>11, <2>1, SetInduction
  <1>13. Agree(Len(a))
    <2>1. Len(a) \in N
      BY <1>12
    <2>. QED
      BY <2>1 DEF N
  <1>. QED
    BY <1>8, <1>13

-----------------------------------------------------------------------------
(* Top-level fields *)

KeyTexts(keys) ==
  [i \in DOMAIN Keys |->
     IF keys[Keys[i]] = Absent THEN <<>> ELSE UpdateLine(Keys[i], keys[Keys[i]])]

\* A field has one line, or none.
LEMMA KeyLines ==
  ASSUME NEW keys \in [Range(Keys) -> Titles \cup {Empty, Absent}]
  PROVE  /\ KeyTexts(keys) \in Seq(Seq(Line))
         /\ Len(KeyTexts(keys)) = Len(Keys)
         /\ \A i \in 1..Len(Keys) :
              /\ Keys[i] \in Range(Keys)
              /\ keys[Keys[i]] = Absent => KeyTexts(keys)[i] = <<>>
              /\ keys[Keys[i]] # Absent =>
                   KeyTexts(keys)[i] = <<[key |-> Keys[i], value |-> keys[Keys[i]]]>>
              /\ KeyTexts(keys)[i] \in Seq(Line)
              /\ Len(KeyTexts(keys)[i]) = IF keys[Keys[i]] = Absent THEN 0 ELSE 1
  <1>1. Len(Keys) \in Nat /\ DOMAIN Keys = 1..Len(Keys)
    BY KeysAssumption, LenProperties
  <1>2. ASSUME NEW i \in 1..Len(Keys)
        PROVE  /\ Keys[i] \in Range(Keys)
               /\ keys[Keys[i]] = Absent => KeyTexts(keys)[i] = <<>>
               /\ keys[Keys[i]] # Absent =>
                    KeyTexts(keys)[i] = <<[key |-> Keys[i], value |-> keys[Keys[i]]]>>
               /\ KeyTexts(keys)[i] \in Seq(Line)
               /\ Len(KeyTexts(keys)[i]) = IF keys[Keys[i]] = Absent THEN 0 ELSE 1
    <2>1. Keys[i] \in Range(Keys)
      BY KeysAssumption, ElementOfSeq
    <2>. DEFINE line == [key |-> Keys[i], value |-> keys[Keys[i]]]
    <2>2. keys[Keys[i]] # Absent => line \in Line
      BY <2>1 DEF Line
    <2>3. KeyTexts(keys)[i] = IF keys[Keys[i]] = Absent THEN <<>> ELSE <<line>>
      BY <1>1 DEF KeyTexts, UpdateLine
    <2>. HIDE DEF line
    <2>4. CASE keys[Keys[i]] = Absent
      BY <2>1, <2>3, <2>4
    <2>5. CASE keys[Keys[i]] # Absent
      <3>1. <<line>> \in Seq(Line) /\ Len(<<line>>) = 1
        BY <2>2, <2>5
      <3>. QED
        BY <2>1, <2>3, <2>5, <3>1 DEF line
    <2>. QED
      BY <2>4, <2>5
  <1>3. KeyTexts(keys) \in [1..Len(Keys) -> Seq(Line)]
    BY <1>1, <1>2 DEF KeyTexts
  <1>. QED
    BY <1>1, <1>2, <1>3

\* Where the fields of two books are the same, their lines end at the same place, and
\* equal lines have equal values.
LEMMA KeysUnique ==
  ASSUME NEW j \in [Range(Keys) -> Titles \cup {Empty, Absent}],
         NEW k \in [Range(Keys) -> Titles \cup {Empty, Absent}],
         \A key \in Range(Keys) : j[key] = Absent <=> k[key] = Absent
  PROVE  /\ FlattenSeq(KeyTexts(j)) \in Seq(Line)
         /\ FlattenSeq(KeyTexts(k)) \in Seq(Line)
         /\ Len(FlattenSeq(KeyTexts(j))) = Len(FlattenSeq(KeyTexts(k)))
         /\ FlattenSeq(KeyTexts(j)) = FlattenSeq(KeyTexts(k)) => j = k
  <1>. DEFINE s == KeyTexts(j)
              t == KeyTexts(k)
  <1>1. /\ s \in Seq(Seq(Line)) /\ Len(s) = Len(Keys)
        /\ t \in Seq(Seq(Line)) /\ Len(t) = Len(Keys)
        /\ \A i \in 1..Len(Keys) : /\ s[i] \in Seq(Line) /\ t[i] \in Seq(Line)
                                   /\ Len(s[i]) = Len(t[i])
                                   /\ s[i] = t[i] => j[Keys[i]] = k[Keys[i]]
    <2>1. ASSUME NEW i \in 1..Len(Keys)
          PROVE  /\ s[i] \in Seq(Line) /\ t[i] \in Seq(Line)
                 /\ Len(s[i]) = Len(t[i])
                 /\ s[i] = t[i] => j[Keys[i]] = k[Keys[i]]
      <3>1. /\ Keys[i] \in Range(Keys)
            /\ s[i] \in Seq(Line) /\ t[i] \in Seq(Line)
            /\ Len(s[i]) = IF j[Keys[i]] = Absent THEN 0 ELSE 1
            /\ Len(t[i]) = IF k[Keys[i]] = Absent THEN 0 ELSE 1
            /\ j[Keys[i]] # Absent => s[i] = <<[key |-> Keys[i], value |-> j[Keys[i]]]>>
            /\ k[Keys[i]] # Absent => t[i] = <<[key |-> Keys[i], value |-> k[Keys[i]]]>>
        BY KeyLines
      <3>2. j[Keys[i]] = Absent <=> k[Keys[i]] = Absent
        BY <3>1
      <3>. HIDE DEF s, t
      <3>3. CASE j[Keys[i]] = Absent
        BY <3>1, <3>2, <3>3
      <3>4. CASE j[Keys[i]] # Absent
        <4>1. s[i][1].value = j[Keys[i]] /\ t[i][1].value = k[Keys[i]]
          BY <3>1, <3>2, <3>4
        <4>. QED
          BY <3>1, <3>2, <3>4, <4>1
      <3>. QED
        BY <3>3, <3>4
    <2>. QED
      BY <2>1, KeyLines
  <1>. HIDE DEF s, t
  <1>2. Len(Keys) \in Nat
    BY KeysAssumption, LenProperties
  <1>3. PICK f \in PrefixesOf(Line, s, Len(s)) : TRUE
    BY <1>1, PrefixesExist
  <1>4. PICK g \in PrefixesOf(Line, t, Len(t)) : TRUE
    BY <1>1, PrefixesExist
  <1>5. /\ f[0] = <<>> /\ g[0] = <<>>
        /\ \A i \in 0..Len(Keys) : f[i] \in Seq(Line) /\ g[i] \in Seq(Line)
        /\ \A i \in 1..Len(Keys) : f[i] = f[i - 1] \o s[i] /\ g[i] = g[i - 1] \o t[i]
    BY <1>1, <1>3, <1>4 DEF PrefixesOf
  <1>6. FlattenSeq(s) = f[Len(Keys)] /\ FlattenSeq(t) = g[Len(Keys)]
    BY <1>1, <1>3, <1>4, FlattenIsPrefix
  <1>. DEFINE Agree(n) == /\ Len(f[n]) = Len(g[n])
                          /\ f[n] = g[n] => \A i \in 1..n : s[i] = t[i]
              N == {n \in Nat : n <= Len(Keys) => Agree(n)}
  <1>7. 0 \in N
    BY <1>5
  <1>8. ASSUME NEW n \in N PROVE n + 1 \in N
    <2>. SUFFICES ASSUME n + 1 <= Len(Keys) PROVE Agree(n + 1)
      OBVIOUS
    <2>1. n \in 0..Len(Keys) /\ n + 1 \in 1..Len(Keys) /\ (n + 1) - 1 = n /\ Agree(n)
      BY <1>2
    <2>2. /\ f[n] \in Seq(Line) /\ g[n] \in Seq(Line)
          /\ s[n + 1] \in Seq(Line) /\ t[n + 1] \in Seq(Line)
          /\ Len(s[n + 1]) = Len(t[n + 1])
      BY <1>1, <1>5, <2>1
    <2>3. f[n + 1] = f[n] \o s[n + 1] /\ g[n + 1] = g[n] \o t[n + 1]
      <3>1. f[n + 1] = f[(n + 1) - 1] \o s[n + 1] /\ g[n + 1] = g[(n + 1) - 1] \o t[n + 1]
        BY <1>5, <2>1, Zenon
      <3>. QED
        BY <2>1, <3>1, Zenon
    <2>4. Len(f[n + 1]) = Len(g[n + 1])
      <3>1. \A x, y \in Seq(Line) : Len(x \o y) = Len(x) + Len(y)
        BY ConcatProperties
      <3>2. /\ Len(f[n + 1]) = Len(f[n]) + Len(s[n + 1])
            /\ Len(g[n + 1]) = Len(g[n]) + Len(t[n + 1])
        BY <2>2, <2>3, <3>1, Zenon
      <3>. QED
        BY <2>1, <2>2, <3>2
    <2>5. ASSUME f[n + 1] = g[n + 1] PROVE \A i \in 1..(n + 1) : s[i] = t[i]
      <3>1. f[n] \o s[n + 1] = g[n] \o t[n + 1]
        BY <2>3, <2>5
      <3>. DEFINE x == f[n]
                  y == g[n]
                  u == s[n + 1]
                  v == t[n + 1]
      <3>2. /\ x \in Seq(Line) /\ y \in Seq(Line) /\ u \in Seq(Line) /\ v \in Seq(Line)
            /\ x \o u = y \o v /\ Len(x) = Len(y)
        BY <2>1, <2>2, <3>1
      <3>. HIDE DEF x, y, u, v
      <3>3. x = y /\ u = v
        BY <3>2, SplitUnique
      <3>4. f[n] = g[n] /\ s[n + 1] = t[n + 1]
        BY <3>3 DEF x, y, u, v
      <3>. QED
        BY <2>1, <3>4
    <2>. QED
      BY <2>4, <2>5
  <1>. HIDE DEF N
  <1>9. N = Nat
    <2>1. N \in SUBSET Nat
      BY DEF N
    <2>. QED
      BY <1>7, <1>8, <2>1, SetInduction
  <1>10. Agree(Len(Keys))
    <2>1. Len(Keys) \in N
      BY <1>2, <1>9
    <2>. QED
      BY <2>1 DEF N
  <1>11. ASSUME FlattenSeq(s) = FlattenSeq(t) PROVE j = k
    <2>1. \A i \in 1..Len(Keys) : j[Keys[i]] = k[Keys[i]]
      BY <1>1, <1>6, <1>10, <1>11
    <2>2. \A key \in Range(Keys) : \E i \in 1..Len(Keys) : key = Keys[i]
      BY KeysAssumption, LenProperties DEF Range
    <2>3. \A key \in Range(Keys) : j[key] = k[key]
      BY <2>1, <2>2
    <2>. QED
      BY <2>3
  <1>12. /\ f[Len(Keys)] \in Seq(Line) /\ g[Len(Keys)] \in Seq(Line)
    BY <1>2, <1>5
  <1>. QED
    BY <1>6, <1>10, <1>11, <1>12 DEF s, t

-----------------------------------------------------------------------------
(* Identifiers *)

\* The items of a book without chapters are articles, each with its own text.
LEMMA FlatItems ==
  ASSUME NEW metabook \in Metabook, Flat(metabook)
  PROVE  /\ metabook.items \in Seq(Article)
         /\ FlattenSeq([i \in DOMAIN metabook.items |-> UpdateItem(metabook.items[i])])
              = FlattenSeq(ArticleTexts(metabook.items))
  <1>1. PICK n \in Nat : metabook.items \in [1..n -> Article \cup Chapter]
    BY DEF Metabook, UpTo
  <1>2. Len(metabook.items) = n /\ DOMAIN metabook.items = 1..n
    BY <1>1
  <1>3. \A i \in 1..n : metabook.items[i].type = "article"
    BY <1>2 DEF Flat
  <1>4. \A item \in Chapter : item.type # "article"
    BY DEF Chapter
  <1>5. \A i \in 1..n : metabook.items[i] \in Article
    BY <1>1, <1>3, <1>4
  <1>6. metabook.items \in Seq(Article)
    BY <1>1, <1>5
  <1>7. \A i \in 1..n : UpdateItem(metabook.items[i]) = UpdateArticle(metabook.items[i])
    BY <1>3 DEF UpdateItem
  <1>8. [i \in DOMAIN metabook.items |-> UpdateItem(metabook.items[i])]
          = ArticleTexts(metabook.items)
    BY <1>2, <1>7 DEF ArticleTexts
  <1>. QED
    BY <1>6, <1>8

\* Two books without chapters that have the same fields, and the same identifier,
\* are the same in all that the text is about.
LEMMA FlatBooksUnique ==
  ASSUME NEW c \in Collection, NEW d \in Collection, IdOf(c) = IdOf(d),
         Flat(c.metabook), Flat(d.metabook),
         PresentKeys(c.metabook) = PresentKeys(d.metabook)
  PROVE  /\ c.writer = d.writer
         /\ c.metabook.keys = d.metabook.keys
         /\ Len(c.metabook.items) = Len(d.metabook.items)
         /\ \A i \in 1..Len(d.metabook.items) :
              Reference(c.metabook.items[i]) = Reference(d.metabook.items[i])
  <1>. DEFINE m == c.metabook
              n == d.metabook
  <1>1. /\ m \in Metabook /\ n \in Metabook
        /\ m.keys \in [Range(Keys) -> Titles \cup {Empty, Absent}]
        /\ n.keys \in [Range(Keys) -> Titles \cup {Empty, Absent}]
    BY DEF Collection, Metabook
  <1>. DEFINE mk == FlattenSeq(KeyTexts(m.keys))
              nk == FlattenSeq(KeyTexts(n.keys))
              mi == FlattenSeq(ArticleTexts(m.items))
              ni == FlattenSeq(ArticleTexts(n.items))
  <1>2. UpdateKeys(m.keys) = mk /\ UpdateKeys(n.keys) = nk
    BY DEF UpdateKeys, KeyTexts
  <1>3. /\ m.items \in Seq(Article) /\ n.items \in Seq(Article)
        /\ FlattenSeq([i \in DOMAIN m.items |-> UpdateItem(m.items[i])]) = mi
        /\ FlattenSeq([i \in DOMAIN n.items |-> UpdateItem(n.items[i])]) = ni
    BY <1>1, FlatItems
  <1>4. mk \o mi = nk \o ni /\ c.writer = d.writer
    <2>1. /\ IdOf(c) = [lines |-> UpdateKeys(m.keys) \o
                          FlattenSeq([i \in DOMAIN m.items |-> UpdateItem(m.items[i])]),
                        writer |-> c.writer]
          /\ IdOf(d) = [lines |-> UpdateKeys(n.keys) \o
                          FlattenSeq([i \in DOMAIN n.items |-> UpdateItem(n.items[i])]),
                        writer |-> d.writer]
      BY DEF IdOf, CreateCollectionId
    <2>2. IdOf(c).lines = IdOf(d).lines /\ IdOf(c).writer = IdOf(d).writer
      OBVIOUS
    <2>. HIDE DEF m, n, mk, nk, mi, ni
    <2>3. IdOf(c) = [lines |-> mk \o mi, writer |-> c.writer]
      BY <1>2, <1>3, <2>1
    <2>4. IdOf(d) = [lines |-> nk \o ni, writer |-> d.writer]
      BY <1>2, <1>3, <2>1
    <2>5. IdOf(c).lines = mk \o mi /\ IdOf(c).writer = c.writer
      BY <2>3
    <2>6. IdOf(d).lines = nk \o ni /\ IdOf(d).writer = d.writer
      BY <2>4
    <2>. QED
      BY <2>2, <2>5, <2>6
  <1>5. \A key \in Range(Keys) : m.keys[key] = Absent <=> n.keys[key] = Absent
    BY DEF PresentKeys
  <1>6. /\ mk \in Seq(Line) /\ nk \in Seq(Line) /\ Len(mk) = Len(nk)
        /\ mk = nk => m.keys = n.keys
    BY <1>1, <1>5, KeysUnique
  <1>7. mi \in Seq(Line) /\ ni \in Seq(Line)
    BY <1>3, ArticlesText
  <1>8. mk = nk /\ mi = ni
    <2>. HIDE DEF mk, nk, mi, ni
    <2>. QED
      BY <1>4, <1>6, <1>7, SplitUnique
  <1>9. /\ Len(m.items) = Len(n.items)
        /\ \A i \in 1..Len(n.items) : Reference(m.items[i]) = Reference(n.items[i])
    BY <1>3, <1>8, ArticlesUnique
  <1>. QED
    BY <1>4, <1>6, <1>8, <1>9

\* What is served has the identifier that was asked for.
Inv ==
  /\ \A job \in rendered : job[2] \in Collection /\ job[1] = IdOf(job[2])
  /\ asked \in Collection
  /\ served \in Collection
  /\ IdOf(served) = IdOf(asked)

\* Documents are kept and served under their identifiers.
LEMMA StepInv == Inv /\ [Next]_vars => Inv'
  <1>. SUFFICES ASSUME Inv, [Next]_vars PROVE Inv'
    OBVIOUS
  <1>1. ASSUME NEW collection \in Collection, HandleRender(collection) PROVE Inv'
    BY <1>1 DEF HandleRender, Inv
  <1>2. CASE CleanJobStatusObjects
    BY <1>2 DEF CleanJobStatusObjects, Inv
  <1>3. CASE UNCHANGED vars
    BY <1>3 DEF vars, Inv
  <1>. QED
    BY <1>1, <1>2, <1>3 DEF Next

\* A client is never served another book without chapters than the one it asked
\* for, whatever the length of the books, their fields and the titles, URLs and
\* revisions in them.
THEOREM FlatBooksServed == Spec => []ServesFlatBooks
  <1>1. Init => Inv
    BY DEF Init, Inv
  <1>2. Inv => ServesFlatBooks
    BY FlatBooksUnique DEF Inv, ServesFlatBooks
  <1>. QED
    BY <1>1, <1>2, StepInv, PTL DEF Spec

=============================================================================
