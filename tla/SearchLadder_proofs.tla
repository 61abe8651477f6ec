------------------------- MODULE SearchLadder_proofs -------------------------
(***************************************************************************)
(* What SearchLadder's answers are worth, and how many questions they      *)
(* cost, for any words, tables and categories, messages of any length and  *)
(* any number of retries.                                                  *)
(***************************************************************************)
EXTENDS SearchLadder, SequenceTheorems, FiniteSetTheorems, WellFoundedInduction,
        TLAPS

-----------------------------------------------------------------------------
(***************************************************************************)
(* The terms of a search.                                                  *)
(***************************************************************************)

\* A set of numbers that has one has a least one.
LEMMA LeastOf ==
    ASSUME NEW S, S \subseteq Nat, S # {}
    PROVE  \E m \in S : \A k \in S : m <= k
<1> DEFINE R == {p \in Nat \X Nat : p[1] < p[2]}
<1>1. IsWellFoundedOn(R, Nat)
  BY NatLessThanWellFounded DEF OpToRel
<1>2. PICK m \in S : \A k \in S : <<k, m>> \notin R
  BY <1>1, WFMin
<1>3. ASSUME NEW k \in S  PROVE m <= k
  <2>1. k \in Nat /\ m \in Nat /\ ~(k < m)
    BY <1>2
  <2> QED  BY <2>1
<1> QED  BY <1>3

\* Of any words there is one that comes before the others.
LEMMA LongestIs ==
    ASSUME NEW n \in Nat, NEW w \in [1..n -> Word], NEW S, S \subseteq 1..n, S # {}
    PROVE  /\ Longest(w, S) \in S
           /\ \A j \in S \ {Longest(w, S)} : Before(w, Longest(w, S), j)
<1> DEFINE L(i) == Letters[w[i]]
           Best(i, k) == i \in S /\ i <= k /\ \A j \in S : j <= k /\ j # i => Before(w, i, j)
           Bad == {k \in 0..n : (\E i \in S : i <= k) /\ ~ \E i \in S : Best(i, k)}
<1>1. \A i \in 1..n : L(i) \in Nat
  BY TablesAssumption
<1>2. Bad = {}
  <2> SUFFICES ASSUME Bad # {}  PROVE FALSE
    OBVIOUS
  <2>1. PICK k \in Bad : \A j \in Bad : k <= j
    <3>1. Bad \subseteq Nat
      OBVIOUS
    <3> QED  BY <3>1, LeastOf
  <2>0. k \in 0..n /\ (\E i \in S : i <= k) /\ ~ \E i \in S : Best(i, k)
    OBVIOUS
  <2>2. k \in 1..n /\ k - 1 \in 0..n /\ k - 1 \notin Bad
    <3>1. PICK i \in S : i <= k
      BY <2>0
    <3>2. i \in 1..n
      OBVIOUS
    <3>3. k \in 1..n /\ k - 1 \in 0..n /\ ~(k <= k - 1)
      BY <2>0, <3>1, <3>2
    <3> HIDE DEF Bad
    <3> QED  BY <2>1, <3>3
  <2>3. k \in S
    <3> SUFFICES ASSUME k \notin S  PROVE FALSE
      OBVIOUS
    <3>1. \E i \in S : i <= k - 1
      BY <2>1, <2>2
    <3>2. PICK i \in S : Best(i, k - 1)
      BY <2>2, <3>1
    <3>3. \A j \in S : j <= k => j <= k - 1
      BY <2>2
    <3>4. Best(i, k)
      BY <2>2, <3>2, <3>3
    <3> QED  BY <3>4
  <2>4. CASE ~ \E i \in S : i <= k - 1
    <3>1. \A j \in S : j <= k => j = k
      BY <2>2, <2>4
    <3>2. Best(k, k)
      BY <2>2, <2>3, <3>1
    <3> QED  BY <2>3, <3>2
  <2>5. CASE \E i \in S : i <= k - 1
    <3>1. PICK i \in S : Best(i, k - 1)
      BY <2>2, <2>5
    <3>2. i \in 1..n /\ i <= k - 1 /\ L(i) \in Nat /\ L(k) \in Nat
      BY <1>1, <2>2, <3>1
    <3>3. CASE L(k) > L(i)
      <4>1. ASSUME NEW j \in S, j <= k, j # k  PROVE Before(w, k, j)
        <5>1. j \in 1..n /\ j <= k - 1 /\ L(j) \in Nat
          BY <1>1, <2>2, <4>1
        <5>2. j = i \/ Before(w, i, j)
          BY <3>1, <5>1
        <5>4. L(i) >= L(j)
          <6>1. \/ j = i \/ L(i) > L(j)
                \/ L(i) = L(j) /\ i < j
            BY <5>2 DEF Before
          <6> HIDE DEF L, Bad
          <6> QED  BY <3>2, <5>1, <6>1
        <5> HIDE DEF L, Bad
        <5>5. L(k) > L(j)
          BY <3>2, <3>3, <5>1, <5>4
        <5>3. Letters[w[k]] > Letters[w[j]]
          BY <5>5 DEF L
        <5> QED  BY <5>3 DEF Before
      <4>2. Best(k, k)
        BY <2>2, <2>3, <4>1
      <4> QED  BY <2>3, <4>2
    <3>4. CASE ~(L(k) > L(i))
      <4>1. Before(w, i, k)
        <5>1. L(i) > L(k) \/ (L(i) = L(k) /\ i < k)
          <6> HIDE DEF L, Bad
          <6> QED  BY <2>2, <3>2, <3>4
        <5> QED  BY <5>1 DEF Before
      <4>2. \A j \in S : j <= k => j = k \/ j <= k - 1
        BY <2>2
      <4>3. Best(i, k)
        BY <2>2, <3>1, <3>2, <4>1, <4>2
      <4> QED  BY <4>3
    <3> QED  BY <3>3, <3>4
  <2> QED  BY <2>4, <2>5
<1>3. PICK i \in S : Best(i, n)
  <2>1. PICK j \in S : TRUE
    OBVIOUS
  <2>2. j <= n /\ n \in 0..n
    OBVIOUS
  <2> QED  BY <1>2, <2>1, <2>2
<1>4. \A j \in S \ {i} : Before(w, i, j)
  BY <1>3
<1> QED  BY <1>4 DEF Longest

\* One thing or two, in a sequence.
LEMMA OneOrTwo ==
    ASSUME NEW S, NEW x \in S, NEW y \in S
    PROVE  /\ <<x>> \in Seq(S) /\ Len(<<x>>) = 1 /\ DOMAIN <<x>> = 1..1 /\ <<x>>[1] = x
           /\ <<x>> \o <<>> = <<x>>
           /\ <<x, y>> \in Seq(S) /\ Len(<<x, y>>) = 2 /\ DOMAIN <<x, y>> = 1..2
           /\ <<x, y>>[1] = x /\ <<x, y>>[2] = y
           /\ <<x>> \o <<y>> = <<x, y>>
<1>1. <<x>> \in Seq(S) /\ <<y>> \in Seq(S) /\ <<x, y>> \in Seq(S)
  OBVIOUS
<1>2. <<x>> \o <<y>> = <<x, y>>
  <2> DEFINE xy == <<x>> \o <<y>>
  <2>1. /\ xy \in Seq(S) /\ Len(xy) = 1 + 1
        /\ \A i \in 1..(1 + 1) : xy[i] = IF i <= 1 THEN <<x>>[i] ELSE <<y>>[i - 1]
    BY <1>1, ConcatProperties
  <2>2. xy[1] = x /\ xy[2] = y /\ Len(xy) = 2
    BY <2>1
  <2> HIDE DEF xy
  <2>3. \A i \in 1..Len(xy) : xy[i] = <<x, y>>[i]
    BY <2>2
  <2>4. xy = <<x, y>>
    BY <1>1, <2>1, <2>2, <2>3, SeqEqual
  <2> QED  BY <2>4 DEF xy
<1>3. <<x>> \o <<>> = <<x>>
  BY <1>1, ConcatEmptySeq
<1> QED  BY <1>1, <1>2, <1>3

\* Two things are two.
LEMMA TwoThings ==
    ASSUME NEW x, NEW y, x # y
    PROVE  Cardinality({x, y}) = 2
<1>1. IsFiniteSet({x}) /\ Cardinality({x}) = 1
  BY FS_Singleton
<1>2. y \notin {x}
  OBVIOUS
<1>3. Cardinality({x} \cup {y}) = Cardinality({x}) + 1
  BY <1>1, <1>2, FS_AddElement
<1>4. {x, y} = {x} \cup {y}
  OBVIOUS
<1>5. Cardinality({x, y}) = Cardinality({x}) + 1
  BY <1>3, <1>4
<1> QED  BY <1>1, <1>5

\* There are at most two significant words, and what is notable is significant:
\* a word that two others come before is not.
LEMMA SignificantIs ==
    ASSUME NEW n \in Nat, NEW w \in [1..n -> Word], NEW term, term.words = w
    PROVE  /\ Significant(term) \in Seq(Word)
           /\ Len(Significant(term)) <= 2
           /\ \A v \in Notable(w) : v \in Word /\ \E k \in 1..2 :
                 k \in DOMAIN Significant(term) /\ Significant(term)[k] = v
<1> DEFINE long == {i \in DOMAIN w : Letters[w[i]] > 2}
           a == Longest(w, long)
           other == {i \in long : i # a}
           b == Longest(w, other)
<1>1. long \subseteq 1..n /\ other \subseteq 1..n /\ DOMAIN w = 1..n
  OBVIOUS
<1>2. long # {} => a \in long /\ \A j \in long \ {a} : Before(w, a, j)
  BY <1>1, LongestIs
<1>3. other # {} => b \in other /\ \A j \in other \ {b} : Before(w, b, j)
  BY <1>1, LongestIs
<1>4. Significant(term) = (IF long = {} THEN <<>> ELSE <<w[a]>>)
                          \o (IF other = {} THEN <<>> ELSE <<w[b]>>)
  BY DEF Significant
<1>5. other # {} => long # {}
  OBVIOUS
<1>0. (long # {} => w[a] \in Word) /\ (other # {} => w[b] \in Word)
  BY <1>1, <1>2, <1>3
<1> HIDE DEF a, b
<1>6. /\ long = {} => Significant(term) = <<>>
      /\ long # {} /\ other = {} => Significant(term) = <<w[a]>>
      /\ other # {} => Significant(term) = <<w[a], w[b]>>
  <2> HIDE DEF long, other
  <2>1. CASE long = {}
    <3>1. Significant(term) = <<>> \o <<>>
      BY <1>4, <1>5, <2>1
    <3> QED  BY <1>5, <2>1, <3>1
  <2>2. CASE long # {} /\ other = {}
    <3>1. Significant(term) = <<w[a]>> \o <<>>
      BY <1>4, <2>2
    <3> QED  BY <1>0, <2>2, <3>1, OneOrTwo
  <2>3. CASE other # {}
    <3>1. Significant(term) = <<w[a]>> \o <<w[b]>>
      BY <1>4, <1>5, <2>3
    <3> QED  BY <1>0, <1>5, <2>3, <3>1, OneOrTwo
  <2> QED  BY <2>1, <2>2, <2>3
<1>7. /\ Significant(term) \in Seq(Word)
      /\ Len(Significant(term)) <= 2
      /\ long # {} => 1 \in DOMAIN Significant(term) /\ Significant(term)[1] = w[a]
      /\ other # {} => 2 \in DOMAIN Significant(term) /\ Significant(term)[2] = w[b]
  <2> HIDE DEF long, other
  <2>1. CASE long = {}
    BY <1>5, <1>6, <2>1
  <2>2. CASE long # {} /\ other = {}
    <3>1. Significant(term) = <<w[a]>> /\ w[a] \in Word
      BY <1>0, <1>6, <2>2
    <3> QED  BY <2>2, <3>1, OneOrTwo
  <2>3. CASE other # {}
    <3>1. Significant(term) = <<w[a], w[b]>> /\ w[a] \in Word /\ w[b] \in Word
      BY <1>0, <1>5, <1>6, <2>3
    <3> QED  BY <2>3, <3>1, OneOrTwo
  <2> QED  BY <2>1, <2>2, <2>3
<1>8. ASSUME NEW v \in Notable(w)
      PROVE  v \in Word /\ \E k \in 1..2 :
                k \in DOMAIN Significant(term) /\ Significant(term)[k] = v
  <2> DEFINE Ahead(i) == {k \in DOMAIN w : \/ Letters[w[k]] > Letters[w[i]]
                                           \/ Letters[w[k]] = Letters[w[i]] /\ k < i}
  <2>1. PICK i \in long : v = w[i] /\ Cardinality(Ahead(i)) < 2
    BY DEF Notable
  <2>2. i = a \/ i = b
    <3> SUFFICES ASSUME i # a, i # b  PROVE FALSE
      OBVIOUS
    <3>1. i \in other /\ other # {} /\ long # {}
      OBVIOUS
    <3>2. a # b /\ {a, b} \subseteq Ahead(i) /\ a \in 1..n /\ b \in 1..n
      BY <1>1, <1>2, <1>3, <3>1 DEF Before
    <3>3. IsFiniteSet(Ahead(i))
      <4>1. IsFiniteSet(1..n) /\ Ahead(i) \in SUBSET (1..n)
        BY <1>1, FS_Interval
      <4> QED  BY <4>1, FS_Subset
    <3>4. Cardinality({a, b}) = 2
      BY <3>2, TwoThings
    <3>5. Cardinality({a, b}) <= Cardinality(Ahead(i)) /\ Cardinality(Ahead(i)) \in Nat
      BY <3>2, <3>3, FS_Subset, FS_CardinalityType
    <3> QED  BY <2>1, <3>4, <3>5
  <2>3. v \in Word /\ long # {}
    BY <2>1
  <2>4. CASE i = a
    BY <1>7, <2>1, <2>3, <2>4
  <2>5. CASE i # a
    <3>1. i = b /\ other # {}
      BY <2>2, <2>5
    <3> QED  BY <1>7, <2>1, <2>3, <3>1
  <2> QED  BY <2>4, <2>5
<1> QED  BY <1>7, <1>8

Distinct(seq) == \A i, j \in DOMAIN seq : seq[i] = seq[j] => i = j

\* A sequence gains what it does not hold.
LEMMA AddNewIs ==
    ASSUME NEW S, NEW seq \in Seq(S), NEW x \in S, Distinct(seq)
    PROVE  /\ AddNew(seq, x) \in Seq(S) /\ Distinct(AddNew(seq, x))
           /\ Len(AddNew(seq, x)) \in Len(seq)..(Len(seq) + 1)
           /\ ToSet(AddNew(seq, x)) = ToSet(seq) \cup {x}
<1>1. DOMAIN seq = 1..Len(seq) /\ Len(seq) \in Nat
  OBVIOUS
<1>2. CASE Contains(seq, x)
  <2>1. \E i \in DOMAIN seq : seq[i] = x
    BY <1>1, <1>2 DEF Contains
  <2> QED  BY <1>1, <1>2, <2>1 DEF AddNew, ToSet
<1>3. CASE ~Contains(seq, x)
  <2> DEFINE new == Append(seq, x)
  <2>1. AddNew(seq, x) = new
    BY <1>3 DEF AddNew
  <2>2. /\ new \in Seq(S) /\ DOMAIN new = 1..(Len(seq) + 1) /\ Len(new) = Len(seq) + 1
        /\ new[Len(seq) + 1] = x /\ \A i \in 1..Len(seq) : new[i] = seq[i]
    OBVIOUS
  <2>3. \A i \in 1..Len(seq) : seq[i] # x
    BY <1>1, <1>3 DEF Contains
  <2> HIDE DEF new
  <2>4. Distinct(new)
    BY <1>1, <2>2, <2>3 DEF Distinct
  <2>5. ToSet(new) = ToSet(seq) \cup {x}
    BY <1>1, <2>2 DEF ToSet
  <2> QED  BY <1>1, <2>1, <2>2, <2>4, <2>5
<1> QED  BY <1>2, <1>3

Term == [words : Seq(Word), framed : BOOLEAN]

\* A term gains a rung when there is a word for it.
LEMMA AddWordIs ==
    ASSUME NEW seq \in Seq(Term), Distinct(seq), NEW words \in Seq(Word), NEW k \in Nat
    PROVE  /\ AddWord(seq, words, k) \in Seq(Term) /\ Distinct(AddWord(seq, words, k))
           /\ Len(AddWord(seq, words, k)) \in Len(seq)..(Len(seq) + 1)
           /\ ToSet(seq) \subseteq ToSet(AddWord(seq, words, k))
           /\ k \in DOMAIN words => Phrase(words[k]) \in ToSet(AddWord(seq, words, k))
<1>1. CASE k \in DOMAIN words
  <2>1. words[k] \in Word /\ <<words[k]>> \in Seq(Word)
    BY <1>1
  <2>2. Phrase(words[k]) \in Term
    BY <2>1 DEF Phrase, Term
  <2>3. AddWord(seq, words, k) = AddNew(seq, Phrase(words[k]))
    BY <1>1 DEF AddWord
  <2> QED  BY <1>1, <2>2, <2>3, AddNewIs
<1>2. CASE k \notin DOMAIN words
  <2>1. AddWord(seq, words, k) = seq
    BY <1>2 DEF AddWord
  <2>2. Len(seq) \in Nat
    OBVIOUS
  <2> QED  BY <1>2, <2>1, <2>2
<1> QED  BY <1>1, <1>2

\* So with the categories that words stand for.
LEMMA AddCategoryIs ==
    ASSUME NEW seq \in Seq(Category), Distinct(seq), NEW words \in Seq(Word), NEW k \in Nat
    PROVE  /\ AddCategory(seq, words, k) \in Seq(Category) /\ Distinct(AddCategory(seq, words, k))
           /\ Len(AddCategory(seq, words, k)) \in Len(seq)..(Len(seq) + 1)
           /\ ToSet(seq) \subseteq ToSet(AddCategory(seq, words, k))
           /\ k \in DOMAIN words /\ CategoryOf[words[k]] # None =>
                 CategoryOf[words[k]] \in ToSet(AddCategory(seq, words, k))
<1>1. CASE k \in DOMAIN words /\ CategoryOf[words[k]] # None
  <2>1. words[k] \in Word
    BY <1>1
  <2>2. CategoryOf[words[k]] \in Category
    BY <1>1, <2>1, TablesAssumption
  <2>3. AddCategory(seq, words, k) = AddNew(seq, CategoryOf[words[k]])
    BY <1>1 DEF AddCategory
  <2> QED  BY <1>1, <2>2, <2>3, AddNewIs
<1>2. CASE ~(k \in DOMAIN words /\ CategoryOf[words[k]] # None)
  <2>1. AddCategory(seq, words, k) = seq
    BY <1>2 DEF AddCategory
  <2>2. Len(seq) \in Nat
    OBVIOUS
  <2> QED  BY <1>2, <2>1, <2>2
<1> QED  BY <1>1, <1>2

\* Nothing, or one thing, has no repetition.
LEMMA OneIsDistinct ==
    ASSUME NEW S, NEW x \in S
    PROVE  /\ <<>> \in Seq(S) /\ Distinct(<<>>) /\ Len(<<>>) = 0 /\ ToSet(<<>>) = {}
           /\ <<x>> \in Seq(S) /\ Distinct(<<x>>) /\ Len(<<x>>) = 1 /\ ToSet(<<x>>) = {x}
  BY DEF Distinct, ToSet

\* The terms of a search, in the order they are tried.
Terms(m, term) == Fallbacks(<<First(m, term)>>, m, term)

\* A search has one to four different terms: among them the first, the message
\* as it is and the notable words.
LEMMA TermsAre ==
    ASSUME NEW m, Raw(m) \in Term, NEW term \in Term
    PROVE  /\ Terms(m, term) \in Seq(Term) /\ Distinct(Terms(m, term))
           /\ Len(Terms(m, term)) \in 1..4
           /\ First(m, term) \in ToSet(Terms(m, term))
           /\ Raw(m) \in ToSet(Terms(m, term))
           /\ \A v \in Notable(term.words) :
                 v \in Word /\ Phrase(v) \in ToSet(Terms(m, term))
<1> DEFINE sig == Significant(term)
           s1 == <<First(m, term)>>
           s2 == AddNew(s1, Raw(m))
           s3 == AddWord(s2, sig, 1)
           s4 == AddWord(s3, sig, 2)
<1>1. term.words \in Seq(Word) /\ term.words \in [1..Len(term.words) -> Word]
      /\ Len(term.words) \in Nat
  BY DEF Term
<1>2. /\ sig \in Seq(Word)
      /\ \A v \in Notable(term.words) : v \in Word /\ \E k \in 1..2 :
            k \in DOMAIN sig /\ sig[k] = v
  BY <1>1, SignificantIs
<1>3. First(m, term) \in Term
  BY DEF First
<1> HIDE DEF sig
<1>4. s1 \in Seq(Term) /\ Distinct(s1) /\ Len(s1) = 1 /\ ToSet(s1) = {First(m, term)}
  BY <1>3, OneIsDistinct
<1> HIDE DEF s1
<1>5. /\ s2 \in Seq(Term) /\ Distinct(s2) /\ Len(s2) \in 1..2
      /\ ToSet(s2) = {First(m, term), Raw(m)}
  <2>0. s1 \in Seq(Term) /\ Distinct(s1) /\ Raw(m) \in Term
    BY <1>4
  <2>1. /\ Len(s2) \in Len(s1)..(Len(s1) + 1)
        /\ ToSet(s2) = ToSet(s1) \cup {Raw(m)}
    BY ONLY <2>0, AddNewIs DEF s2
  <2>2. Len(s2) \in 1..2
    BY <1>4, <2>1
  <2>3. ToSet(s2) = {First(m, term), Raw(m)}
    BY <1>4, <2>1
  <2>4. s2 \in Seq(Term)
    BY <1>4, AddNewIs
  <2>5. Distinct(s2)
    BY <1>4, AddNewIs
  <2> QED  BY <2>2, <2>3, <2>4, <2>5
<1> HIDE DEF s2
<1>6. /\ s3 \in Seq(Term) /\ Distinct(s3) /\ Len(s3) \in 1..3 /\ ToSet(s2) \subseteq ToSet(s3)
      /\ 1 \in DOMAIN sig => Phrase(sig[1]) \in ToSet(s3)
  <2>1. Len(s3) \in Len(s2)..(Len(s2) + 1)
    BY <1>2, <1>5, AddWordIs
  <2>2. Len(s3) \in 1..3
    <3> DEFINE p == Len(s2)  q == Len(s3)
    <3>1. p \in 1..2 /\ q \in p..(p + 1)
      BY <1>5, <2>1
    <3> HIDE DEF p, q
    <3>2. q \in 1..3
      BY <3>1
    <3> QED  BY <3>2 DEF q
  <2> QED  BY <1>2, <1>5, <2>2, AddWordIs
<1> HIDE DEF s3
<1>7. /\ s4 \in Seq(Term) /\ Distinct(s4) /\ Len(s4) \in 1..4 /\ ToSet(s3) \subseteq ToSet(s4)
      /\ 2 \in DOMAIN sig => Phrase(sig[2]) \in ToSet(s4)
  <2>1. Len(s4) \in Len(s3)..(Len(s3) + 1)
    BY <1>2, <1>6, AddWordIs
  <2>2. Len(s4) \in 1..4
    <3> DEFINE p == Len(s3)  q == Len(s4)
    <3>1. p \in 1..3 /\ q \in p..(p + 1)
      BY <1>6, <2>1
    <3> HIDE DEF p, q
    <3>2. q \in 1..4
      BY <3>1
    <3> QED  BY <3>2 DEF q
  <2> QED  BY <1>2, <1>6, <2>2, AddWordIs
<1>8. Terms(m, term) = s4
  BY DEF Terms, Fallbacks, sig, s1, s2, s3
<1> HIDE DEF s4
<1>9. ASSUME NEW v \in Notable(term.words)  PROVE v \in Word /\ Phrase(v) \in ToSet(s4)
  <2>1. PICK k \in 1..2 : k \in DOMAIN sig /\ sig[k] = v
    BY <1>2
  <2>2. k = 1 \/ k = 2
    OBVIOUS
  <2> QED  BY <1>2, <1>6, <1>7, <2>1, <2>2
<1> QED  BY <1>5, <1>6, <1>7, <1>8, <1>9

\* The notable words of a term are aliases of at most two categories.
LEMMA AliasesAre ==
    ASSUME NEW term \in Term
    PROVE  /\ Aliases(term) \in Seq(Category) /\ Distinct(Aliases(term))
           /\ Len(Aliases(term)) \in 0..2
           /\ \A v \in Notable(term.words) :
                 CategoryOf[v] # None => CategoryOf[v] \in ToSet(Aliases(term))
<1> DEFINE sig == Significant(term)
           s2 == AddCategory(<<>>, sig, 1)
           s3 == AddCategory(s2, sig, 2)
<1>1. term.words \in Seq(Word) /\ term.words \in [1..Len(term.words) -> Word]
      /\ Len(term.words) \in Nat
  BY DEF Term
<1>2. /\ sig \in Seq(Word)
      /\ \A v \in Notable(term.words) : v \in Word /\ \E k \in 1..2 :
            k \in DOMAIN sig /\ sig[k] = v
  BY <1>1, SignificantIs
<1> HIDE DEF sig
<1>4. <<>> \in Seq(Category) /\ Distinct(<<>>) /\ Len(<<>>) = 0
  BY DEF Distinct
<1>5. /\ s2 \in Seq(Category) /\ Distinct(s2) /\ Len(s2) \in 0..1
      /\ 1 \in DOMAIN sig /\ CategoryOf[sig[1]] # None => CategoryOf[sig[1]] \in ToSet(s2)
  <2>1. Len(s2) \in Len(<<>>)..(Len(<<>>) + 1)
    BY <1>2, <1>4, AddCategoryIs
  <2>2. Len(s2) \in 0..1
    <3> DEFINE p == Len(<<>>)  q == Len(s2)
    <3>1. p \in 0..0 /\ q \in p..(p + 1)
      BY <1>4, <2>1
    <3> HIDE DEF p, q
    <3>2. q \in 0..1
      BY <3>1
    <3> QED  BY <3>2 DEF q
  <2> QED  BY <1>2, <1>4, <2>2, AddCategoryIs
<1> HIDE DEF s2
<1>6. /\ s3 \in Seq(Category) /\ Distinct(s3) /\ Len(s3) \in 0..2 /\ ToSet(s2) \subseteq ToSet(s3)
      /\ 2 \in DOMAIN sig /\ CategoryOf[sig[2]] # None => CategoryOf[sig[2]] \in ToSet(s3)
  <2>1. Len(s3) \in Len(s2)..(Len(s2) + 1)
    BY <1>2, <1>5, AddCategoryIs
  <2>2. Len(s3) \in 0..2
    <3> DEFINE p == Len(s2)  q == Len(s3)
    <3>1. p \in 0..1 /\ q \in p..(p + 1)
      BY <1>5, <2>1
    <3> HIDE DEF p, q
    <3>2. q \in 0..2
      BY <3>1
    <3> QED  BY <3>2 DEF q
  <2> QED  BY <1>2, <1>5, <2>2, AddCategoryIs
<1>8. Aliases(term) = s3
  BY DEF Aliases, sig, s2
<1> HIDE DEF s3
<1>9. ASSUME NEW v \in Notable(term.words), CategoryOf[v] # None
      PROVE  CategoryOf[v] \in ToSet(s3)
  <2>1. PICK k \in 1..2 : k \in DOMAIN sig /\ sig[k] = v
    BY <1>2
  <2>2. k = 1 \/ k = 2
    OBVIOUS
  <2> QED  BY <1>5, <1>6, <1>9, <2>1, <2>2
<1> QED  BY <1>6, <1>8, <1>9

-----------------------------------------------------------------------------
(***************************************************************************)
(* The plan of a turn.                                                     *)
(***************************************************************************)

\* A message's words are a sequence, as it is and as a search term.
LEMMA MessageIs ==
    ASSUME NEW m \in Message
    PROVE  /\ m.words \in Seq(Word) /\ m.framed \in BOOLEAN
           /\ Raw(m) \in Term /\ Extracted(m) \in Term
           /\ Canonical(Extracted(m)) \in Term
           /\ Extracted(m) = [words |-> m.words, framed |-> FALSE]
           /\ Canonical(Extracted(m)) =
                 [words |-> [i \in DOMAIN m.words |-> Canon[m.words[i]]], framed |-> FALSE]
<1>1. m.words \in BoundedSeq(Word, MaxWords) /\ m.framed \in BOOLEAN
  BY DEF Message
<1>2. PICK n \in Nat : m.words \in [1..n -> Word]
  BY <1>1, BoundsAssumption DEF BoundedSeq, SeqOf
<1>3. m.words \in Seq(Word)
  BY <1>2, SeqDef
<1> DEFINE canon == [i \in DOMAIN m.words |-> Canon[m.words[i]]]
<1>4. canon \in [1..n -> Word]
  BY <1>2, TablesAssumption
<1>5. canon \in Seq(Word)
  BY <1>4, SeqDef
<1>6. Extracted(m) = [words |-> m.words, framed |-> FALSE]
  BY DEF Extracted
<1>7. Canonical(Extracted(m)) = [words |-> canon, framed |-> FALSE]
  BY <1>6 DEF Canonical
<1>8. \A words \in Seq(Word) : [words |-> words, framed |-> FALSE] \in Term
  BY DEF Term
<1>9. Raw(m) \in Term
  BY <1>1, <1>3 DEF Raw, Term
<1>10. Extracted(m) \in Term
  BY <1>3, <1>6, <1>8
<1> HIDE DEF canon
<1>11. Canonical(Extracted(m)) \in Term
  BY <1>5, <1>7, <1>8
<1> QED  BY <1>1, <1>3, <1>6, <1>7, <1>9, <1>10, <1>11 DEF canon

\* The reads of a sequence of things are as many and as different.
LEMMA ReadsAre ==
    ASSUME NEW S, NEW seq \in Seq(S), NEW by, NEW Q, \A x \in S : Read(by, x) \in Q
    PROVE  /\ Reads(by, seq) \in Seq(Q) /\ Len(Reads(by, seq)) = Len(seq)
           /\ Distinct(seq) => Distinct(Reads(by, seq))
           /\ ToSet(Reads(by, seq)) = {Read(by, x) : x \in ToSet(seq)}
<1>1. DOMAIN seq = 1..Len(seq) /\ Len(seq) \in Nat /\ \A i \in 1..Len(seq) : seq[i] \in S
  OBVIOUS
<1> DEFINE rs == Reads(by, seq)
<1>2. DOMAIN rs = 1..Len(seq) /\ \A i \in 1..Len(seq) : rs[i] = Read(by, seq[i])
  BY <1>1 DEF Reads
<1>3. rs \in [1..Len(seq) -> Q]
  BY <1>1 DEF Reads
<1>4. rs \in Seq(Q) /\ Len(rs) = Len(seq)
  BY <1>1, <1>3, SeqDef
<1>5. \A x, y : Read(by, x) = Read(by, y) => x = y
  BY DEF Read
<1> HIDE DEF rs
<1>6. Distinct(seq) => Distinct(rs)
  BY <1>1, <1>2, <1>5 DEF Distinct
<1>7. ToSet(rs) = {Read(by, x) : x \in ToSet(seq)}
  BY <1>1, <1>2 DEF ToSet
<1> QED  BY <1>4, <1>6, <1>7 DEF rs

\* Two sequences with nothing in common, one after the other.
LEMMA ConcatDistinct ==
    ASSUME NEW S, NEW s \in Seq(S), NEW t \in Seq(S)
    PROVE  /\ s \o t \in Seq(S) /\ Len(s \o t) = Len(s) + Len(t)
           /\ ToSet(s \o t) = ToSet(s) \cup ToSet(t)
           /\ Distinct(s) /\ Distinct(t) /\ ToSet(s) \cap ToSet(t) = {} => Distinct(s \o t)
<1> DEFINE st == s \o t
           a == Len(s)
           b == Len(t)
<1>1. /\ a \in Nat /\ b \in Nat /\ DOMAIN s = 1..a /\ DOMAIN t = 1..b
      /\ st \in Seq(S) /\ Len(st) = a + b
      /\ \A i \in 1..(a + b) : st[i] = IF i <= a THEN s[i] ELSE t[i - a]
  BY ConcatProperties
<1>2. DOMAIN st = 1..(a + b)
  BY <1>1
<1> HIDE DEF st, a, b
<1>3. \A i \in 1..a : i \in 1..(a + b) /\ st[i] = s[i]
  BY <1>1
<1>4. \A i \in 1..b : i + a \in 1..(a + b) /\ st[i + a] = t[i]
  BY <1>1
<1>5. \A i \in 1..(a + b) : \/ i \in 1..a /\ st[i] = s[i]
                            \/ i - a \in 1..b /\ st[i] = t[i - a]
  BY <1>1
<1>6. ToSet(st) = ToSet(s) \cup ToSet(t)
  <2>1. ToSet(st) \subseteq ToSet(s) \cup ToSet(t)
    BY <1>1, <1>2, <1>5 DEF ToSet
  <2>2. ToSet(s) \subseteq ToSet(st)
    BY <1>1, <1>2, <1>3 DEF ToSet
  <2>3. ToSet(t) \subseteq ToSet(st)
    BY <1>1, <1>2, <1>4 DEF ToSet
  <2> QED  BY <2>1, <2>2, <2>3
<1>7. ASSUME Distinct(s), Distinct(t), ToSet(s) \cap ToSet(t) = {}
      PROVE  Distinct(st)
  <2>1. \A i \in 1..a, j \in 1..b : s[i] # t[j]
    BY <1>1, <1>7 DEF ToSet
  <2>2. ASSUME NEW i \in 1..(a + b), NEW j \in 1..(a + b), st[i] = st[j]  PROVE i = j
    <3>1. CASE i \in 1..a /\ st[i] = s[i] /\ j \in 1..a /\ st[j] = s[j]
      BY <1>1, <1>7, <2>2, <3>1 DEF Distinct
    <3>2. CASE i - a \in 1..b /\ st[i] = t[i - a] /\ j - a \in 1..b /\ st[j] = t[j - a]
      <4>1. i - a = j - a
        BY <1>1, <1>7, <2>2, <3>2 DEF Distinct
      <4> QED  BY <1>1, <4>1
    <3> QED  BY <1>5, <2>1, <2>2, <3>1, <3>2
  <2> QED  BY <1>2, <2>2 DEF Distinct
<1> QED  BY <1>1, <1>6, <1>7 DEF st, a, b

\* Turns that look for products; the searches of a turn, the categories it looks
\* up, and the read that is neither a search nor about a category.
Products(i, m) == i = "product_search" \/ (i = "product_details" /\ m.id = "none")

Searches(i, m) ==
    IF Products(i, m) THEN Reads("search", Terms(m, Canonical(Extracted(m))))
    ELSE IF i = "inventory_check" THEN Reads("check", Terms(m, Extracted(m)))
    ELSE <<>>

Categories(i, m) ==
    IF Products(i, m) THEN Aliases(Canonical(Extracted(m))) ELSE <<>>

Other(i, m) ==
    CASE i = "product_details" /\ m.id # "none" -> Read("details", m.id)
      [] i = "category_browse" -> Read("browse", None)
      [] i = "inventory_movements" -> Read("movements", m.id)
      [] OTHER -> Read("details", "found")

\* All that a turn may ever ask.
Questions(i, m) ==
    ToSet(Searches(i, m))
    \cup {Read("lookup", c) : c \in ToSet(Categories(i, m))}
    \cup {Read("filter", c) : c \in ToSet(Categories(i, m))}
    \cup {Other(i, m)}

Search == [by : {"search", "check"}, of : Term]

\* A turn has at most four searches and at most two categories; one that looks
\* for products or checks their stock has a search.
LEMMA SearchesAre ==
    ASSUME NEW m \in Message, NEW i
    PROVE  /\ Searches(i, m) \in Seq(Search)
           /\ Distinct(Searches(i, m)) /\ Len(Searches(i, m)) \in 0..4
           /\ Products(i, m) \/ i = "inventory_check" => Len(Searches(i, m)) # 0
           /\ Categories(i, m) \in Seq(Category) /\ Distinct(Categories(i, m))
           /\ Len(Categories(i, m)) \in 0..2
<1>1. \A x \in Term : Read("search", x) \in Search /\ Read("check", x) \in Search
  BY DEF Read, Search
<1>2. <<>> \in Seq(Search) /\ <<>> \in Seq(Category) /\ Distinct(<<>>) /\ Len(<<>>) = 0
  BY DEF Distinct
<1>3. CASE Products(i, m)
  <2> DEFINE t == Canonical(Extracted(m))
             ts == Terms(m, t)
  <2>1. ts \in Seq(Term) /\ Distinct(ts) /\ Len(ts) \in 1..4
    BY MessageIs, TermsAre
  <2>2. /\ Aliases(t) \in Seq(Category) /\ Distinct(Aliases(t))
        /\ Len(Aliases(t)) \in 0..2
    BY MessageIs, AliasesAre
  <2>3. Searches(i, m) = Reads("search", ts) /\ Categories(i, m) = Aliases(t)
    BY <1>3 DEF Searches, Categories
  <2> HIDE DEF ts, t
  <2>4. /\ Reads("search", ts) \in Seq(Search) /\ Len(Reads("search", ts)) = Len(ts)
        /\ Distinct(Reads("search", ts))
    BY <1>1, <2>1, ReadsAre
  <2>5. Searches(i, m) \in Seq(Search) /\ Distinct(Searches(i, m))
    BY <2>1, <2>3, <2>4
  <2>6. Len(Searches(i, m)) \in 0..4 /\ Len(Searches(i, m)) # 0
    <3>1. Len(Searches(i, m)) = Len(ts)
      BY <2>3, <2>4
    <3> QED  BY <2>1, <3>1
  <2> QED  BY <2>2, <2>3, <2>5, <2>6
<1>4. CASE ~Products(i, m) /\ i = "inventory_check"
  <2> DEFINE ts == Terms(m, Extracted(m))
  <2>1. ts \in Seq(Term) /\ Distinct(ts) /\ Len(ts) \in 1..4
    BY MessageIs, TermsAre
  <2>3. Searches(i, m) = Reads("check", ts) /\ Categories(i, m) = <<>>
    BY <1>4 DEF Searches, Categories
  <2> HIDE DEF ts
  <2>4. /\ Reads("check", ts) \in Seq(Search) /\ Len(Reads("check", ts)) = Len(ts)
        /\ Distinct(Reads("check", ts))
    BY <1>1, <2>1, ReadsAre
  <2>5. Searches(i, m) \in Seq(Search) /\ Distinct(Searches(i, m))
    BY <2>1, <2>3, <2>4
  <2>6. Len(Searches(i, m)) \in 0..4 /\ Len(Searches(i, m)) # 0
    <3>1. Len(Searches(i, m)) = Len(ts)
      BY <2>3, <2>4
    <3> QED  BY <2>1, <3>1
  <2>7. Len(<<>>) \in 0..2
    BY <1>2
  <2> QED  BY <1>2, <2>3, <2>5, <2>6, <2>7
<1>5. CASE ~Products(i, m) /\ i # "inventory_check"
  <2>1. Searches(i, m) = <<>> /\ Categories(i, m) = <<>>
    BY <1>5 DEF Searches, Categories
  <2> QED  BY <1>2, <1>5, <2>1
<1> QED  BY <1>3, <1>4, <1>5

\* What kinds of questions there are.
LEMMA QuestionIs ==
    ASSUME NEW m \in Message, NEW i, NEW r \in Questions(i, m)
    PROVE  /\ r = Read(r.by, r.of)
           /\ r.by \in {"search", "check"} => r \in ToSet(Searches(i, m))
           /\ r.by \in {"lookup", "filter"} => r.of \in ToSet(Categories(i, m))
           /\ r.by = "movements" => r.of = m.id
           /\ r.by = "details" => r = Other(i, m) /\ r.of \in {m.id, "found"}
           /\ i = "product_details" /\ m.id # "none" => r.by = "details"
<1>1. CASE r \in ToSet(Searches(i, m))
  <2>1. r \in Search
    <3>1. Searches(i, m) \in Seq(Search)
      BY SearchesAre
    <3>2. PICK k \in DOMAIN Searches(i, m) : r = Searches(i, m)[k]
      BY <1>1 DEF ToSet
    <3> QED  BY <3>1, <3>2
  <2>2. ~(i = "product_details" /\ m.id # "none")
    BY <1>1 DEF Searches, Products, ToSet
  <2> QED  BY <1>1, <2>1, <2>2 DEF Read, Search
<1>2. ASSUME NEW c \in ToSet(Categories(i, m)), NEW by \in {"lookup", "filter"}, r = Read(by, c)
      PROVE  /\ r = Read(r.by, r.of) /\ r.by \in {"lookup", "filter"}
             /\ r.of \in ToSet(Categories(i, m))
             /\ ~(i = "product_details" /\ m.id # "none")
  <2>1. ~(i = "product_details" /\ m.id # "none")
    BY <1>2 DEF Categories, Products, ToSet
  <2> QED  BY <1>2, <2>1 DEF Read
<1>3. CASE r = Other(i, m)
  BY <1>3 DEF Other, Read
<1> QED  BY <1>1, <1>2, <1>3 DEF Questions

\* A turn plans to ask different questions; only of what is not understood it
\* plans none.  No filter is planned, and a product's details only by its number
\* and alone.
LEMMA PlanIs ==
    ASSUME NEW m \in Message, NEW i \in Intent \cup {"unknown"}
    PROVE  /\ Plan(i, m) \in Seq(Questions(i, m)) /\ Distinct(Plan(i, m))
           /\ (Plan(i, m) = <<>>) <=> i = "unknown"
           /\ \A r \in ToSet(Plan(i, m)) :
                 /\ r.by # "filter"
                 /\ r.by = "details" => Len(Plan(i, m)) = 1 /\ r # Read("details", "found")
           /\ i # "unknown" => ToSet(Searches(i, m)) \subseteq ToSet(Plan(i, m))
           /\ \A c \in ToSet(Categories(i, m)) :
                 i # "unknown" => Read("lookup", c) \in ToSet(Plan(i, m))
<1> DEFINE Q == Questions(i, m)
           S == Searches(i, m)
           C == Categories(i, m)
<1>0. i \in {"product_search", "product_details", "category_browse", "inventory_check",
             "inventory_movements", "unknown"}
  BY DEF Intent
<1>1. /\ S \in Seq(Search) /\ Distinct(S) /\ Len(S) \in 0..4
      /\ C \in Seq(Category) /\ Distinct(C)
      /\ Products(i, m) \/ i = "inventory_check" => Len(S) # 0
  BY SearchesAre
<1>2. S \in Seq(Q)
  <2>1. Len(S) \in Nat /\ S \in [1..Len(S) -> Search] /\ DOMAIN S = 1..Len(S)
    BY <1>1
  <2>2. \A k \in 1..Len(S) : S[k] \in Q
    BY <2>1 DEF Questions, ToSet
  <2>3. S \in [1..Len(S) -> Q]
    BY <2>1, <2>2
  <2> QED  BY <2>1, <2>3, SeqDef
<1>3. \A r \in ToSet(S) : r.by \in {"search", "check"}
  <2>1. \A k \in DOMAIN S : S[k] \in Search
    BY <1>1
  <2> HIDE DEF S
  <2> QED  BY <2>1 DEF ToSet, Search
<1>4. CASE Products(i, m)
  <2> DEFINE L == Reads("lookup", C)
  <2>1. Plan(i, m) = S \o L
    BY <1>4 DEF Plan, ProductLadder, Ladder, Terms, Searches, Categories, Products
  <2>2. /\ L \in Seq({Read("lookup", c) : c \in ToSet(C)}) /\ Distinct(L)
        /\ ToSet(L) = {Read("lookup", c) : c \in ToSet(C)}
    <3>1. C \in Seq(ToSet(C))
      BY <1>1, SeqDef DEF ToSet
    <3> QED  BY <1>1, <3>1, ReadsAre
  <2>3. {Read("lookup", c) : c \in ToSet(C)} \subseteq Q
    BY DEF Questions
  <2>4. L \in Seq(Q)
    BY <2>2, <2>3, SeqMonotonic
  <2>5. \A r \in ToSet(L) : r.by = "lookup"
    BY <2>2 DEF Read
  <2> HIDE DEF L, S, C, Q
  <2>6. ToSet(S) \cap ToSet(L) = {}
    BY <1>3, <2>5
  <2>7. /\ S \o L \in Seq(Q) /\ Len(S \o L) = Len(S) + Len(L)
        /\ ToSet(S \o L) = ToSet(S) \cup ToSet(L) /\ Distinct(S \o L)
    BY <1>1, <1>2, <2>2, <2>4, <2>6, ConcatDistinct
  <2>8. S \o L # <<>>
    <3>1. Len(S) \in Nat /\ Len(L) \in Nat /\ Len(S) # 0
      BY <1>1, <1>4, <2>4
    <3> QED  BY <2>7, <3>1
  <2>9. i # "unknown"
    BY <1>4 DEF Products
  <2>10. \A r \in ToSet(S \o L) : r.by # "filter" /\ r.by # "details"
    BY <1>3, <2>5, <2>7
  <2>11. \A c \in ToSet(C) : Read("lookup", c) \in ToSet(S \o L)
    BY <2>2, <2>7
  <2> QED  BY <2>1, <2>7, <2>8, <2>9, <2>10, <2>11 DEF S, C, Q
<1>5. CASE ~Products(i, m) /\ i = "inventory_check"
  <2>1. Plan(i, m) = S
    BY <1>5 DEF Plan, Ladder, Terms, Searches
  <2>2. C = <<>> /\ ToSet(C) = {}
    BY <1>5 DEF Categories, ToSet
  <2> HIDE DEF S, C, Q
  <2>3. S # <<>>
    BY <1>1, <1>5
  <2> QED  BY <1>1, <1>2, <1>3, <1>5, <2>1, <2>2, <2>3 DEF S, C, Q
<1>6. CASE ~Products(i, m) /\ i # "inventory_check" /\ i # "unknown"
  <2>1. Plan(i, m) = <<Other(i, m)>>
    BY <1>0, <1>6 DEF Plan, Other, Products
  <2>2. S = <<>> /\ ToSet(S) = {} /\ C = <<>> /\ ToSet(C) = {}
    BY <1>6 DEF Searches, Categories, ToSet
  <2>3. Other(i, m) \in Q
    BY DEF Questions
  <2>4. /\ Other(i, m).by # "filter"
        /\ Other(i, m) # Read("details", "found")
    <3>1. m.id # "found"
      BY DEF Message
    <3> QED  BY <1>0, <1>6, <3>1 DEF Other, Products, Read
  <2> HIDE DEF S, C, Q
  <2>5. /\ <<Other(i, m)>> \in Seq(Q) /\ Distinct(<<Other(i, m)>>)
        /\ Len(<<Other(i, m)>>) = 1 /\ ToSet(<<Other(i, m)>>) = {Other(i, m)}
    BY <2>3, OneIsDistinct
  <2>6. <<Other(i, m)>> # <<>>
    OBVIOUS
  <2> QED  BY <1>6, <2>1, <2>2, <2>4, <2>5, <2>6 DEF S, C, Q
<1>7. CASE i = "unknown"
  <2>1. Plan(i, m) = <<>>
    BY <1>7 DEF Plan
  <2>2. C = <<>> /\ ToSet(C) = {}
    BY <1>7 DEF Categories, Products, ToSet
  <2>3. <<>> \in Seq(Q) /\ Distinct(<<>>) /\ ToSet(<<>>) = {}
    BY DEF Distinct, ToSet
  <2> HIDE DEF S, C, Q
  <2> QED  BY <1>7, <2>1, <2>2, <2>3 DEF C, Q
<1> QED  BY <1>4, <1>5, <1>6, <1>7

\* What Exhausted asks for is planned.
LEMMA PlanReaches ==
    ASSUME NEW m \in Message, NEW i \in {"product_search", "product_details", "inventory_check"},
           ~(i = "product_details" /\ m.id # "none"),
           NEW by, by = IF i # "inventory_check" THEN "search" ELSE "check",
           NEW words,
           words = IF i # "inventory_check"
                   THEN [k \in DOMAIN m.words |-> Canon[m.words[k]]] ELSE m.words
    PROVE  /\ Read(by, Raw(m)) \in ToSet(Plan(i, m))
           /\ words # <<>> =>
                 Read(by, [words |-> words, framed |-> FALSE]) \in ToSet(Plan(i, m))
           /\ \A w \in Notable(words) : Read(by, Phrase(w)) \in ToSet(Plan(i, m))
           /\ i # "inventory_check" => \A w \in {v \in Notable(words) : CategoryOf[v] # None} :
                 Read("lookup", CategoryOf[w]) \in ToSet(Plan(i, m))
<1> DEFINE t == IF i # "inventory_check" THEN Canonical(Extracted(m)) ELSE Extracted(m)
           ts == Terms(m, t)
<1>1. t \in Term /\ t = [words |-> words, framed |-> FALSE] /\ Raw(m) \in Term
  BY MessageIs
<1>2. t.words = words
  BY <1>1
<1> HIDE DEF t
<1>3. /\ ts \in Seq(Term) /\ First(m, t) \in ToSet(ts) /\ Raw(m) \in ToSet(ts)
      /\ \A v \in Notable(words) : Phrase(v) \in ToSet(ts)
  BY <1>1, <1>2, TermsAre
<1>4. words # <<>> => First(m, t) = t
  BY <1>2 DEF First
<1> HIDE DEF ts
<1>5. i \in Intent /\ i # "unknown" /\ (Products(i, m) <=> i # "inventory_check")
  BY DEF Intent, Products
<1>6. \A x \in ToSet(ts) : Read(by, x) \in ToSet(Plan(i, m))
  <2>1. Searches(i, m) = Reads(by, ts)
    BY <1>5 DEF Searches, ts, t
  <2>2. \A x \in ToSet(ts) : Read(by, x) \in ToSet(Reads(by, ts))
    <3>1. DOMAIN Reads(by, ts) = DOMAIN ts
      BY DEF Reads
    <3>2. \A k \in DOMAIN ts : Reads(by, ts)[k] = Read(by, ts[k])
      BY DEF Reads
    <3> QED  BY <3>1, <3>2 DEF ToSet
  <2>3. ToSet(Searches(i, m)) \subseteq ToSet(Plan(i, m))
    BY <1>5, PlanIs
  <2> QED  BY <2>1, <2>2, <2>3
<1>7. ASSUME i # "inventory_check", NEW v \in Notable(words), CategoryOf[v] # None
      PROVE  Read("lookup", CategoryOf[v]) \in ToSet(Plan(i, m))
  <2>1. CategoryOf[v] \in ToSet(Aliases(t))
    BY <1>1, <1>2, <1>7, AliasesAre
  <2>2. Categories(i, m) = Aliases(t)
    BY <1>5, <1>7 DEF Categories, t
  <2> QED  BY <1>5, <2>1, <2>2, PlanIs
<1> QED  BY <1>1, <1>3, <1>4, <1>6, <1>7

-----------------------------------------------------------------------------
(***************************************************************************)
(* The inductive invariant: what a turn has asked and has still to ask.    *)
(***************************************************************************)

Answer == {"some", "none"} \cup Failure

Asked(r) == \E k \in DOMAIN answers : answers[k].read = r
Came(r, results) ==
    \E k \in DOMAIN answers : answers[k].read = r /\ answers[k].answer \in results
Due(r) == r \in ToSet(todo)

\* All that is or was asked is one of the intent's questions, and nothing is
\* asked before there is an intent; each request of a read costs a retry.
BaseInv ==
    /\ TypeOK
    /\ todo \in Seq(Questions(intent, msg))
    /\ answers \in Seq([read : Questions(intent, msg), answer : Answer])
    /\ intent = None => todo = <<>> /\ answers = <<>>
    /\ outcome = "pending" => requests + left = MaxRetries

\* No question is asked that was asked or planned before; the lookups of different
\* categories count as different.  A category is searched only once it was looked
\* up; a product's details are the last question.
OnceInv ==
    /\ Distinct(todo)
    /\ \A j, k \in DOMAIN answers : answers[j].read = answers[k].read => j = k
    /\ \A r \in ToSet(todo) : ~Asked(r)
    /\ \A c : Asked(Read("filter", c)) \/ Due(Read("filter", c)) => Asked(Read("lookup", c))
    /\ \A r \in ToSet(todo) : r.by = "details" => Len(todo) = 1
    /\ \A r : r.by = "details" /\ Asked(r) => todo = <<>>

\* The turn has found nothing so far.
Searching ==
    /\ intent # None
    /\ outcome \in {"pending", "none", "no match"}
    /\ ~Due(Read("details", "found"))

\* The question came to nothing, by itself or, of a category, by the search that
\* its id was for.
Pursued(r) ==
    \/ Came(r, {"none"})
    \/ /\ r.by = "lookup"
       /\ \/ Came(r, Failure)
          \/ Due(Read("filter", r.of))
          \/ Came(Read("filter", r.of), {"none"})

\* As long as nothing is found, every question planned is still to be asked or
\* came to nothing; a product asked for by its number cannot be missing so.
ProgressInv ==
    /\ Searching => \A r \in ToSet(Plan(intent, msg)) : Due(r) \/ Pursued(r)
    /\ outcome \in {"none", "no match"} => ~(intent = "product_details" /\ msg.id # "none")

\* A result, and a failure, is what the last read came to.
ToldInv ==
    LET last == answers[Len(answers)]
    IN  /\ outcome = "some" => last.answer = "some" /\ last.read.by # "lookup"
        /\ outcome \in Failure => last.answer = outcome /\ last.read.by # "lookup"
        /\ outcome \in Transient \ Final => requests = MaxRetries + 1
        /\ outcome = "raised" => msg.long # "no" \/ msg.id \in {"zero", "superscript"}

Inv == BaseInv /\ OnceInv /\ ProgressInv /\ ToldInv

\* The first of a sequence and the rest.
LEMMA TailIs ==
    ASSUME NEW S, NEW s \in Seq(S), s # <<>>, Distinct(s)
    PROVE  /\ Head(s) \in S /\ Head(s) \in ToSet(s) /\ Len(s) \in Nat \ {0}
           /\ Tail(s) \in Seq(S) /\ Distinct(Tail(s)) /\ Len(Tail(s)) = Len(s) - 1
           /\ ToSet(Tail(s)) = ToSet(s) \ {Head(s)}
           /\ \A i \in DOMAIN Tail(s) : i + 1 \in DOMAIN s /\ i \in 1..Len(Tail(s))
                                         /\ Tail(s)[i] = s[i + 1]
           /\ Len(s) > 1 <=> Tail(s) # <<>>
<1> DEFINE n == Len(s)
           t == Tail(s)
<1>1. /\ n \in Nat \ {0} /\ DOMAIN s = 1..n /\ Head(s) = s[1] /\ s[1] \in S
      /\ t \in Seq(S) /\ Len(t) = n - 1 /\ DOMAIN t = 1..(n - 1)
      /\ \A i \in 1..(n - 1) : t[i] = s[i + 1]
  BY EmptySeq, HeadTailProperties
<1>2. n > 1 <=> t # <<>>
  <2>1. t = <<>> => Len(t) = 0
    BY EmptySeq
  <2>2. t # <<>> => Len(t) # 0
    BY <1>1, EmptySeq
  <2> HIDE DEF n, t
  <2> QED  BY <1>1, <2>1, <2>2
<1> HIDE DEF n, t
<1>3. \A i \in 1..(n - 1) : i + 1 \in 1..n
  BY <1>1
<1>4. \A i \in 1..n : i = 1 \/ (i - 1 \in 1..(n - 1) /\ t[i - 1] = s[i])
  BY <1>1
<1>5. Distinct(t)
  <2>1. ASSUME NEW i \in 1..(n - 1), NEW j \in 1..(n - 1), t[i] = t[j]  PROVE i = j
    <3>1. i + 1 \in 1..n /\ j + 1 \in 1..n /\ s[i + 1] = s[j + 1]
      BY <1>1, <1>3, <2>1
    <3>2. i + 1 = j + 1
      BY <1>1, <3>1 DEF Distinct
    <3> QED  BY <3>2
  <2> QED  BY <1>1, <2>1 DEF Distinct
<1>6. ToSet(t) = ToSet(s) \ {s[1]}
  <2>1. ASSUME NEW x \in ToSet(t)  PROVE x \in ToSet(s) /\ x # s[1]
    <3>1. PICK i \in 1..(n - 1) : x = t[i]
      BY <1>1 DEF ToSet
    <3>2. i + 1 \in 1..n /\ x = s[i + 1] /\ i + 1 # 1
      BY <1>1, <1>3, <3>1
    <3> QED  BY <1>1, <3>2 DEF ToSet, Distinct
  <2>2. ASSUME NEW x \in ToSet(s), x # s[1]  PROVE x \in ToSet(t)
    <3>1. PICK i \in 1..n : x = s[i]
      BY <1>1 DEF ToSet
    <3> QED  BY <1>1, <1>4, <2>2, <3>1 DEF ToSet
  <2> QED  BY <2>1, <2>2
<1>7. s[1] \in ToSet(s)
  BY <1>1 DEF ToSet
<1> QED  BY <1>1, <1>2, <1>3, <1>5, <1>6, <1>7 DEF n, t

\* The intent is one of the rules' or unknown.
LEMMA ClassifyIs ==
    ASSUME NEW english \in SUBSET Intent, NEW spanish \in SUBSET Intent
    PROVE  Classify(english, spanish) \in Intent \cup {"unknown"}
<1>1. ASSUME NEW matching \in SUBSET Intent, matching # {}
      PROVE  FirstRule(matching) \in Intent
  <2> DEFINE hits == {i \in DOMAIN RuleOrder : RuleOrder[i] \in matching}
  <2>1. DOMAIN RuleOrder = 1..5
    BY DEF RuleOrder
  <2>2. hits \subseteq Nat
    BY <2>1
  <2>3. hits # {}
    <3>1. \A x \in Intent : \E i \in 1..5 : RuleOrder[i] = x
      BY DEF Intent, RuleOrder
    <3> QED  BY <1>1, <2>1, <3>1
  <2>4. FirstRule(matching) = RuleOrder[Min(hits)]
    BY <2>3 DEF FirstRule
  <2>5. Min(hits) \in hits
    <3> HIDE DEF hits
    <3>1. \E k \in hits : \A j \in hits : k =< j
      BY <2>2, <2>3, LeastOf
    <3> QED  BY <3>1 DEF Min
  <2> QED  BY <2>4, <2>5
<1> QED  BY <1>1 DEF Classify


\* Nothing is asked of a new message.
LEMMA InitInv == Init => Inv
<1> SUFFICES ASSUME Init  PROVE Inv
  OBVIOUS
<1>1. /\ todo = <<>> /\ answers = <<>> /\ DOMAIN todo = {} /\ DOMAIN answers = {}
      /\ intent = None /\ msg \in Message /\ outcome = "pending" /\ requests = 0
      /\ left = MaxRetries
  BY DEF Init
<1>2. BaseInv
  <2>1. TypeOK
    BY <1>1, BoundsAssumption DEF TypeOK, Outcome
  <2> QED  BY <1>1, <2>1, BoundsAssumption DEF BaseInv
<1>3. OnceInv
  <2>1. ToSet(todo) = {}
    BY <1>1 DEF ToSet
  <2>2. \A r : ~Asked(r) /\ ~Due(r)
    BY <1>1, <2>1 DEF Asked, Due
  <2> QED  BY <1>1, <2>1, <2>2 DEF OnceInv, Distinct
<1>4. ProgressInv /\ ToldInv
  BY <1>1 DEF ProgressInv, ToldInv, Searching, Failure, Transient, Final
<1> QED  BY <1>2, <1>3, <1>4 DEF Inv

\* The plan that a turn begins with.
LEMMA BeginKeeps ==
    ASSUME Inv, NEW english \in SUBSET Intent, NEW spanish \in SUBSET Intent,
           Begin(english, spanish)
    PROVE  Inv'
<1> DEFINE P == Plan(intent', msg')
<1>1. /\ intent' \in Intent \cup {"unknown"} /\ todo' = P
      /\ outcome' = IF intent' = "unknown" THEN "nothing" ELSE "pending"
      /\ msg' = msg /\ left' = left /\ answers' = answers /\ requests' = requests
  BY ClassifyIs DEF Begin
<1>2. /\ intent = None /\ msg \in Message /\ answers = <<>> /\ DOMAIN answers = {}
      /\ left \in 0..MaxRetries /\ requests \in 0..(MaxRetries + 1)
      /\ outcome = "pending" /\ requests + left = MaxRetries
  BY DEF Begin, Inv, BaseInv, TypeOK
<1>3. intent' # None
  BY <1>1, NoneAssumption
<1>4. /\ P \in Seq(Questions(intent', msg')) /\ Distinct(P)
      /\ (P = <<>>) <=> intent' = "unknown"
      /\ \A r \in ToSet(P) :
            /\ r.by # "filter"
            /\ r.by = "details" => Len(P) = 1 /\ r # Read("details", "found")
  BY <1>1, <1>2, PlanIs
<1> HIDE DEF P
<1>5. BaseInv'
  <2>1. \A i \in DOMAIN P : P[i] \in ToSet(P)
    BY DEF ToSet
  <2>2. TypeOK'
    BY <1>1, <1>2, <1>3, <1>4, <2>1 DEF TypeOK, Outcome, P
  <2>3. answers' \in Seq([read : Questions(intent', msg'), answer : Answer])
    BY <1>1, <1>2
  <2> QED  BY <1>1, <1>2, <1>3, <1>4, <2>2, <2>3 DEF BaseInv
<1>6. OnceInv'
  <2>1. \A r : ~Asked(r)'
    BY <1>1, <1>2 DEF Asked
  <2>2. \A c : ~Due(Read("filter", c))'
    <3>1. \A c : Read("filter", c).by = "filter"
      BY DEF Read
    <3> QED  BY <1>1, <1>4, <3>1 DEF Due
  <2> QED  BY <1>1, <1>2, <1>4, <2>1, <2>2 DEF OnceInv
<1>7. ProgressInv'
  <2>1. \A r \in ToSet(Plan(intent', msg')) : Due(r)'
    BY <1>1 DEF Due, P
  <2>2. outcome' \notin {"none", "no match"}
    BY <1>1
  <2> QED  BY <2>1, <2>2 DEF ProgressInv
<1>8. ToldInv'
  BY <1>1 DEF ToldInv, Failure, Transient, Final
<1> QED  BY <1>5, <1>6, <1>7, <1>8 DEF Inv

\* A failure that is retried.
LEMMA RetryKeeps ==
    ASSUME Inv, Retry
    PROVE  Inv'
<1>1. /\ msg' = msg /\ intent' = intent /\ todo' = todo /\ outcome' = outcome
      /\ answers' = answers /\ requests' = requests + 1 /\ left' = left - 1 /\ left > 0
      /\ todo # <<>>
  BY DEF Retry, Reading
<1>2. /\ left \in 0..MaxRetries /\ outcome = "pending" /\ requests + left = MaxRetries
      /\ requests \in 0..(MaxRetries + 1) /\ intent # None
  BY <1>1 DEF Inv, BaseInv, TypeOK
<1>3. /\ left' \in 0..MaxRetries /\ requests' + left' = MaxRetries
      /\ requests' \in 0..(MaxRetries + 1)
  BY <1>1, <1>2, BoundsAssumption
<1>4. BaseInv'
  BY <1>1, <1>2, <1>3 DEF Inv, BaseInv, TypeOK
<1>5. OnceInv'
  BY <1>1 DEF Inv, OnceInv, Asked, Due
<1>6. ProgressInv'
  BY <1>1 DEF Inv, ProgressInv, Searching, Pursued, Due, Came
<1>7. ToldInv'
  BY <1>1, <1>2 DEF ToldInv, Failure, Transient, Final
<1> QED  BY <1>4, <1>5, <1>6, <1>7 DEF Inv

\* A read refused before it is made.
LEMMA RefuseKeeps ==
    ASSUME Inv, Refuse
    PROVE  Inv'
<1>1. /\ todo # <<>> /\ Refused(msg, Head(todo)) /\ todo' = <<>> /\ outcome' = "raised"
      /\ msg' = msg /\ intent' = intent /\ left' = left /\ answers' = answers
      /\ requests' = requests /\ DOMAIN todo' = {}
  BY DEF Refuse, Settle
<1>2. /\ TypeOK /\ todo \in Seq(Questions(intent, msg)) /\ msg \in Message
      /\ intent # None /\ Distinct(todo)
      /\ answers \in Seq([read : Questions(intent, msg), answer : Answer])
  BY <1>1 DEF Inv, BaseInv, OnceInv, TypeOK
<1>3. BaseInv'
  <2>1. TypeOK'
    BY <1>1, <1>2 DEF TypeOK, Outcome
  <2> QED  BY <1>1, <1>2, <2>1 DEF BaseInv
<1>4. OnceInv'
  <2>1. ToSet(todo') = {}
    BY <1>1 DEF ToSet
  <2>2. \A r : (Asked(r)' <=> Asked(r)) /\ ~Due(r)'
    BY <1>1, <2>1 DEF Asked, Due
  <2>3. Distinct(todo')
    BY <1>1 DEF Distinct
  <2> QED  BY <1>1, <2>1, <2>2, <2>3 DEF Inv, OnceInv
<1>5. ProgressInv'
  BY <1>1 DEF ProgressInv, Searching
<1>6. ToldInv'
  <2>1. msg.long # "no" \/ msg.id \in {"zero", "superscript"}
    <3> DEFINE r == Head(todo)
    <3>1. r \in Questions(intent, msg)
      BY <1>1, <1>2, TailIs
    <3>2. /\ r.by = "movements" => r.of = msg.id
          /\ r.by = "details" => r.of \in {msg.id, "found"}
      BY <1>2, <3>1, QuestionIs
    <3> HIDE DEF r
    <3>3. Refused(msg, r)
      BY <1>1 DEF r
    <3> QED  BY <3>2, <3>3 DEF Refused
  <2> QED  BY <1>1, <2>1 DEF ToldInv, Failure, Transient, Final
<1> QED  BY <1>3, <1>4, <1>5, <1>6 DEF Inv

\* A read is over: it was asked, and came to its answer.
LEMMA AnswersGrow ==
    ASSUME BaseInv, todo # <<>>, NEW answer \in Answer, UNCHANGED <<msg, intent>>,
           answers' = Append(answers, [read |-> Head(todo), answer |-> answer])
    PROVE  /\ answers' \in Seq([read : Questions(intent', msg'), answer : Answer])
           /\ answers'[Len(answers')] = [read |-> Head(todo), answer |-> answer]
           /\ \A j, k \in DOMAIN answers' : answers'[j].read = answers'[k].read =>
                 \/ j = k
                 \/ j \in DOMAIN answers /\ k \in DOMAIN answers
                    /\ answers[j].read = answers[k].read
                 \/ Asked(Head(todo))
           /\ \A r : Asked(r)' <=> Asked(r) \/ r = Head(todo)
           /\ \A r, R : Came(r, R)' <=> Came(r, R) \/ (r = Head(todo) /\ answer \in R)
<1> DEFINE Q == Questions(intent, msg)
           e == [read |-> Head(todo), answer |-> answer]
           n == Len(answers)
<1>1. todo \in Seq(Q) /\ answers \in Seq([read : Q, answer : Answer])
      /\ Q = Questions(intent', msg')
  BY DEF BaseInv
<1>2. Head(todo) \in Q
  BY <1>1, HeadTailProperties
<1>3. e \in [read : Q, answer : Answer] /\ e.read = Head(todo) /\ e.answer = answer
  BY <1>2
<1> HIDE DEF Q, e
<1>4. /\ n \in Nat /\ DOMAIN answers = 1..n /\ answers' = Append(answers, e)
      /\ answers' \in Seq([read : Q, answer : Answer]) /\ Len(answers') = n + 1
      /\ DOMAIN answers' = 1..(n + 1) /\ answers'[n + 1] = e
      /\ \A k \in 1..n : answers'[k] = answers[k]
  BY <1>1, <1>3 DEF e
<1> HIDE DEF n
<1>5. \A k \in 1..(n + 1) : k = n + 1 \/ k \in 1..n
  BY <1>4
<1>6. \A k \in 1..n : k \in 1..(n + 1)
  BY <1>4
<1>7. n + 1 \in 1..(n + 1)
  BY <1>4
<1>8. \A r : Asked(r)' <=> Asked(r) \/ r = Head(todo)
  BY <1>3, <1>4, <1>5, <1>6, <1>7 DEF Asked
<1>9. \A r, R : Came(r, R)' <=> Came(r, R) \/ (r = Head(todo) /\ answer \in R)
  BY <1>3, <1>4, <1>5, <1>6, <1>7 DEF Came
<1>10. \A j, k \in DOMAIN answers' : answers'[j].read = answers'[k].read =>
          \/ j = k
          \/ j \in DOMAIN answers /\ k \in DOMAIN answers /\ answers[j].read = answers[k].read
          \/ Asked(Head(todo))
  BY <1>3, <1>4, <1>5 DEF Asked
<1> QED  BY <1>1, <1>4, <1>8, <1>9, <1>10 DEF e

\* The five ways for a turn to go on after a read.
CameToNothing(answer) ==
    \/ answer = "none" /\ Head(todo).by # "details"
    \/ answer \in Failure /\ Head(todo).by = "lookup"

SettlesIt(answer) ==
    /\ todo' = <<>> /\ outcome' = answer
    /\ answer \in {"some"} \cup Failure /\ Head(todo).by # "lookup"

GoesOn(answer) ==
    /\ todo' = Tail(todo) /\ Len(todo) > 1 /\ outcome' = outcome
    /\ CameToNothing(answer)

GivesUp(answer) ==
    /\ todo' = <<>> /\ ~(Len(todo) > 1) /\ outcome' \in {"none", "no match"}
    /\ CameToNothing(answer)

FiltersNext(answer) ==
    /\ todo' = <<Read("filter", Head(todo).of)>> \o Tail(todo) /\ outcome' = outcome
    /\ answer = "some" /\ Head(todo).by = "lookup"

DetailsNext(answer) ==
    /\ todo' = <<Read("details", "found")>> /\ outcome' = outcome
    /\ answer = "some" /\ intent = "product_details"
    /\ Head(todo).by \notin {"lookup", "details"}

\* There are no others: climbing, finding and failing each come to one of them.
LEMMA EndsSomehow ==
    ASSUME NEW answer, NEW n, Ends(answer, n)
    PROVE  \/ SettlesIt(answer) \/ GoesOn(answer) \/ GivesUp(answer)
           \/ FiltersNext(answer) \/ DetailsNext(answer)
  BY DEF Ends, Found, Fails, Climb, Continue, Settle, CameToNothing, SettlesIt, GoesOn,
         GivesUp, FiltersNext, DetailsNext

\* What a turn has still to ask after a read.
LEMMA TodoGoesOn ==
    ASSUME BaseInv, OnceInv, todo # <<>>, NEW answer, UNCHANGED <<msg, intent>>,
           SettlesIt(answer) \/ GoesOn(answer) \/ GivesUp(answer)
           \/ FiltersNext(answer) \/ DetailsNext(answer)
    PROVE  /\ todo' \in Seq(Questions(intent', msg')) /\ Distinct(todo')
           /\ SettlesIt(answer) => \A r : ~Due(r)'
           /\ GoesOn(answer) \/ GivesUp(answer) => \A r : Due(r)' <=> Due(r) /\ r # Head(todo)
           /\ FiltersNext(answer) => \A r :
                 Due(r)' <=> r = Read("filter", Head(todo).of) \/ (Due(r) /\ r # Head(todo))
           /\ DetailsNext(answer) =>
                 (\A r : Due(r)' <=> r = Read("details", "found")) /\ Len(todo') = 1
<1> DEFINE Q == Questions(intent, msg)
           h == Head(todo)
           f == Read("filter", h.of)
           d == Read("details", "found")
<1>1. /\ todo \in Seq(Q) /\ Distinct(todo) /\ msg \in Message
      /\ Q = Questions(intent', msg')
  BY DEF BaseInv, OnceInv, TypeOK
<1>2. /\ h \in Q /\ h \in ToSet(todo) /\ Len(todo) \in Nat \ {0}
      /\ Tail(todo) \in Seq(Q) /\ Distinct(Tail(todo)) /\ Len(Tail(todo)) = Len(todo) - 1
      /\ ToSet(Tail(todo)) = ToSet(todo) \ {h}
      /\ Len(todo) > 1 <=> Tail(todo) # <<>>
  BY <1>1, TailIs
<1>3. <<>> \in Seq(Q) /\ Distinct(<<>>) /\ ToSet(<<>>) = {}
  BY DEF Distinct, ToSet
<1> HIDE DEF Q, h
<1>4. CASE SettlesIt(answer)
  <2>1. <<d>> # <<>>
    OBVIOUS
  <2> HIDE DEF d
  <2> QED  BY <1>1, <1>3, <1>4, <2>1 DEF SettlesIt, GoesOn, GivesUp, FiltersNext,
     DetailsNext, Due, CameToNothing, Failure, Transient, Final, h, d
<1>5. CASE GoesOn(answer)
  BY <1>1, <1>2, <1>5 DEF SettlesIt, GoesOn, GivesUp, FiltersNext, DetailsNext, Due,
     CameToNothing, Failure, Transient, Final, h
<1>6. CASE GivesUp(answer)
  <2>1. ToSet(todo) \ {h} = {}
    BY <1>2, <1>3, <1>6 DEF GivesUp
  <2> QED  BY <1>1, <1>3, <1>6, <2>1 DEF SettlesIt, GoesOn, GivesUp, FiltersNext,
     DetailsNext, Due, CameToNothing, Failure, Transient, Final, h
<1>7. CASE FiltersNext(answer)
  <2>1. h.by = "lookup" /\ todo' = <<f>> \o Tail(todo)
    BY <1>7 DEF FiltersNext, h
  <2>2. f \in Q /\ h = Read("lookup", h.of)
    BY <1>1, <1>2, <2>1, QuestionIs DEF Q, Questions
  <2>3. f \notin ToSet(todo)
    <3>1. ~Asked(Read("lookup", h.of))
      BY <1>2, <2>2 DEF OnceInv
    <3> QED  BY <3>1 DEF OnceInv, Due
  <2> HIDE DEF f
  <2>4. <<f>> \in Seq(Q) /\ Distinct(<<f>>) /\ ToSet(<<f>>) = {f}
    BY <2>2, OneIsDistinct
  <2>5. /\ todo' \in Seq(Q) /\ Distinct(todo')
        /\ ToSet(todo') = {f} \cup (ToSet(todo) \ {h})
    <3> DEFINE s == <<f>>
               t == Tail(todo)
    <3>1. s \in Seq(Q) /\ t \in Seq(Q)
      BY <1>2, <2>4
    <3>2. Distinct(s) /\ Distinct(t) /\ ToSet(s) \cap ToSet(t) = {}
      BY <1>2, <2>3, <2>4
    <3>3. ToSet(s) = {f} /\ ToSet(t) = ToSet(todo) \ {h} /\ todo' = s \o t
      BY <1>2, <2>1, <2>4
    <3> HIDE DEF s, t
    <3>4. /\ s \o t \in Seq(Q) /\ Distinct(s \o t)
          /\ ToSet(s \o t) = ToSet(s) \cup ToSet(t)
      BY ONLY <3>1, <3>2, ConcatDistinct
    <3> QED  BY <3>3, <3>4
  <2>6. \A r : Due(r)' <=> r = f \/ (Due(r) /\ r # h)
    BY <2>5 DEF Due
  <2> QED  BY <1>1, <1>7, <2>5, <2>6 DEF SettlesIt, GoesOn, GivesUp, FiltersNext,
     DetailsNext, CameToNothing, Failure, Transient, Final, h, f
<1>8. CASE DetailsNext(answer)
  <2>1. /\ todo' = <<d>> /\ intent = "product_details" /\ h.by \notin {"lookup", "details"}
    BY <1>8 DEF DetailsNext, h
  <2>2. msg.id = "none"
    BY <1>1, <1>2, <2>1, QuestionIs DEF Q
  <2>3. d \in Q
    BY <2>1, <2>2 DEF Q, Questions, Other
  <2> HIDE DEF d
  <2>4. <<d>> \in Seq(Q) /\ Distinct(<<d>>) /\ ToSet(<<d>>) = {d} /\ Len(<<d>>) = 1
    BY <2>3, OneIsDistinct
  <2>5. \A r : Due(r)' <=> r = d
    BY <2>1, <2>4 DEF Due
  <2> QED  BY <1>1, <1>8, <2>1, <2>4, <2>5 DEF SettlesIt, GoesOn, GivesUp, FiltersNext,
     DetailsNext, CameToNothing, Failure, Transient, Final, h, d
<1> QED  BY <1>4, <1>5, <1>6, <1>7, <1>8

\* A read that is over keeps what is asked in order.
LEMMA EndsKeeps ==
    ASSUME Inv, todo # <<>>, NEW answer \in Answer, NEW n \in 0..(MaxRetries + 1),
           answer \in Transient \ Final => n = MaxRetries + 1, Ends(answer, n)
    PROVE  Inv'
<1> DEFINE Q == Questions(intent, msg)
           h == Head(todo)
           d == Read("details", "found")
<1>1. /\ BaseInv /\ OnceInv /\ ProgressInv /\ msg \in Message /\ todo \in Seq(Q)
      /\ Distinct(todo) /\ intent \in Intent \cup {"unknown"} /\ intent # None
      /\ outcome = "pending" /\ TypeOK
  BY DEF Inv, BaseInv, OnceInv, TypeOK
<1>2. /\ msg' = msg /\ intent' = intent /\ left' = MaxRetries
      /\ requests' = IF outcome' = "pending" THEN 0 ELSE n
      /\ answers' = Append(answers, [read |-> h, answer |-> answer])
  BY DEF Ends
<1>3. \/ SettlesIt(answer) \/ GoesOn(answer) \/ GivesUp(answer)
      \/ FiltersNext(answer) \/ DetailsNext(answer)
  BY EndsSomehow
<1>4. /\ answers' \in Seq([read : Questions(intent', msg'), answer : Answer])
      /\ answers'[Len(answers')] = [read |-> h, answer |-> answer]
      /\ \A j, k \in DOMAIN answers' : answers'[j].read = answers'[k].read =>
            \/ j = k
            \/ j \in DOMAIN answers /\ k \in DOMAIN answers
               /\ answers[j].read = answers[k].read
            \/ Asked(h)
      /\ \A r : Asked(r)' <=> Asked(r) \/ r = h
      /\ \A r, R : Came(r, R)' <=> Came(r, R) \/ (r = h /\ answer \in R)
  BY <1>1, <1>2, AnswersGrow
<1>5. /\ todo' \in Seq(Questions(intent', msg')) /\ Distinct(todo')
      /\ SettlesIt(answer) => \A r : ~Due(r)'
      /\ GoesOn(answer) \/ GivesUp(answer) => \A r : Due(r)' <=> Due(r) /\ r # h
      /\ FiltersNext(answer) => \A r :
            Due(r)' <=> r = Read("filter", h.of) \/ (Due(r) /\ r # h)
      /\ DetailsNext(answer) => (\A r : Due(r)' <=> r = d) /\ Len(todo') = 1
  BY <1>1, <1>2, <1>3, TodoGoesOn
<1>6. /\ h \in Q /\ Due(h) /\ Len(todo) \in Nat \ {0} /\ Len(Tail(todo)) = Len(todo) - 1
      /\ Tail(todo) \in Seq(Q)
      /\ \A i \in DOMAIN Tail(todo) : i + 1 \in DOMAIN todo /\ i \in 1..Len(Tail(todo))
                                      /\ Tail(todo)[i] = todo[i + 1]
      /\ Len(todo) > 1 <=> Tail(todo) # <<>>
  BY <1>1, TailIs DEF Due
<1>7. h = Read(h.by, h.of) /\ (intent = "product_details" /\ msg.id # "none" => h.by = "details")
  BY <1>1, <1>6, QuestionIs
<1>8. \A r : Due(r) /\ r.by = "details" => r = h /\ Len(todo) = 1
  <2> SUFFICES ASSUME NEW r, Due(r), r.by = "details"  PROVE r = h /\ Len(todo) = 1
    OBVIOUS
  <2>1. Len(todo) = 1
    BY <1>1 DEF OnceInv, Due
  <2>2. DOMAIN todo = 1..1 /\ h = todo[1]
    BY <1>1, <2>1
  <2> QED  BY <2>1, <2>2 DEF Due, ToSet
<1> HIDE DEF h, Q
<1>9. BaseInv'
  <2>1. \A i \in DOMAIN todo' :
           \/ todo'[i] \in ToSet(Plan(intent', msg'))
           \/ i = 1 /\ todo'[i].by \in {"filter", "details"}
    <3>0. \A i \in DOMAIN Tail(todo) : Tail(todo)[i] \in ToSet(Plan(intent, msg))
      BY <1>1, <1>6 DEF TypeOK
    <3>1. CASE todo' = <<>>
      <4>1. DOMAIN todo' = {}
        BY <3>1
      <4> QED  BY <4>1
    <3>2. CASE GoesOn(answer)
      <4>1. todo' = Tail(todo)
        BY <3>2 DEF GoesOn
      <4> QED  BY <1>2, <3>0, <4>1
    <3>3. CASE FiltersNext(answer)
      <4> DEFINE f == Read("filter", h.of)
                 t == Tail(todo)
      <4>1. todo' = <<f>> \o t /\ f.by = "filter"
        BY <3>3 DEF FiltersNext, Read, h
      <4>0. t \in Seq(Q) /\ \A k \in DOMAIN t : t[k] \in ToSet(Plan(intent, msg))
        BY <1>6, <3>0
      <4>2. /\ t \in Seq(Q) /\ DOMAIN t = 1..Len(t) /\ Len(t) \in Nat
            /\ \A k \in 1..Len(t) : t[k] \in ToSet(Plan(intent, msg))
        <5> HIDE DEF t
        <5> QED  BY <4>0
      <4> HIDE DEF f, t
      <4>3. /\ DOMAIN (<<f>> \o t) = 1..(1 + Len(t)) /\ (<<f>> \o t)[1] = f
            /\ \A i \in 2..(1 + Len(t)) : (<<f>> \o t)[i] = t[i - 1]
        BY <4>2
      <4>4. ASSUME NEW i \in 1..(1 + Len(t))
            PROVE  i = 1 \/ (i \in 2..(1 + Len(t)) /\ i - 1 \in 1..Len(t))
        BY <4>2
      <4> QED  BY <1>2, <4>1, <4>2, <4>3, <4>4
    <3>4. CASE DetailsNext(answer)
      <4>1. todo' = <<d>> /\ d.by = "details"
        BY <3>4 DEF DetailsNext, Read
      <4> HIDE DEF d
      <4>2. DOMAIN todo' = 1..1 /\ todo'[1] = d
        BY <4>1
      <4> QED  BY <4>1, <4>2
    <3> QED  BY <1>3, <3>1, <3>2, <3>3, <3>4 DEF SettlesIt, GivesUp
  <2>2. /\ outcome' \in Outcome
        /\ outcome' = "pending" <=> todo' # <<>>
    <3>1. CASE SettlesIt(answer) \/ GivesUp(answer)
      <4>1. todo' = <<>> /\ outcome' \in {"some", "none", "no match"} \cup Failure
        BY <3>1 DEF SettlesIt, GivesUp
      <4> QED  BY <4>1 DEF Outcome, Failure, Transient, Final
    <3>2. CASE GoesOn(answer)
      BY <1>1, <1>6, <3>2 DEF GoesOn, Outcome
    <3>3. CASE FiltersNext(answer)
      <4>1. (\E r : Due(r)') /\ outcome' = "pending"
        BY <1>1, <1>5, <3>3 DEF FiltersNext
      <4>2. ToSet(todo') # {}
        BY <4>1 DEF Due
      <4> QED  BY <4>1, <4>2 DEF Outcome, ToSet
    <3>4. CASE DetailsNext(answer)
      <4>1. Due(d)' /\ outcome' = "pending"
        BY <1>1, <1>5, <3>4 DEF DetailsNext
      <4>2. ToSet(todo') # {}
        BY <4>1 DEF Due
      <4> QED  BY <4>1, <4>2 DEF Outcome, ToSet
    <3> QED  BY <1>3, <3>1, <3>2, <3>3, <3>4
  <2>3. /\ left' \in 0..MaxRetries /\ requests' \in 0..(MaxRetries + 1)
        /\ outcome' = "pending" => requests' + left' = MaxRetries
    BY <1>2, BoundsAssumption
  <2>4. TypeOK'
    BY <1>1, <1>2, <2>1, <2>2, <2>3 DEF TypeOK
  <2> QED  BY <1>1, <1>2, <1>4, <1>5, <2>3, <2>4 DEF BaseInv
<1>10. OnceInv'
  <2>0. ~Asked(h) /\ (\A r : r.by = "details" => ~Asked(r))
    BY <1>1, <1>6 DEF OnceInv, Due
  <2>1. \A j, k \in DOMAIN answers' : answers'[j].read = answers'[k].read => j = k
    BY <1>1, <1>4, <2>0 DEF OnceInv
  <2>2. \A r : Due(r)' => ~Asked(r)'
    <3> SUFFICES ASSUME NEW r, Due(r)'  PROVE ~Asked(r) /\ r # h
      BY <1>4
    <3>1. CASE Due(r) /\ r # h
      BY <1>1, <3>1 DEF OnceInv, Due
    <3>2. CASE FiltersNext(answer) /\ r = Read("filter", h.of)
      <4>1. h = Read("lookup", h.of) /\ r # h
        BY <1>7, <3>2 DEF FiltersNext, Read, h
      <4> QED  BY <1>1, <2>0, <3>2, <4>1 DEF OnceInv
    <3>3. CASE DetailsNext(answer) /\ r = d
      <4>1. h.by # "details" /\ r.by = "details"
        BY <3>3 DEF DetailsNext, Read, h
      <4> QED  BY <2>0, <4>1
    <3> QED  BY <1>3, <1>5, <3>1, <3>2, <3>3
  <2>3. \A c : Asked(Read("filter", c))' \/ Due(Read("filter", c))' => Asked(Read("lookup", c))'
    <3> SUFFICES ASSUME NEW c, Asked(Read("filter", c))' \/ Due(Read("filter", c))'
                 PROVE  Asked(Read("lookup", c)) \/ Read("lookup", c) = h
      BY <1>4
    <3>1. CASE Asked(Read("filter", c)) \/ Due(Read("filter", c))
      BY <1>1, <3>1 DEF OnceInv
    <3>2. CASE FiltersNext(answer) /\ Read("filter", c) = Read("filter", h.of)
      BY <1>7, <3>2 DEF FiltersNext, Read, h
    <3>3. Read("filter", c) # d
      BY DEF Read
    <3> QED  BY <1>3, <1>4, <1>5, <1>6, <3>1, <3>2, <3>3
  <2>4. \A r : Due(r)' /\ r.by = "details" => Len(todo') = 1
    <3> SUFFICES ASSUME NEW r, Due(r)', r.by = "details"  PROVE Len(todo') = 1
      OBVIOUS
    <3>1. Read("filter", h.of).by = "filter"
      BY DEF Read
    <3> QED  BY <1>3, <1>5, <1>8, <3>1
  <2>5. \A r : r.by = "details" /\ Asked(r)' => todo' = <<>>
    <3> SUFFICES ASSUME NEW r, r.by = "details", Asked(r)'  PROVE todo' = <<>>
      OBVIOUS
    <3>1. h.by = "details"
      BY <1>4, <2>0
    <3> QED  BY <1>3, <3>1 DEF SettlesIt, GoesOn, GivesUp, FiltersNext, DetailsNext,
                               CameToNothing, h
  <2> QED  BY <1>5, <2>1, <2>2, <2>3, <2>4, <2>5 DEF OnceInv, Due
<1>11. ProgressInv'
  <2>1. ASSUME GoesOn(answer) \/ GivesUp(answer) \/ FiltersNext(answer)
        PROVE  Searching /\ h.by # "details"
    <3>1. h.by # "details"
      BY <2>1 DEF GoesOn, GivesUp, FiltersNext, CameToNothing, h
    <3>2. ~Due(d)
      BY <1>8, <3>1 DEF Read
    <3> QED  BY <1>1, <3>1, <3>2 DEF Searching
  <2>2. ASSUME Searching', NEW r \in ToSet(Plan(intent', msg'))
        PROVE  Due(r)' \/ Pursued(r)'
    <3>1. GoesOn(answer) \/ GivesUp(answer) \/ FiltersNext(answer)
      <4>1. ~SettlesIt(answer)
        BY <2>2 DEF Searching, SettlesIt, Failure, Transient, Final
      <4>2. ~DetailsNext(answer)
        BY <1>5, <2>2 DEF Searching
      <4> QED  BY <1>3, <4>1, <4>2
    <3>2. Due(r) \/ Pursued(r)
      BY <1>1, <1>2, <2>1, <2>2, <3>1 DEF ProgressInv
    <3>3. \A q : Due(q) /\ q # h => Due(q)'
      BY <1>5, <3>1
    <3>4. h.by = "filter" => answer = "none"
      BY <3>1 DEF GoesOn, GivesUp, FiltersNext, CameToNothing, h
    <3>5. CASE Due(r) /\ r # h
      BY <3>3, <3>5
    <3>6. CASE r = h
      <4>1. CASE CameToNothing(answer)
        BY <1>4, <3>6, <4>1 DEF CameToNothing, Pursued, h
      <4>2. CASE FiltersNext(answer)
        <5>1. r.by = "lookup" /\ Due(Read("filter", r.of))'
          BY <1>5, <3>6, <4>2 DEF FiltersNext, h
        <5> QED  BY <5>1 DEF Pursued
      <4> QED  BY <3>1, <4>1, <4>2 DEF GoesOn, GivesUp
    <3>7. CASE Pursued(r)
      <4>1. \A q, R : Came(q, R) => Came(q, R)'
        BY <1>4
      <4>2. ASSUME r.by = "lookup", Due(Read("filter", r.of))
            PROVE  Due(Read("filter", r.of))' \/ Came(Read("filter", r.of), {"none"})'
        <5>1. CASE Read("filter", r.of) = h
          <6>1. h.by = "filter"
            BY <5>1 DEF Read
          <6> QED  BY <1>4, <3>4, <5>1, <6>1
        <5>2. CASE Read("filter", r.of) # h
          BY <3>3, <4>2, <5>2
        <5> QED  BY <5>1, <5>2
      <4> QED  BY <3>7, <4>1, <4>2 DEF Pursued
    <3> QED  BY <3>2, <3>5, <3>6, <3>7
  <2>3. ASSUME outcome' \in {"none", "no match"}
        PROVE  ~(intent' = "product_details" /\ msg'.id # "none")
    <3>1. GivesUp(answer)
      BY <1>1, <1>3, <2>3 DEF SettlesIt, GoesOn, FiltersNext, DetailsNext, Failure,
                              Transient, Final
    <3> QED  BY <1>2, <1>7, <2>1, <3>1
  <2> QED  BY <2>2, <2>3 DEF ProgressInv
<1>12. ToldInv'
  <2>1. CASE SettlesIt(answer)
    <3>1. /\ outcome' = answer /\ answer \in {"some"} \cup Failure /\ h.by # "lookup"
      BY <2>1 DEF SettlesIt, h
    <3>2. outcome' # "raised" /\ requests' = n
      BY <1>2, <3>1 DEF Failure, Transient, Final
    <3> QED  BY <1>4, <3>1, <3>2 DEF ToldInv
  <2>2. CASE ~SettlesIt(answer)
    <3>1. outcome' \in {"pending", "none", "no match"}
      BY <1>1, <1>3, <2>2 DEF GoesOn, GivesUp, FiltersNext, DetailsNext
    <3> QED  BY <3>1 DEF ToldInv, Failure, Transient, Final
  <2> QED  BY <2>1, <2>2
<1> QED  BY <1>9, <1>10, <1>11, <1>12 DEF Inv

\* Every step of a turn keeps what it has asked and has still to ask in order.
LEMMA NextKeeps == Inv /\ [Next]_vars => Inv'
<1> SUFFICES ASSUME Inv, [Next]_vars  PROVE Inv'
  OBVIOUS
<1>1. ASSUME NEW english \in SUBSET Intent, NEW spanish \in SUBSET Intent,
             Begin(english, spanish)
      PROVE  Inv'
  BY <1>1, BeginKeeps
<1>2. ASSUME Refuse  PROVE Inv'
  BY <1>2, RefuseKeeps
<1>3. ASSUME NEW answer \in {"some", "none"}, CacheHit(answer)  PROVE Inv'
  <2>1. answer \in Answer /\ answer \notin Transient \ Final
    BY DEF Answer, Transient, Final
  <2>2. todo # <<>> /\ Ends(answer, 0) /\ 0 \in 0..(MaxRetries + 1)
    BY <1>3, BoundsAssumption DEF CacheHit, Reading
  <2> QED  BY <2>1, <2>2, EndsKeeps
<1>4. ASSUME NEW answer \in {"some", "none"} \cup Failure, Request(answer)  PROVE Inv'
  <2>1. todo # <<>> /\ Ends(answer, requests + 1) /\ (answer \in Transient \ Final => left = 0)
    BY <1>4 DEF Request, Reading
  <2>2. /\ left \in 0..MaxRetries /\ requests \in 0..(MaxRetries + 1)
        /\ requests + left = MaxRetries
    BY <2>1 DEF Inv, BaseInv, TypeOK
  <2>3. /\ requests + 1 \in 0..(MaxRetries + 1)
        /\ answer \in Transient \ Final => requests + 1 = MaxRetries + 1
    BY <2>1, <2>2, BoundsAssumption
  <2> QED  BY <2>1, <2>3, EndsKeeps DEF Answer
<1>5. ASSUME Retry  PROVE Inv'
  BY <1>5, RetryKeeps
<1>6. ASSUME UNCHANGED vars  PROVE Inv'
  <2>1. /\ msg' = msg /\ intent' = intent /\ todo' = todo /\ left' = left
        /\ outcome' = outcome /\ answers' = answers /\ requests' = requests
    BY <1>6 DEF vars
  <2>2. BaseInv'
    BY <2>1 DEF Inv, BaseInv, TypeOK
  <2>3. OnceInv'
    BY <2>1 DEF Inv, OnceInv, Asked, Due
  <2>4. ProgressInv'
    BY <2>1 DEF Inv, ProgressInv, Searching, Pursued, Due, Came
  <2>5. ToldInv'
    BY <2>1 DEF Inv, ToldInv
  <2> QED  BY <2>2, <2>3, <2>4, <2>5 DEF Inv
<1> QED  BY <1>1, <1>2, <1>3, <1>4, <1>5, <1>6 DEF Next

\* So they are in order throughout.
LEMMA InvHolds == Spec => []Inv
<1> QED  BY InitInv, NextKeeps, PTL DEF Spec

-----------------------------------------------------------------------------
(***************************************************************************)
(* What the invariant promises.                                            *)
(***************************************************************************)

\* A turn that found nothing asked everything that the message suggests.
LEMMA InvExhausts ==
    ASSUME Inv, outcome \in {"none", "no match"},
           intent \in {"product_search", "product_details", "inventory_check"}
    PROVE  Exhausted
<1> DEFINE by == IF intent # "inventory_check" THEN "search" ELSE "check"
           words == IF intent # "inventory_check"
                    THEN [i \in DOMAIN msg.words |-> Canon[msg.words[i]]] ELSE msg.words
           P == ToSet(Plan(intent, msg))
<1>1. /\ msg \in Message /\ intent # None /\ todo = <<>>
      /\ ~(intent = "product_details" /\ msg.id # "none")
  BY DEF Inv, BaseInv, TypeOK, ProgressInv
<1>2. \A r : ~Due(r)
  <2>1. DOMAIN todo = {}
    <3>1. todo = <<>>
      BY <1>1
    <3> QED  BY ONLY <3>1
  <2> QED  BY <2>1 DEF Due, ToSet
<1>3. \A r \in P : Pursued(r)
  BY <1>1, <1>2 DEF Inv, ProgressInv, Searching
<1>4. /\ Read(by, Raw(msg)) \in P
      /\ words # <<>> => Read(by, [words |-> words, framed |-> FALSE]) \in P
      /\ \A w \in Notable(words) : Read(by, Phrase(w)) \in P
      /\ intent # "inventory_check" => \A w \in {v \in Notable(words) : CategoryOf[v] # None} :
            Read("lookup", CategoryOf[w]) \in P
  BY <1>1, PlanReaches
<1>5. by \in {"search", "check"}
  OBVIOUS
<1> HIDE DEF by, words, P
<1>6. \A x : Read(by, x) \in P => Answered(by, x, {"none"})
  <2>1. \A x : Read(by, x).by # "lookup"
    BY <1>5 DEF Read
  <2> QED  BY <1>3, <2>1 DEF Pursued, Came, Answered
<1>7. \A c : Read("lookup", c) \in P => \/ Answered("filter", c, {"none"})
                                        \/ Answered("lookup", c, {"none"} \cup Failure)
  <2> SUFFICES ASSUME NEW c, Read("lookup", c) \in P
               PROVE  \/ Answered("filter", c, {"none"})
                      \/ Answered("lookup", c, {"none"} \cup Failure)
    OBVIOUS
  <2>1. Read("lookup", c).of = c /\ Pursued(Read("lookup", c))
    BY <1>3 DEF Read
  <2>2. \/ Came(Read("lookup", c), {"none"}) \/ Came(Read("lookup", c), Failure)
        \/ Came(Read("filter", c), {"none"})
    BY <1>2, <2>1 DEF Pursued
  <2> QED  BY <2>2 DEF Came, Answered
<1> QED  BY <1>4, <1>6, <1>7 DEF Exhausted, by, words

\* What a turn tells is what the last read came to, or that all of them came to
\* nothing.
LEMMA InvIsHonest == Inv => HonestAnswer
  BY InvExhausts DEF Inv, ToldInv, HonestAnswer

\* Different things that are all in a sequence are no more than it is long.
LEMMA NoMoreThan ==
    ASSUME NEW S, NEW t \in Seq(S), NEW A, NEW f,
           \A k \in A : f[k] \in ToSet(t),
           \A j, k \in A : f[j] = f[k] => j = k
    PROVE  IsFiniteSet(A) /\ Cardinality(A) <= Len(t)
<1> DEFINE n == Len(t)
           g == [k \in A |-> CHOOSE i \in 1..n : t[i] = f[k]]
<1>1. n \in Nat /\ DOMAIN t = 1..n
  OBVIOUS
<1>2. \A k \in A : g[k] \in 1..n /\ t[g[k]] = f[k]
  BY <1>1 DEF ToSet
<1> HIDE DEF n
<1>3. g \in [A -> 1..n]
  BY <1>2
<1>4. DOMAIN g = A
  OBVIOUS
<1> HIDE DEF g
<1>5. \A j, k \in A : g[j] = g[k] => j = k
  BY <1>2
<1>6. g \in Injection(A, 1..n)
  BY <1>3, <1>4, <1>5 DEF Injection, IsInjective
<1>7. IsFiniteSet(1..n) /\ Cardinality(1..n) = n
  BY <1>1, FS_Interval
<1> QED  BY <1>6, <1>7, FS_Injection DEF n

\* The questions of a turn are nine at most.
LEMMA InvIsBounded == Inv => LadderBounded
<1> SUFFICES ASSUME Inv  PROVE LadderBounded
  OBVIOUS
<1> DEFINE S == Searches(intent, msg)
           C == Categories(intent, msg)
           Q == Questions(intent, msg)
           Made(bys) == {i \in DOMAIN answers : answers[i].read.by \in bys}
<1>1. /\ msg \in Message /\ requests \in 0..(MaxRetries + 1)
      /\ answers \in Seq([read : Q, answer : Answer])
      /\ \A i, j \in DOMAIN answers : answers[i].read = answers[j].read => i = j
  BY DEF Inv, BaseInv, TypeOK, OnceInv
<1>2. /\ Len(answers) \in Nat /\ DOMAIN answers = 1..Len(answers)
      /\ \A i \in DOMAIN answers : answers[i].read \in Q
  <2> DEFINE E == [read : Q, answer : Answer]
  <2>1. \A x \in E : x.read \in Q
    OBVIOUS
  <2> HIDE DEF E, Q
  <2>2. answers \in Seq(E)
    BY <1>1 DEF E
  <2>3. Len(answers) \in Nat /\ DOMAIN answers = 1..Len(answers)
        /\ \A i \in DOMAIN answers : answers[i] \in E
    BY <2>2
  <2> QED  BY <2>1, <2>3
<1>3. /\ S \in Seq(Search) /\ Len(S) \in 0..4
      /\ C \in Seq(Category) /\ Len(C) \in 0..2
  BY <1>1, SearchesAre
<1>4. \A r \in Q : /\ r = Read(r.by, r.of)
                   /\ r.by \in {"search", "check"} => r \in ToSet(S)
                   /\ r.by \in {"lookup", "filter"} => r.of \in ToSet(C)
  BY <1>1, QuestionIs
<1> HIDE DEF S, C, Q
<1>5. Cardinality(Made({"search", "check"})) <= 4
  <2> DEFINE A == Made({"search", "check"})
             f == [i \in DOMAIN answers |-> answers[i].read]
  <2>1. \A k \in A : f[k] \in ToSet(S)
    BY <1>2, <1>4
  <2>2. \A j, k \in A : f[j] = f[k] => j = k
    BY <1>1
  <2> HIDE DEF A, f
  <2>3. Cardinality(A) <= Len(S) /\ IsFiniteSet(A)
    BY <1>3, <2>1, <2>2, NoMoreThan
  <2>4. Cardinality(A) \in Nat
    BY <2>3, FS_CardinalityType
  <2>5. Cardinality(A) <= 4
    <3> DEFINE c == Cardinality(A)  l == Len(S)
    <3>1. c \in Nat /\ l \in 0..4 /\ c <= l
      BY <1>3, <2>3, <2>4
    <3> HIDE DEF c, l
    <3>2. c <= 4
      BY <3>1
    <3> QED  BY <3>2 DEF c
  <2> QED  BY <2>5 DEF A
<1>6. Cardinality(Made({"lookup"})) <= 2
  <2> DEFINE A == Made({"lookup"})
             f == [i \in DOMAIN answers |-> answers[i].read.of]
  <2>1. \A k \in A : f[k] \in ToSet(C)
    BY <1>2, <1>4
  <2>2. \A j, k \in A : f[j] = f[k] => j = k
    <3>1. \A k \in A : answers[k].read = Read("lookup", f[k])
      BY <1>2, <1>4
    <3>2. \A k \in A : k \in DOMAIN answers
      OBVIOUS
    <3> HIDE DEF A, f
    <3> QED  BY <1>1, <3>1, <3>2
  <2> HIDE DEF A, f
  <2>3. Cardinality(A) <= Len(C) /\ IsFiniteSet(A)
    BY <1>3, <2>1, <2>2, NoMoreThan
  <2>4. Cardinality(A) \in Nat
    BY <2>3, FS_CardinalityType
  <2>5. Cardinality(A) <= 2
    <3> DEFINE c == Cardinality(A)  l == Len(C)
    <3>1. c \in Nat /\ l \in 0..2 /\ c <= l
      BY <1>3, <2>3, <2>4
    <3> HIDE DEF c, l
    <3>2. c <= 2
      BY <3>1
    <3> QED  BY <3>2 DEF c
  <2> QED  BY <2>5 DEF A
<1>7. Len(answers) <= 9
  <2> DEFINE A == DOMAIN answers
             f == [i \in DOMAIN answers |-> answers[i].read]
             T == ToSet(S) \cup Q
             l == Reads("lookup", C)
             e == Reads("filter", C)
             o == <<Other(intent, msg)>>
             R == [by : {"lookup", "filter"}, of : Category] \cup T
  <2>1. /\ S \in Seq(R) /\ l \in Seq(R) /\ e \in Seq(R) /\ o \in Seq(R)
        /\ Len(l) = Len(C) /\ Len(e) = Len(C) /\ Len(o) = 1
        /\ ToSet(l) = {Read("lookup", c) : c \in ToSet(C)}
        /\ ToSet(e) = {Read("filter", c) : c \in ToSet(C)}
        /\ ToSet(o) = {Other(intent, msg)}
    <3>1. S \in Seq(R)
      <4>1. Len(S) \in Nat /\ DOMAIN S = 1..Len(S) /\ S \in [1..Len(S) -> Search]
        BY <1>3
      <4>2. \A k \in 1..Len(S) : S[k] \in R
        BY <4>1 DEF ToSet
      <4>3. S \in [1..Len(S) -> R]
        BY <4>1, <4>2
      <4> QED  BY <4>1, <4>3, SeqDef
    <3>2. \A c \in Category : Read("lookup", c) \in R /\ Read("filter", c) \in R
      BY DEF Read
    <3>3. Other(intent, msg) \in R
      BY DEF Q, Questions
    <3> HIDE DEF R
    <3> QED  BY <1>3, <3>1, <3>2, <3>3, ReadsAre, OneIsDistinct
  <2>2. Q = ((ToSet(S) \cup ToSet(l)) \cup ToSet(e)) \cup ToSet(o)
    BY <2>1 DEF Q, Questions, S, C
  <2> HIDE DEF l, e, o, R
  <2> DEFINE sl == S \o l
             sle == sl \o e
             all == sle \o o
  <2>3. sl \in Seq(R) /\ Len(sl) = Len(S) + Len(l) /\ ToSet(sl) = ToSet(S) \cup ToSet(l)
    BY ONLY <2>1, ConcatDistinct
  <2> HIDE DEF sl
  <2>4. sle \in Seq(R) /\ Len(sle) = Len(sl) + Len(e) /\ ToSet(sle) = ToSet(sl) \cup ToSet(e)
    <3>1. sl \in Seq(R) /\ e \in Seq(R)
      BY <2>1, <2>3
    <3> QED  BY ONLY <3>1, ConcatDistinct
  <2> HIDE DEF sle
  <2>5. all \in Seq(R) /\ Len(all) = Len(sle) + Len(o) /\ ToSet(all) = ToSet(sle) \cup ToSet(o)
    <3>1. sle \in Seq(R) /\ o \in Seq(R)
      BY <2>1, <2>4
    <3> QED  BY ONLY <3>1, ConcatDistinct
  <2> HIDE DEF all
  <2>6. ToSet(all) = Q
    BY <2>2, <2>3, <2>4, <2>5
  <2>7. \A k \in A : f[k] \in ToSet(all)
    BY <1>2, <2>6
  <2>8. \A j, k \in A : f[j] = f[k] => j = k
    BY <1>1
  <2> HIDE DEF A, f
  <2>9. Cardinality(A) <= Len(all)
    BY <2>5, <2>7, <2>8, NoMoreThan
  <2>10. Len(all) <= 9
    <3> DEFINE a == Len(all)  s == Len(S)  c == Len(C)
    <3>1. a = ((s + c) + c) + 1 /\ s \in 0..4 /\ c \in 0..2
      BY <1>3, <2>1, <2>3, <2>4, <2>5
    <3> HIDE DEF a, s, c
    <3>2. a <= 9
      BY <3>1
    <3> QED  BY <3>2 DEF a
  <2>11. Cardinality(A) = Len(answers)
    BY <1>2, FS_Interval DEF A
  <2>12. Len(all) \in Nat
    BY <2>5
  <2> QED  BY <1>2, <2>9, <2>10, <2>11, <2>12
<1>8. \A i, j \in DOMAIN answers :
          answers[i].read = answers[j].read /\ answers[i].read.by # "lookup" => i = j
  BY <1>1
<1>9. requests <= MaxRetries + 1
  BY <1>1, BoundsAssumption
<1> HIDE DEF Made
<1> QED  BY <1>5, <1>6, <1>7, <1>8, <1>9 DEF LadderBounded, Made

\* Types are kept: in particular, what a turn has still to read is what its
\* intent planned, or what a category or a name led to.
THEOREM TypeCorrect == Spec => []TypeOK
<1>1. Inv => TypeOK
  BY DEF Inv, BaseInv
<1> QED  BY <1>1, InvHolds, PTL

\* What the composer is told of the catalogue is what Inventra said, whatever the
\* words, the tables and the cache: "nothing found" only when every search that
\* the message suggests was made and came back empty (gather.py:313-367, 437-446).
THEOREM AnswersAreHonest == Spec => []HonestAnswer
<1> QED  BY InvIsHonest, InvHolds, PTL

\* The searches, lookups, questions and requests of a turn stay within the ladder's
\* limits, however long the message, and none is repeated but the reading of the list
\* of categories, once per lookup (gather.py:192-215, :230, client.py:284-310).
THEOREM LadderStaysBounded == Spec => []LadderBounded
<1> QED  BY InvIsBounded, InvHolds, PTL

==============================================================================
