------------------------- MODULE MessageBase_proofs -------------------------
(***************************************************************************)
(* Proofs about MessageBase, for any number of nodes, posts, deletes and   *)
(* crashes, any size of the area and of the .dat file: as long as none of  *)
(* the exceptional events has happened, the types are right, no post is    *)
(* lost or listed twice, every post has its text, every block is accounted *)
(* for, and a reader that replies comes back to the post it has read.      *)
(***************************************************************************)
EXTENDS MessageBase, NatInduction, FiniteSetTheorems, TLAPS

-----------------------------------------------------------------------------
(* Sets of numbers.                                                        *)

\* The least and the greatest of a set of naturals.
LEMMA MinIn ==
  ASSUME NEW S, S \subseteq Nat, S # {}
  PROVE  Min(S) \in S /\ \A y \in S : Min(S) <= y
<1>1. PICK n \in S : \A m \in S : n <= m
  BY Least
<1> QED BY <1>1 DEF Min

LEMMA MaxIn ==
  ASSUME NEW n \in Nat, NEW S, S \subseteq 0..n, S # {}
  PROVE  Max(S) \in S /\ \A y \in S : y <= Max(S)
<1>1. PICK T : T = {n - x : x \in S}
  OBVIOUS
<1>2. T \subseteq Nat /\ T # {}
  <2>1. \A x \in S : n - x \in Nat
    OBVIOUS
  <2> QED BY <1>1, <2>1
<1>3. PICK m \in T : \A t \in T : m <= t
  BY <1>2, Least
<1>4. PICK x \in S : m = n - x
  BY <1>1, <1>3
<1>5. ASSUME NEW y \in S PROVE y <= x
  <2>1. n - y \in T
    BY <1>1
  <2>2. n - x <= n - y
    BY <1>3, <1>4, <2>1
  <2>3. x \in 0..n /\ y \in 0..n
    OBVIOUS
  <2> QED BY <2>2, <2>3
<1>6. \A y \in S : x >= y
  BY <1>5
<1>7. Max(S) \in S /\ \A y \in S : Max(S) >= y
  BY <1>6 DEF Max
<1> QED BY <1>7

\* The elements of S below b, and the first k elements of S.
Below(S, b) == {c \in S : c < b}
First(S, k) == {b \in S : Cardinality(Below(S, b)) < k}

\* There are k of them, if S is large enough.
LEMMA FirstSize ==
  ASSUME NEW S, S \subseteq Nat, IsFiniteSet(S), NEW k \in Nat, k <= Cardinality(S)
  PROVE  Cardinality(First(S, k)) = k
<1> DEFINE Good == {n \in Nat : n <= Cardinality(S) => Cardinality(First(S, n)) = n}
<1>1. \A b \in S : IsFiniteSet(Below(S, b)) /\ Cardinality(Below(S, b)) \in Nat
  BY FS_Subset, FS_CardinalityType DEF Below
<1>2. 0 \in Good
  <2>1. First(S, 0) = {}
    <3>1. \A b \in S : ~(Cardinality(Below(S, b)) < 0)
      BY <1>1
    <3> QED BY <3>1 DEF First
  <2> QED BY <2>1, FS_EmptySet
<1>3. ASSUME NEW n \in Nat, n \in Good PROVE n + 1 \in Good
  <2> SUFFICES ASSUME n + 1 <= Cardinality(S) PROVE Cardinality(First(S, n + 1)) = n + 1
    OBVIOUS
  <2>1. PICK F : F = First(S, n)
    OBVIOUS
  <2>2. Cardinality(S) \in Nat
    BY FS_CardinalityType
  <2>3. Cardinality(F) = n /\ F \subseteq S /\ IsFiniteSet(F)
    <3>1. n <= Cardinality(S)
      BY <2>2
    <3>2. F \subseteq S
      BY <2>1 DEF First
    <3> QED BY <1>3, <2>1, <3>1, <3>2, FS_Subset
  <2>4. S \ F # {}
    <3>1. F # S
      BY <2>2, <2>3
    <3> QED BY <2>3, <3>1
  <2>5. PICK m \in S \ F : \A x \in S \ F : m <= x
    <3>1. S \ F \subseteq Nat
      OBVIOUS
    <3> QED BY <2>4, <3>1, Least
  <2>6. Below(S, m) = F
    <3>1. ASSUME NEW c \in S, c < m PROVE c \in F
      BY <2>5, <3>1
    <3>2. ASSUME NEW c \in F PROVE c < m
      <4>1. SUFFICES ASSUME ~(c < m) PROVE FALSE
        OBVIOUS
      <4>2. c \in S /\ c # m /\ c \in Nat /\ m \in Nat
        BY <2>3, <2>5
      <4>3. m < c
        BY <4>1, <4>2
      <4>4. Below(S, m) \subseteq Below(S, c)
        <5>1. ASSUME NEW x \in S, x < m PROVE x < c
          <6>1. x \in Nat
            OBVIOUS
          <6> QED BY <4>2, <4>3, <5>1, <6>1
        <5> QED BY <5>1 DEF Below
      <4>5. Cardinality(Below(S, m)) <= Cardinality(Below(S, c))
        BY <1>1, <4>2, <4>4, FS_Subset
      <4>6. Cardinality(Below(S, c)) < n
        BY <2>1, <3>2 DEF First
      <4>7. Cardinality(Below(S, m)) < n
        BY <1>1, <2>5, <4>2, <4>5, <4>6
      <4> QED BY <2>1, <2>5, <4>7 DEF First
    <3> QED BY <2>3, <3>1, <3>2 DEF Below
  <2>7. First(S, n + 1) = F \cup {m}
    <3>1. m \in First(S, n + 1)
      BY <2>3, <2>5, <2>6 DEF First
    <3>2. F \subseteq First(S, n + 1)
      <4>1. \A b \in S : Cardinality(Below(S, b)) < n => Cardinality(Below(S, b)) < n + 1
        BY <1>1
      <4> QED BY <2>1, <4>1 DEF First
    <3>3. ASSUME NEW x \in First(S, n + 1), x \notin F, x # m PROVE FALSE
      <4>1. x \in S /\ x \in Nat /\ m \in Nat /\ m < x
        <5>1. x \in S /\ x \in Nat /\ m \in Nat
          BY <3>3 DEF First
        <5>2. m <= x
          BY <2>5, <3>3, <5>1
        <5> QED BY <3>3, <5>1, <5>2
      <4>2. F \cup {m} \subseteq Below(S, x)
        <5>1. ASSUME NEW c \in F PROVE c \in S /\ c < x
          <6>1. c \in S /\ c < m
            BY <2>6 DEF Below
          <6>2. c \in Nat
            BY <6>1
          <6> QED BY <4>1, <6>1, <6>2
        <5> QED BY <2>5, <4>1, <5>1 DEF Below
      <4>3. Cardinality(F \cup {m}) = n + 1 /\ IsFiniteSet(F \cup {m})
        BY <2>3, <2>5, FS_AddElement
      <4>4. n + 1 <= Cardinality(Below(S, x))
        BY <1>1, <4>1, <4>2, <4>3, FS_Subset
      <4>5. Cardinality(Below(S, x)) < n + 1
        BY <3>3 DEF First
      <4> QED BY <1>1, <4>1, <4>4, <4>5
    <3> QED BY <3>1, <3>2, <3>3
  <2> QED BY <2>3, <2>5, <2>7, FS_AddElement
<1> HIDE DEF Good
<1>4. k \in Good
  BY <1>2, <1>3, Induct
<1> QED BY <1>4 DEF Good

-----------------------------------------------------------------------------
(* The GAT.                                                                *)

Rec == [id : 0..MaxPosts, qscan : 0..MaxPosts, link : 0..Blocks, size : 0..Blocks]
Dat == [gat : [1..Blocks -> 0..End], text : [1..Blocks -> 0..MaxPosts], there : BOOLEAN]

\* The blocks in use, and those that hold the text of post id.
Used(d) == {b \in 1..Blocks : d.gat[b] # 0}
TextOf(d, id) == {b \in Used(d) : d.text[b] = id}

\* A file that is not there has no texts.
Absent(d) == ~d.there => Used(d) = {}

\* A chain goes upwards and stays in one text: savefile takes free blocks in
\* ascending order.
Linked(d) ==
  \A b \in Used(d) : d.gat[b] > b /\ (d.gat[b] # End => d.gat[b] \in TextOf(d, d.text[b]))

\* The text of post p is whole: it starts at the post's link, has its size,
\* and every other block of it is the next one of some block of it.
HasText(d, p) ==
  /\ p.link \in TextOf(d, p.id)
  /\ Cardinality(TextOf(d, p.id)) = p.size
  /\ \A b \in TextOf(d, p.id) \ {p.link} : \E c \in TextOf(d, p.id) : d.gat[c] = b

\* What Chain computes: f[k] are the blocks reached in k steps.
Reach(f, d, link) ==
  /\ f[0] = {link} \cap 1..Blocks
  /\ \A k \in 1..Blocks :
       f[k] = f[k - 1] \cup ({d.gat[b] : b \in f[k - 1]} \cap 1..Blocks)
  /\ Chain(d, link) = f[Blocks]

LEMMA ChainFrom ==
  ASSUME NEW d, NEW link
  PROVE  \E f : Reach(f, d, link)
<1> DEFINE Step(s) == s \cup ({d.gat[b] : b \in s} \cap 1..Blocks)
           Start == {link} \cap 1..Blocks
           Is(f, m) == f = [k \in 0..m |-> IF k = 0 THEN Start ELSE Step(f[k - 1])]
           S == {m \in Nat : \E f : Is(f, m)}
<1>1. 0 \in S
  <2> HIDE DEF Step, Start
  <2>1. Is([k \in 0..0 |-> Start], 0)
    OBVIOUS
  <2> QED BY <2>1
<1>2. ASSUME NEW m \in Nat, m \in S PROVE m + 1 \in S
  <2> HIDE DEF Step, Start
  <2>1. PICK f : Is(f, m)
    BY <1>2
  <2>2. PICK g : g = [k \in 0..m + 1 |-> IF k = m + 1 THEN Step(f[m]) ELSE f[k]]
    OBVIOUS
  <2>3. ASSUME NEW k \in 0..m + 1 PROVE g[k] = IF k = 0 THEN Start ELSE Step(g[k - 1])
    <3>1. CASE k = m + 1
      <4>1. g[k] = Step(f[m]) /\ k - 1 = m /\ k # 0 /\ m \in 0..m + 1 /\ m # m + 1
        BY <2>2, <3>1
      <4>2. g[m] = f[m]
        BY <2>2, <4>1
      <4> QED BY <4>1, <4>2
    <3>2. CASE k # m + 1
      <4>1. k \in 0..m /\ (k # 0 => k - 1 \in 0..m /\ k - 1 \in 0..m + 1 /\ k - 1 # m + 1)
        BY <3>2
      <4>2. g[k] = f[k] /\ (k # 0 => g[k - 1] = f[k - 1])
        BY <2>2, <3>2, <4>1
      <4>3. f[k] = IF k = 0 THEN Start ELSE Step(f[k - 1])
        BY <2>1, <4>1
      <4> QED BY <4>2, <4>3
    <3> QED BY <3>1, <3>2
  <2>4. Is(g, m + 1)
    BY <2>2, <2>3
  <2> QED BY <2>4
<1>3. Blocks \in S
  <2> HIDE DEF S
  <2> QED BY <1>1, <1>2, Induct, SizesAssumption
<1> DEFINE from == CHOOSE f : Is(f, Blocks)
<1>4. Is(from, Blocks)
  <2>1. \E f : Is(f, Blocks)
    BY <1>3
  <2> HIDE DEF Is
  <2> QED BY <2>1
<1>5. Chain(d, link) = from[Blocks]
  BY DEF Chain
<1> HIDE DEF from, Step, Start
<1>6. from[0] = Start /\ \A k \in 1..Blocks : from[k] = Step(from[k - 1])
  <2>1. 0 \in 0..Blocks /\ \A k \in 1..Blocks : k \in 0..Blocks /\ k # 0
    BY SizesAssumption
  <2> QED BY <1>4, <2>1
<1>7. Reach(from, d, link)
  BY <1>5, <1>6 DEF Reach, Step, Start
<1> QED BY <1>7

\* No text starts at 0.
LEMMA ChainNone ==
  ASSUME NEW d
  PROVE  Chain(d, 0) = {}
<1>1. PICK f : Reach(f, d, 0)
  BY ChainFrom
<1> DEFINE S == {k \in Nat : k <= Blocks => f[k] = {}}
<1>2. 0 \in S
  BY <1>1 DEF Reach
<1>3. ASSUME NEW k \in Nat, k \in S PROVE k + 1 \in S
  <2> SUFFICES ASSUME k + 1 <= Blocks PROVE f[k + 1] = {}
    OBVIOUS
  <2>1. k + 1 \in 1..Blocks /\ (k + 1) - 1 = k /\ k <= Blocks
    BY SizesAssumption
  <2>2. f[k] = {}
    BY <1>3, <2>1
  <2>3. f[k + 1] = f[k] \cup ({d.gat[b] : b \in f[k]} \cap 1..Blocks)
    BY <1>1, <2>1 DEF Reach
  <2> QED BY <2>2, <2>3
<1> HIDE DEF S
<1>4. Blocks \in S
  BY <1>2, <1>3, Induct, SizesAssumption
<1> QED BY <1>1, <1>4, SizesAssumption DEF S, Reach

\* A chain stays in the file.
LEMMA ChainType ==
  ASSUME NEW d, NEW link
  PROVE  Chain(d, link) \subseteq 1..Blocks
<1>1. PICK f : Reach(f, d, link)
  BY ChainFrom
<1> DEFINE S == {k \in Nat : k <= Blocks => f[k] \subseteq 1..Blocks}
<1>2. 0 \in S
  BY <1>1 DEF Reach
<1>3. ASSUME NEW k \in Nat, k \in S PROVE k + 1 \in S
  <2> SUFFICES ASSUME k + 1 <= Blocks PROVE f[k + 1] \subseteq 1..Blocks
    OBVIOUS
  <2>1. k + 1 \in 1..Blocks /\ (k + 1) - 1 = k /\ k <= Blocks
    BY SizesAssumption
  <2>2. f[k] \subseteq 1..Blocks
    BY <1>3, <2>1
  <2>3. f[k + 1] = f[k] \cup ({d.gat[b] : b \in f[k]} \cap 1..Blocks)
    BY <1>1, <2>1 DEF Reach
  <2> QED BY <2>2, <2>3
<1> HIDE DEF S
<1>4. Blocks \in S
  BY <1>2, <1>3, Induct, SizesAssumption
<1> QED BY <1>1, <1>4, SizesAssumption DEF S, Reach

\* The chain of a whole text is the text.
LEMMA ChainIs ==
  ASSUME NEW d \in Dat, Linked(d), NEW p, HasText(d, p)
  PROVE  Chain(d, p.link) = TextOf(d, p.id)
<1>1. PICK f : Reach(f, d, p.link)
  BY ChainFrom
<1>2. PICK T : T = TextOf(d, p.id)
  OBVIOUS
<1>3. T \subseteq 1..Blocks /\ p.link \in T
  BY <1>2 DEF TextOf, Used, HasText
<1>4. \A b \in T : d.gat[b] > b /\ d.gat[b] \in 1..End /\ (d.gat[b] # End => d.gat[b] \in T)
  <2>1. \A b \in T : d.gat[b] > b /\ (d.gat[b] # End => d.gat[b] \in T)
    BY <1>2 DEF Linked, TextOf
  <2>2. \A b \in T : b \in 1..Blocks /\ d.gat[b] \in 0..End
    BY <1>3 DEF Dat
  <2>3. \A b \in T : d.gat[b] \in 1..End
    BY <2>1, <2>2, SizesAssumption DEF End
  <2> QED BY <2>1, <2>3
<1>5. \A b \in T \ {p.link} : \E c \in T : d.gat[c] = b
  BY <1>2 DEF HasText
<1> DEFINE S == {k \in Nat : k <= Blocks =>
                   f[k] \subseteq T /\ p.link \in f[k] /\ \A b \in T : b <= k => b \in f[k]}
<1>6. 0 \in S
  <2>1. f[0] = {p.link}
    BY <1>1, <1>3 DEF Reach
  <2> QED BY <1>3, <2>1
<1>7. ASSUME NEW k \in Nat, k \in S PROVE k + 1 \in S
  <2> SUFFICES ASSUME k + 1 <= Blocks
               PROVE  /\ f[k + 1] \subseteq T /\ p.link \in f[k + 1]
                      /\ \A b \in T : b <= k + 1 => b \in f[k + 1]
    OBVIOUS
  <2>1. k + 1 \in 1..Blocks /\ (k + 1) - 1 = k /\ k <= Blocks
    BY SizesAssumption
  <2>2. f[k] \subseteq T /\ p.link \in f[k] /\ \A b \in T : b <= k => b \in f[k]
    BY <1>7, <2>1
  <2>3. f[k + 1] = f[k] \cup ({d.gat[b] : b \in f[k]} \cap 1..Blocks)
    BY <1>1, <2>1 DEF Reach
  <2>4. f[k + 1] \subseteq T
    <3>1. ASSUME NEW b \in f[k], d.gat[b] \in 1..Blocks PROVE d.gat[b] \in T
      <4>1. b \in T /\ d.gat[b] # End
        BY <2>2, <3>1, SizesAssumption DEF End
      <4> QED BY <1>4, <4>1
    <3> QED BY <2>2, <2>3, <3>1
  <2>5. ASSUME NEW b \in T, b <= k + 1 PROVE b \in f[k + 1]
    <3>1. CASE b = p.link
      BY <2>2, <2>3, <3>1
    <3>2. CASE b # p.link
      <4>1. PICK c \in T : d.gat[c] = b
        BY <1>5, <3>2
      <4>2. b \in 1..Blocks /\ c \in 1..Blocks /\ c < b
        BY <1>3, <1>4, <4>1
      <4>3. c <= k
        BY <2>5, <4>2
      <4>4. c \in f[k]
        BY <2>2, <4>3
      <4> QED BY <2>3, <4>1, <4>2, <4>4
    <3> QED BY <3>1, <3>2
  <2> QED BY <2>2, <2>3, <2>4, <2>5
<1> HIDE DEF S
<1>8. Blocks \in S
  BY <1>6, <1>7, Induct, SizesAssumption
<1>9. f[Blocks] \subseteq T /\ \A b \in T : b <= Blocks => b \in f[Blocks]
  BY <1>8, SizesAssumption DEF S
<1>10. \A b \in T : b <= Blocks
  BY <1>3, SizesAssumption
<1>11. Chain(d, p.link) = f[Blocks]
  BY <1>1 DEF Reach
<1>12. f[Blocks] = T
  BY <1>9, <1>10
<1> QED BY <1>2, <1>11, <1>12

-----------------------------------------------------------------------------
(* savefile and remove_link.                                               *)

\* The blocks of the file are finitely many.
LEMMA BlocksFinite ==
  ASSUME NEW S, S \subseteq 1..Blocks
  PROVE  /\ IsFiniteSet(S) /\ Cardinality(S) \in Nat /\ Cardinality(S) <= Blocks
         /\ S \subseteq Nat
<1>1. IsFiniteSet(1..Blocks) /\ Cardinality(1..Blocks) = Blocks
  BY FS_Interval, SizesAssumption
<1>2. IsFiniteSet(S) /\ Cardinality(S) <= Blocks
  BY <1>1, FS_Subset
<1> QED BY <1>2, FS_CardinalityType

\* savefile gets the blocks it needs, from the free ones.
LEMMA GatiFacts ==
  ASSUME NEW d \in Dat, NEW size \in 1..Blocks, Room(d, size),
         NEW g, g = Gati(d, size)
  PROVE  /\ g \subseteq FreeBlocks(d) /\ g \subseteq 1..Blocks
         /\ Cardinality(g) = size
         /\ Min(g) \in g /\ \A b \in g : Min(g) <= b
<1>1. PICK F : F = FreeBlocks(d)
  OBVIOUS
<1>2. F \subseteq 1..Blocks
  BY <1>1 DEF FreeBlocks
<1>3. g = First(F, size)
  BY <1>1 DEF Gati, First, Below
<1>4. g \subseteq F
  BY <1>3 DEF First
<1>5. IsFiniteSet(F) /\ F \subseteq Nat /\ size <= Cardinality(F)
  <2>1. Cardinality(F) >= size
    BY <1>1 DEF Room
  <2>2. IsFiniteSet(F) /\ F \subseteq Nat /\ Cardinality(F) \in Nat
    BY <1>2, BlocksFinite
  <2> QED BY <2>1, <2>2
<1>6. Cardinality(g) = size
  <2>1. size \in Nat
    BY SizesAssumption
  <2> QED BY <1>3, <1>5, <2>1, FirstSize
<1>7. g # {}
  BY <1>6, FS_EmptySet
<1>8. g \subseteq Nat
  BY <1>4, <1>5
<1> QED BY <1>1, <1>2, <1>4, <1>6, <1>7, <1>8, MinIn

\* What savefile leaves in the GAT.
LEMMA SavedFacts ==
  ASSUME NEW d \in Dat, NEW id \in 0..MaxPosts, NEW g, g \subseteq FreeBlocks(d),
         NEW e, e = Saved(d, g, id)
  PROVE  /\ e \in Dat
         /\ \A b \in g : /\ e.text[b] = id /\ e.gat[b] > b /\ e.gat[b] # 0
                         /\ e.gat[b] # End => e.gat[b] \in g
         /\ \A b \in 1..Blocks \ g : e.text[b] = d.text[b] /\ e.gat[b] = d.gat[b]
         /\ Used(e) = Used(d) \cup g /\ Used(d) \cap g = {} /\ Absent(e)
<1>1. g \subseteq 1..Blocks /\ \A b \in g : d.gat[b] = 0
  BY DEF FreeBlocks
<1>2. \A b \in 1..Blocks : d.gat[b] \in 0..End /\ d.text[b] \in 0..MaxPosts
  BY DEF Dat
<1> DEFINE next(b) == IF {c \in g : b < c} = {} THEN End ELSE Min({c \in g : b < c})
<1>3. ASSUME NEW b \in g
      PROVE  next(b) \in 0..End /\ next(b) > b /\ (next(b) # End => next(b) \in g)
  <2>1. PICK L : L = {c \in g : b < c}
    OBVIOUS
  <2>2. b \in 1..Blocks /\ L \subseteq 1..Blocks /\ L \subseteq g /\ \A c \in L : b < c
    BY <1>1, <2>1
  <2>3. CASE L = {}
    <3>1. next(b) = End
      BY <2>1, <2>3
    <3> QED BY <2>2, <3>1, SizesAssumption DEF End
  <2>4. CASE L # {}
    <3>1. next(b) = Min(L)
      BY <2>1, <2>4
    <3>2. Min(L) \in L
      <4>1. L \subseteq Nat
        BY <2>2, SizesAssumption
      <4> QED BY <2>4, <4>1, MinIn
    <3>3. Min(L) \in 1..Blocks /\ Min(L) > b /\ Min(L) \in g
      BY <2>2, <3>2
    <3> QED BY <3>1, <3>3, SizesAssumption DEF End
  <2> QED BY <2>3, <2>4
<1>4. e = [gat |-> [b \in 1..Blocks |-> IF b \in g THEN next(b) ELSE d.gat[b]],
           text |-> [b \in 1..Blocks |-> IF b \in g THEN id ELSE d.text[b]],
           there |-> TRUE]
  BY DEF Saved
<1> HIDE DEF next
<1>5. /\ \A b \in 1..Blocks : /\ e.gat[b] = IF b \in g THEN next(b) ELSE d.gat[b]
                              /\ e.text[b] = IF b \in g THEN id ELSE d.text[b]
  BY <1>4
<1>6. e \in Dat
  <2>1. [b \in 1..Blocks |-> IF b \in g THEN next(b) ELSE d.gat[b]] \in [1..Blocks -> 0..End]
    BY <1>2, <1>3
  <2>2. [b \in 1..Blocks |-> IF b \in g THEN id ELSE d.text[b]] \in [1..Blocks -> 0..MaxPosts]
    BY <1>2
  <2> QED BY <1>4, <2>1, <2>2 DEF Dat
<1>7. \A b \in g : /\ e.text[b] = id /\ e.gat[b] > b /\ e.gat[b] # 0
                   /\ e.gat[b] # End => e.gat[b] \in g
  <2>1. \A b \in g : b \in 1..Blocks /\ e.gat[b] = next(b) /\ e.text[b] = id
    BY <1>1, <1>5
  <2>2. \A b \in g : next(b) # 0
    <3>1. \A b \in g : b > 0 /\ b \in Int /\ next(b) \in Int /\ next(b) > b
      BY <1>1, <1>3, SizesAssumption DEF End
    <3> QED BY <3>1
  <2> QED BY <1>3, <2>1, <2>2
<1>8. \A b \in 1..Blocks \ g : e.text[b] = d.text[b] /\ e.gat[b] = d.gat[b]
  BY <1>5
<1>9. Used(e) = Used(d) \cup g /\ Used(d) \cap g = {}
  <2>1. \A b \in 1..Blocks : e.gat[b] # 0 <=> d.gat[b] # 0 \/ b \in g
    BY <1>1, <1>7, <1>8
  <2> QED BY <1>1, <2>1 DEF Used
<1>10. Absent(e)
  BY <1>4 DEF Absent
<1> QED BY <1>6, <1>7, <1>8, <1>9, <1>10

\* The new text is in the blocks it was given; the others are where they were.
LEMMA SavedText ==
  ASSUME NEW d \in Dat, NEW id \in 0..MaxPosts, NEW g, g \subseteq FreeBlocks(d),
         TextOf(d, id) = {},
         NEW e, e = Saved(d, g, id)
  PROVE  /\ TextOf(e, id) = g
         /\ \A j : j # id => TextOf(e, j) = TextOf(d, j)
         /\ Linked(d) => Linked(e)
         /\ \A p : p.id # id /\ HasText(d, p) => HasText(e, p)
<1>1. /\ \A b \in g : /\ e.text[b] = id /\ e.gat[b] > b
                      /\ e.gat[b] # End => e.gat[b] \in g
      /\ \A b \in 1..Blocks \ g : e.text[b] = d.text[b] /\ e.gat[b] = d.gat[b]
      /\ Used(e) = Used(d) \cup g /\ Used(d) \cap g = {}
  BY SavedFacts
<1>2. Used(d) \subseteq 1..Blocks \ g
  BY <1>1 DEF Used
<1>3. \A b \in Used(d) : e.text[b] = d.text[b] /\ e.gat[b] = d.gat[b]
  BY <1>1, <1>2
<1>4. TextOf(e, id) = g
  <2>1. \A b \in Used(d) : d.text[b] # id
    BY DEF TextOf
  <2> QED BY <1>1, <1>3, <2>1 DEF TextOf
<1>5. ASSUME NEW j, j # id PROVE TextOf(e, j) = TextOf(d, j)
  <2>1. \A b \in g : e.text[b] # j
    BY <1>1, <1>5
  <2>2. \A b \in Used(e) : e.text[b] = j <=> b \in Used(d) /\ d.text[b] = j
    BY <1>1, <1>3, <2>1
  <2>3. Used(d) \subseteq Used(e)
    BY <1>1
  <2> QED BY <2>2, <2>3 DEF TextOf
<1>6. ASSUME Linked(d) PROVE Linked(e)
  <2>1. ASSUME NEW b \in g
        PROVE  e.gat[b] > b /\ (e.gat[b] # End => e.gat[b] \in TextOf(e, e.text[b]))
    BY <1>1, <1>4
  <2>2. ASSUME NEW b \in Used(d)
        PROVE  e.gat[b] > b /\ (e.gat[b] # End => e.gat[b] \in TextOf(e, e.text[b]))
    <3>1. d.gat[b] > b /\ (d.gat[b] # End => d.gat[b] \in TextOf(d, d.text[b]))
      BY <1>6 DEF Linked
    <3>2. d.text[b] # id
      BY DEF TextOf
    <3>3. TextOf(e, d.text[b]) = TextOf(d, d.text[b])
      BY <1>5, <3>2
    <3> QED BY <1>3, <3>1, <3>3
  <2> QED BY <1>1, <2>1, <2>2 DEF Linked
<1>7. ASSUME NEW p, p.id # id, HasText(d, p) PROVE HasText(e, p)
  <2>1. TextOf(e, p.id) = TextOf(d, p.id)
    BY <1>5, <1>7
  <2>2. \A c \in TextOf(d, p.id) : e.gat[c] = d.gat[c]
    BY <1>3 DEF TextOf
  <2> QED BY <1>7, <2>1, <2>2 DEF HasText
<1> QED BY <1>4, <1>5, <1>6, <1>7

\* The new text is whole.
LEMMA SavedHas ==
  ASSUME NEW d \in Dat, NEW id \in 0..MaxPosts, NEW size \in 1..Blocks, Room(d, size),
         TextOf(d, id) = {}, NEW g, g = Gati(d, size),
         NEW e, e = Saved(d, g, id),
         NEW p, p.id = id, p.link = Min(g), p.size = size
  PROVE  HasText(e, p)
<1>1. /\ g \subseteq FreeBlocks(d) /\ g \subseteq 1..Blocks /\ Cardinality(g) = size
      /\ Min(g) \in g /\ \A b \in g : Min(g) <= b
  BY GatiFacts
<1>2. TextOf(e, id) = g
  BY <1>1, SavedText
<1>3. ASSUME NEW b \in g, b # Min(g) PROVE \E c \in g : e.gat[c] = b
  <2>1. PICK L : L = {c \in g : c < b}
    OBVIOUS
  <2>2. Min(g) \in L /\ L \subseteq 0..Blocks /\ b \in 1..Blocks
    <3>1. Min(g) \in 1..Blocks /\ b \in 1..Blocks /\ Min(g) <= b
      BY <1>1
    <3>2. Min(g) < b
      BY <1>3, <3>1
    <3>3. L \subseteq 0..Blocks
      BY <1>1, <2>1
    <3> QED BY <1>1, <2>1, <3>1, <3>2, <3>3
  <2>3. Max(L) \in L /\ \A y \in L : y <= Max(L)
    BY <2>2, MaxIn, SizesAssumption
  <2>4. PICK c \in g : c = Max(L)
    BY <2>1, <2>3
  <2>5. PICK later : later = {x \in g : c < x}
    OBVIOUS
  <2>6. b \in later /\ later \subseteq Nat /\ c \in 1..Blocks
    <3>1. c < b
      BY <2>1, <2>3, <2>4
    <3>2. later \subseteq Nat
      BY <1>1, <2>5, SizesAssumption
    <3> QED BY <1>1, <2>5, <3>1, <3>2
  <2>7. Min(later) \in later /\ Min(later) <= b
    BY <2>6, MinIn
  <2>8. Min(later) = b
    <3>1. Min(later) \in g /\ c < Min(later) /\ Min(later) \in Nat
      BY <2>5, <2>6, <2>7
    <3>2. ~(Min(later) < b)
      <4>1. SUFFICES ASSUME Min(later) < b PROVE FALSE
        OBVIOUS
      <4>2. Min(later) \in L
        BY <2>1, <3>1, <4>1
      <4>3. Min(later) <= c
        BY <2>3, <2>4, <4>2
      <4> QED BY <2>6, <3>1, <4>3
    <3> QED BY <2>2, <2>7, <3>1, <3>2
  <2>9. e.gat[c] = Min(later)
    <3>1. e.gat[c] = IF {x \in g : c < x} = {} THEN End ELSE Min({x \in g : c < x})
      BY <2>6 DEF Saved
    <3>2. {x \in g : c < x} # {}
      BY <2>5, <2>6
    <3> QED BY <2>5, <3>1, <3>2
  <2> QED BY <2>8, <2>9
<1> QED BY <1>1, <1>2, <1>3 DEF HasText

\* remove_link frees the text it is given, and nothing else.
LEMMA UnlinkedText ==
  ASSUME NEW d \in Dat, Linked(d), NEW p, HasText(d, p),
         NEW e, e = Unlinked(d, p.link)
  PROVE  /\ Linked(e)
         /\ TextOf(e, p.id) = {}
         /\ Used(e) = Used(d) \ TextOf(d, p.id)
         /\ \A b \in 1..Blocks : e.text[b] = d.text[b]
         /\ \A j : j # p.id => TextOf(e, j) = TextOf(d, j)
         /\ \A q : q.id # p.id /\ HasText(d, q) => HasText(e, q)
<1>1. PICK T : T = TextOf(d, p.id)
  OBVIOUS
<1>2. Chain(d, p.link) = T /\ T \subseteq Used(d) /\ Used(d) \subseteq 1..Blocks
  BY <1>1, ChainIs DEF TextOf, Used
<1>3. e = [d EXCEPT !.gat = [b \in 1..Blocks |-> IF b \in T THEN 0 ELSE d.gat[b]]]
  BY <1>2 DEF Unlinked
<1>4. /\ e.text = d.text
      /\ \A b \in 1..Blocks : e.gat[b] = IF b \in T THEN 0 ELSE d.gat[b]
  BY <1>3 DEF Dat
<1>5. Used(e) = Used(d) \ T
  BY <1>2, <1>4 DEF Used
<1>6. \A b \in Used(e) : e.gat[b] = d.gat[b] /\ b \in Used(d) /\ d.text[b] # p.id
  <2>1. \A b \in Used(d) : b \in T <=> d.text[b] = p.id
    BY <1>1 DEF TextOf
  <2> QED BY <1>2, <1>4, <1>5, <2>1
<1>7. TextOf(e, p.id) = {}
  BY <1>4, <1>6 DEF TextOf
<1>8. ASSUME NEW j, j # p.id PROVE TextOf(e, j) = TextOf(d, j)
  <2>1. \A b \in Used(d) : d.text[b] = j => b \notin T
    BY <1>1, <1>8 DEF TextOf
  <2> QED BY <1>4, <1>5, <2>1 DEF TextOf
<1>9. Linked(e)
  <2>1. ASSUME NEW b \in Used(e)
        PROVE  e.gat[b] > b /\ (e.gat[b] # End => e.gat[b] \in TextOf(e, e.text[b]))
    <3>1. d.gat[b] > b /\ (d.gat[b] # End => d.gat[b] \in TextOf(d, d.text[b]))
      BY <1>6 DEF Linked
    <3>2. TextOf(e, d.text[b]) = TextOf(d, d.text[b])
      BY <1>6, <1>8
    <3> QED BY <1>4, <1>6, <3>1, <3>2
  <2> QED BY <2>1 DEF Linked
<1>10. ASSUME NEW q, q.id # p.id, HasText(d, q) PROVE HasText(e, q)
  <2>1. TextOf(e, q.id) = TextOf(d, q.id)
    BY <1>8, <1>10
  <2>2. \A c \in TextOf(e, q.id) : e.gat[c] = d.gat[c]
    BY <1>6 DEF TextOf
  <2> QED BY <1>10, <2>1, <2>2 DEF HasText
<1> QED BY <1>1, <1>4, <1>5, <1>7, <1>8, <1>9, <1>10

\* It leaves a .dat file, whatever the link.
LEMMA UnlinkedType ==
  ASSUME NEW d \in Dat, NEW link
  PROVE  Unlinked(d, link) \in Dat
<1>1. \A b \in 1..Blocks : d.gat[b] \in 0..End /\ 0 \in 0..End
  BY SizesAssumption DEF Dat, End
<1>2. [b \in 1..Blocks |-> IF b \in Chain(d, link) THEN 0 ELSE d.gat[b]] \in [1..Blocks -> 0..End]
  BY <1>1
<1> QED BY <1>2 DEF Unlinked, Dat

-----------------------------------------------------------------------------
(* pack_sub.                                                               *)

\* Two parts of the file, and the rest of it.
LEMMA DisjointSize ==
  ASSUME NEW S, NEW T, S \subseteq 1..Blocks, T \subseteq 1..Blocks, S \cap T = {}
  PROVE  /\ Cardinality(S \cup T) = Cardinality(S) + Cardinality(T)
         /\ Cardinality(S) + Cardinality(T) <= Blocks
<1>1. /\ IsFiniteSet(S) /\ Cardinality(S) \in Nat
      /\ IsFiniteSet(T) /\ Cardinality(T) \in Nat
  BY BlocksFinite
<1>2. Cardinality(S \cup T) = Cardinality(S) + Cardinality(T) - Cardinality({})
  BY <1>1, FS_Union
<1>3. Cardinality(S \cup T) <= Blocks
  <2>1. S \cup T \subseteq 1..Blocks
    OBVIOUS
  <2> QED BY <2>1, BlocksFinite
<1> QED BY <1>1, <1>2, <1>3, FS_EmptySet

LEMMA FreeSize ==
  ASSUME NEW d
  PROVE  Cardinality(FreeBlocks(d)) = Blocks - Cardinality(Used(d))
<1>1. FreeBlocks(d) = (1..Blocks) \ Used(d) /\ (1..Blocks) \cap Used(d) = Used(d)
  BY DEF FreeBlocks, Used
<1>2. IsFiniteSet(1..Blocks) /\ Cardinality(1..Blocks) = Blocks
  BY FS_Interval, SizesAssumption
<1> QED BY <1>1, <1>2, FS_Difference

\* readfile finds the text of a post that has it.
LEMMA TextFound ==
  ASSUME NEW d \in Dat, Linked(d), NEW p, HasText(d, p)
  PROVE  TextAt(d, p.link) = p.id
<1>1. PICK found : found = {d.text[b] : b \in Chain(d, p.link)}
  OBVIOUS
<1>2. Chain(d, p.link) = TextOf(d, p.id) /\ TextOf(d, p.id) # {}
  BY ChainIs DEF HasText
<1>3. found = {p.id}
  BY <1>1, <1>2 DEF TextOf
<1>4. Cardinality(found) = 1
  BY <1>3, FS_Singleton
<1>5. TextAt(d, p.link) = CHOOSE id \in found : TRUE
  BY <1>1, <1>4 DEF TextAt
<1> QED BY <1>3, <1>5

\* The copies pack_sub makes, post by post, as long as the files can be opened.
PackSteps(f) ==
  /\ f[0] = [dat |-> dat, tmp |-> packtmp, recs |-> recs]
  /\ \A k \in 1..count : f[k] = Copied(f[k - 1], k, "opened", "opened", 0)

LEMMA PackedBy ==
  ASSUME NEW i, PackCopy(i), Unspoiled', count \in Nat
  PROVE  \E f : /\ PackSteps(f) /\ dat' = f[count].dat
               /\ packtmp' = f[count].tmp /\ recs' = f[count].recs
<1>1. PICK j \in 1..count, rd \in Openings, sv \in Openings :
      \E link \in IF sv = "failed" THEN 0..Blocks ELSE {0} :
        /\ "opened" \in {rd, sv}
        /\ LET done == Packed(j, rd, sv, link)
           IN  dat' = done.dat /\ packtmp' = done.tmp /\ recs' = done.recs
        /\ spoiled' = spoiled \cup (IF {rd, sv} = {"opened"} THEN {} ELSE {"not packed"})
  BY Zenon DEF PackCopy
<1>2. rd = "opened" /\ sv = "opened"
  BY <1>1 DEF Unspoiled
<1>3. PICK link \in {0} :
        /\ dat' = Packed(j, rd, sv, link).dat /\ packtmp' = Packed(j, rd, sv, link).tmp
        /\ recs' = Packed(j, rd, sv, link).recs
  BY <1>1, <1>2
<1>4. PICK begin : begin = [dat |-> dat, tmp |-> packtmp, recs |-> recs]
  OBVIOUS
<1> DEFINE One(acc, k) == Copied(acc, k, Except(j, rd)[k], Except(j, sv)[k], link)
           Is(f, m) == f = [k \in 0..m |-> IF k = 0 THEN begin ELSE One(f[k - 1], k)]
           S == {m \in Nat : \E f : Is(f, m)}
<1>5. 0 \in S
  <2> HIDE DEF One
  <2>1. Is([k \in 0..0 |-> begin], 0)
    OBVIOUS
  <2> QED BY <2>1
<1>6. ASSUME NEW m \in Nat, m \in S PROVE m + 1 \in S
  <2> HIDE DEF One
  <2>1. PICK f : Is(f, m)
    BY <1>6
  <2>2. PICK g : g = [k \in 0..m + 1 |-> IF k = m + 1 THEN One(f[m], m + 1) ELSE f[k]]
    OBVIOUS
  <2>3. ASSUME NEW k \in 0..m + 1 PROVE g[k] = IF k = 0 THEN begin ELSE One(g[k - 1], k)
    <3>1. CASE k = m + 1
      <4>1. g[k] = One(f[m], k) /\ k - 1 = m /\ k # 0 /\ m \in 0..m + 1 /\ m # m + 1
        BY <2>2, <3>1
      <4>2. g[m] = f[m]
        BY <2>2, <4>1
      <4> QED BY <4>1, <4>2
    <3>2. CASE k # m + 1
      <4>1. k \in 0..m /\ (k # 0 => k - 1 \in 0..m /\ k - 1 \in 0..m + 1 /\ k - 1 # m + 1)
        BY <3>2
      <4>2. g[k] = f[k] /\ (k # 0 => g[k - 1] = f[k - 1])
        BY <2>2, <3>2, <4>1
      <4>3. f[k] = IF k = 0 THEN begin ELSE One(f[k - 1], k)
        BY <2>1, <4>1
      <4> QED BY <4>2, <4>3
    <3> QED BY <3>1, <3>2
  <2>4. Is(g, m + 1)
    BY <2>2, <2>3
  <2> QED BY <2>4
<1>7. count \in S
  <2> HIDE DEF S
  <2> QED BY <1>5, <1>6, Induct
<1>8. \E f : f = [k \in 0..count |-> IF k = 0 THEN begin ELSE One(f[k - 1], k)]
  <2> HIDE DEF One
  <2> QED BY <1>7
<1> DEFINE packed == CHOOSE f : f = [k \in 0..count |->
                                       IF k = 0 THEN [dat |-> dat, tmp |-> packtmp, recs |-> recs]
                                       ELSE One(f[k - 1], k)]
<1>9. packed = [k \in 0..count |-> IF k = 0 THEN begin ELSE One(packed[k - 1], k)]
  <2> HIDE DEF One
  <2> QED BY <1>4, <1>8
<1>10. Packed(j, rd, sv, link) = packed[count]
  BY DEF Packed
<1> HIDE DEF packed, One
<1>11. packed[0] = begin /\ \A k \in 1..count : packed[k] = One(packed[k - 1], k)
  <2>1. 0 \in 0..count /\ \A k \in 1..count : k \in 0..count /\ k # 0
    OBVIOUS
  <2> QED BY <1>9, <2>1
<1>12. PackSteps(packed)
  <2>1. \A k \in 1..count : Except(j, rd)[k] = "opened" /\ Except(j, sv)[k] = "opened"
    BY <1>2 DEF Except
  <2>2. \A k \in 1..count : One(packed[k - 1], k) = Copied(packed[k - 1], k, "opened", "opened", 0)
    BY <1>3, <2>1 DEF One
  <2> QED BY <1>4, <1>11, <2>2 DEF PackSteps
<1> QED BY <1>3, <1>10, <1>12

\* The area as pack_sub finds it: every post has its text.
Packable ==
  /\ count \in 0..MaxPosts
  /\ recs \in [Numbers -> Rec] /\ dat \in Dat /\ Linked(dat) /\ Absent(dat)
  /\ packtmp = NoDat
  /\ \A k \in 1..count : HasText(dat, recs[k])
  /\ \A j, k \in 1..count : j # k => recs[j].id # recs[k].id

\* The blocks in use of the texts of the first k posts.
FirstTexts(k) == {b \in Used(dat) : \E j \in 1..k : dat.text[b] = recs[j].id}

\* What has been copied after k posts: their texts, whole, and nothing else.
Copying(acc, k) ==
  /\ acc.dat = dat /\ acc.tmp \in Dat /\ Absent(acc.tmp)
  /\ acc.recs \in [Numbers -> Rec] /\ Linked(acc.tmp)
  /\ \A j \in Numbers : /\ acc.recs[j].id = recs[j].id /\ acc.recs[j].qscan = recs[j].qscan
                        /\ acc.recs[j].size = recs[j].size
  /\ \A j \in 1..k : HasText(acc.tmp, acc.recs[j])
  /\ \A b \in Used(acc.tmp) : \E j \in 1..k : acc.tmp.text[b] = recs[j].id
  /\ Cardinality(Used(acc.tmp)) = Cardinality(FirstTexts(k))

\* A copy of one more text fits, and is whole.
LEMMA CopyOne ==
  ASSUME Packable, NEW k \in 1..count, NEW acc, Copying(acc, k - 1)
  PROVE  Copying(Copied(acc, k, "opened", "opened", 0), k)
<1>1. PICK p \in Rec : p = recs[k]
  <2>1. k \in Numbers
    BY BoundAssumption DEF Packable, Numbers
  <2> QED BY <2>1 DEF Packable
<1>2. HasText(dat, p) /\ dat \in Dat /\ Linked(dat) /\ k \in 1..MaxPosts /\ k \in Numbers
      /\ count \in Nat /\ k - 1 \in Nat
  BY <1>1, BoundAssumption DEF Packable, Numbers
<1>3. PICK T : T = TextOf(dat, p.id)
  OBVIOUS
<1>4. T \subseteq 1..Blocks /\ Cardinality(T) = p.size /\ Chain(dat, p.link) = T
  BY <1>2, <1>3, ChainIs DEF HasText, TextOf, Used
<1>5. p.size \in 1..Blocks /\ p.id \in 0..MaxPosts
  <2>1. T # {}
    BY <1>2, <1>3 DEF HasText
  <2>2. p.size # 0
    BY <1>4, <2>1, BlocksFinite, FS_EmptySet
  <2>3. p.size \in 0..Blocks /\ p.id \in 0..MaxPosts
    BY DEF Rec
  <2> QED BY <2>2, <2>3, SizesAssumption
<1>6. Max({1, p.size}) = p.size
  <2>1. {1, p.size} \subseteq 0..Blocks /\ Blocks \in Nat /\ {1, p.size} # {}
    BY <1>5, SizesAssumption
  <2>2. PICK S : S = {1, p.size}
    OBVIOUS
  <2>3. Max(S) \in S /\ \A y \in S : y <= Max(S)
    BY <2>1, <2>2, MaxIn
  <2>4. Max(S) \in {1, p.size} /\ p.size <= Max(S)
    BY <2>2, <2>3
  <2>5. Max(S) = p.size
    BY <1>5, <2>4, SizesAssumption
  <2> QED BY <2>2, <2>5
<1>7. TextAt(dat, p.link) = p.id
  BY <1>2, TextFound
<1>8. PICK g : g = Gati(acc.tmp, p.size)
  OBVIOUS
<1>9. PICK e : e = Saved(acc.tmp, g, p.id)
  OBVIOUS
<1>10. Copied(acc, k, "opened", "opened", 0)
         = [dat |-> dat, tmp |-> e, recs |-> [acc.recs EXCEPT ![k].link = Min(g)]]
  <2>1. acc.dat = dat
    BY DEF Copying
  <2>2. Opened(dat, "opened") = dat
    <3>1. p.link \in Used(dat)
      BY <1>2 DEF HasText, TextOf
    <3>2. dat.there
      BY <3>1 DEF Packable, Absent
    <3> QED BY <1>2, <3>2 DEF Opened, Dat
  <2>3. \A d : Seen(d, "opened") = d
    BY DEF Seen
  <2>4. PICK size, id : size = Max({1, Cardinality(Chain(dat, recs[k].link))})
                        /\ id = TextAt(dat, recs[k].link)
    OBVIOUS
  <2>5. Copied(acc, k, "opened", "opened", 0)
          = [dat |-> Opened(acc.dat, "opened"), tmp |-> Saved(acc.tmp, Gati(acc.tmp, size), id),
             recs |-> [acc.recs EXCEPT ![k].link = Min(Gati(acc.tmp, size))]]
    <3>1. PICK text, tmp : text = Seen(acc.dat, "opened") /\ tmp = Seen(acc.tmp, "opened")
      OBVIOUS
    <3>2. text = dat /\ tmp = acc.tmp
      BY <2>1, <2>3, <3>1
    <3>3. Copied(acc, k, "opened", "opened", 0)
            = LET sz == Max({1, Cardinality(Chain(text, recs[k].link))})
                  gati == Gati(tmp, sz)
              IN  [dat |-> Opened(acc.dat, "opened"), tmp |-> Saved(tmp, gati, TextAt(text, recs[k].link)),
                   recs |-> [acc.recs EXCEPT ![k].link = Min(gati)]]
      BY <3>1 DEF Copied
    <3> QED BY <2>4, <3>2, <3>3
  <2>6. size = p.size /\ id = p.id
    BY <1>1, <1>4, <1>6, <1>7, <2>4
  <2> QED BY <1>8, <1>9, <2>1, <2>2, <2>5, <2>6
<1>11. FirstTexts(k) = FirstTexts(k - 1) \cup T /\ FirstTexts(k - 1) \cap T = {}
  <2>1. \A j \in 1..k : j \in 1..k - 1 \/ j = k
    BY <1>2
  <2>2. \A j \in 1..k - 1 : j \in 1..k /\ j \in 1..count /\ j # k
    BY <1>2
  <2>3. \A j \in 1..k - 1 : recs[j].id # p.id
    BY <1>1, <2>2 DEF Packable
  <2>4. k \in 1..k
    BY <1>2
  <2> QED BY <1>1, <1>3, <2>1, <2>2, <2>3, <2>4 DEF FirstTexts, TextOf
<1>12. PICK n \in Nat : n = Cardinality(FirstTexts(k - 1))
  <2>1. FirstTexts(k - 1) \subseteq 1..Blocks
    BY DEF FirstTexts, Used
  <2> QED BY <2>1, BlocksFinite
<1>13. Cardinality(FirstTexts(k)) = n + p.size /\ n + p.size <= Blocks
  <2>1. FirstTexts(k - 1) \subseteq 1..Blocks
    BY DEF FirstTexts, Used
  <2> QED BY <1>4, <1>11, <1>12, <2>1, DisjointSize
<1>14. acc.tmp \in Dat /\ Cardinality(Used(acc.tmp)) = n
  BY <1>12 DEF Copying
<1>15. Room(acc.tmp, p.size)
  <2>1. Cardinality(FreeBlocks(acc.tmp)) = Blocks - n
    BY <1>14, FreeSize
  <2> QED BY <1>5, <1>13, <2>1, SizesAssumption DEF Room
<1>16. TextOf(acc.tmp, p.id) = {}
  <2>1. \A b \in Used(acc.tmp) : acc.tmp.text[b] # p.id
    <3>1. \A j \in 1..k - 1 : j \in 1..count /\ j # k
      BY <1>2
    <3>2. \A j \in 1..k - 1 : recs[j].id # p.id
      BY <1>1, <3>1 DEF Packable
    <3> QED BY <3>2 DEF Copying
  <2> QED BY <2>1 DEF TextOf
<1>17. /\ g \subseteq FreeBlocks(acc.tmp) /\ g \subseteq 1..Blocks
       /\ Cardinality(g) = p.size /\ Min(g) \in g
  BY <1>5, <1>8, <1>14, <1>15, GatiFacts
<1>18. /\ e \in Dat
       /\ \A b \in g : e.text[b] = p.id
       /\ \A b \in 1..Blocks \ g : e.text[b] = acc.tmp.text[b]
       /\ Used(e) = Used(acc.tmp) \cup g /\ Used(acc.tmp) \cap g = {}
  <2>1. PICK D \in Dat : D = acc.tmp
    BY <1>14
  <2>2. g \subseteq FreeBlocks(D) /\ e = Saved(D, g, p.id)
    BY <1>9, <1>17, <2>1
  <2>3. PICK id \in 0..MaxPosts : id = p.id
    BY <1>5
  <2>4. /\ e \in Dat
        /\ \A b \in g : e.text[b] = id
        /\ \A b \in 1..Blocks \ g : e.text[b] = D.text[b]
        /\ Used(e) = Used(D) \cup g /\ Used(D) \cap g = {}
    BY <2>2, <2>3, SavedFacts
  <2> QED BY <2>1, <2>3, <2>4
<1>19. /\ Linked(e)
       /\ \A q : q.id # p.id /\ HasText(acc.tmp, q) => HasText(e, q)
  <2>1. PICK D \in Dat : D = acc.tmp
    BY <1>14
  <2>2. g \subseteq FreeBlocks(D) /\ e = Saved(D, g, p.id) /\ TextOf(D, p.id) = {} /\ Linked(D)
    BY <1>9, <1>16, <1>17, <2>1 DEF Copying
  <2>3. PICK id \in 0..MaxPosts : id = p.id
    BY <1>5
  <2>4. Linked(e) /\ \A q : q.id # id /\ HasText(D, q) => HasText(e, q)
    BY <2>2, <2>3, SavedText
  <2> QED BY <2>1, <2>3, <2>4
<1>20. PICK new : new = [acc.recs EXCEPT ![k].link = Min(g)]
  OBVIOUS
<1>21. acc.recs \in [Numbers -> Rec] /\ acc.recs[k].id = p.id /\ acc.recs[k].size = p.size
       /\ acc.recs[k].qscan = p.qscan /\ acc.recs[k] \in Rec
  BY <1>1, <1>2 DEF Copying
<1>22. /\ new \in [Numbers -> Rec] /\ new[k] = [acc.recs[k] EXCEPT !.link = Min(g)]
       /\ \A j \in Numbers : j # k => new[j] = acc.recs[j]
  <2>1. [acc.recs[k] EXCEPT !.link = Min(g)] \in Rec
    <3>1. Min(g) \in 0..Blocks
      <4>1. Min(g) \in 1..Blocks
        BY <1>17
      <4> QED BY <4>1, SizesAssumption
    <3> QED BY <1>21, <3>1 DEF Rec
  <2>2. new = [acc.recs EXCEPT ![k] = [acc.recs[k] EXCEPT !.link = Min(g)]]
    BY <1>20
  <2> QED BY <1>2, <1>21, <2>1, <2>2
<1>23. /\ new[k].id = p.id /\ new[k].qscan = p.qscan /\ new[k].size = p.size
       /\ new[k].link = Min(g)
  BY <1>21, <1>22 DEF Rec
<1>24. HasText(e, new[k])
  BY <1>5, <1>8, <1>9, <1>14, <1>15, <1>16, <1>23, SavedHas
<1>25. \A j \in 1..k : HasText(e, new[j])
  <2>1. ASSUME NEW j \in 1..k - 1 PROVE HasText(e, new[j])
    <3>1. j \in Numbers /\ j # k /\ j \in 1..count
      BY <1>2, BoundAssumption DEF Packable, Numbers
    <3>2. HasText(acc.tmp, acc.recs[j]) /\ acc.recs[j].id # p.id
      BY <1>1, <3>1 DEF Copying, Packable
    <3> QED BY <1>19, <1>22, <3>1, <3>2
  <2>2. \A j \in 1..k : j \in 1..k - 1 \/ j = k
    BY <1>2
  <2> QED BY <1>24, <2>1, <2>2
<1>26. \A b \in Used(e) : \E j \in 1..k : e.text[b] = recs[j].id
  <2>1. k \in 1..k /\ \A j \in 1..k - 1 : j \in 1..k
    BY <1>2
  <2>2. ASSUME NEW b \in Used(acc.tmp) PROVE e.text[b] = acc.tmp.text[b]
    <3>1. b \in 1..Blocks \ g
      BY <1>18 DEF Used
    <3> QED BY <1>18, <3>1
  <2>3. \A b \in Used(acc.tmp) : \E j \in 1..k - 1 : acc.tmp.text[b] = recs[j].id
    BY DEF Copying
  <2> QED BY <1>1, <1>18, <2>1, <2>2, <2>3
<1>27. Cardinality(Used(e)) = Cardinality(FirstTexts(k))
  <2>1. Used(acc.tmp) \subseteq 1..Blocks
    BY DEF Used
  <2>2. Cardinality(Used(e)) = n + p.size
    BY <1>14, <1>17, <1>18, <2>1, DisjointSize
  <2> QED BY <1>13, <2>2
<1>28. \A j \in Numbers : /\ new[j].id = recs[j].id /\ new[j].qscan = recs[j].qscan
                          /\ new[j].size = recs[j].size
  BY <1>1, <1>22, <1>23 DEF Copying
<1>29. Absent(e)
  BY <1>9 DEF Absent, Saved
<1>30. PICK new_acc : new_acc = Copied(acc, k, "opened", "opened", 0)
  OBVIOUS
<1>31. new_acc.dat = dat /\ new_acc.tmp = e /\ new_acc.recs = new
  BY <1>10, <1>20, <1>30
<1>32. Copying(new_acc, k)
  BY <1>18, <1>19, <1>22, <1>25, <1>26, <1>27, <1>28, <1>29, <1>31 DEF Copying
<1> QED BY <1>30, <1>32

\* Nothing is in use of an empty file.
LEMMA EmptyFacts ==
  NoDat \in Dat /\ Used(NoDat) = {} /\ Linked(NoDat) /\ Absent(NoDat)
<1>1. NoDat \in Dat
  <2>1. 0 \in 0..End /\ 0 \in 0..MaxPosts
    BY SizesAssumption, BoundAssumption DEF End
  <2> QED BY <2>1 DEF NoDat, Dat
<1>2. Used(NoDat) = {}
  BY DEF NoDat, Used
<1> QED BY <1>1, <1>2 DEF Linked, Absent

\* pack_sub copies every text.
LEMMA PackedText ==
  ASSUME NEW i, PackCopy(i), Unspoiled', Packable
  PROVE  /\ dat' = dat /\ packtmp' \in Dat /\ Absent(packtmp')
         /\ recs' \in [Numbers -> Rec] /\ Linked(packtmp')
         /\ \A j \in Numbers : recs'[j].id = recs[j].id
         /\ \A j \in 1..count : HasText(packtmp', recs'[j])
         /\ \A b \in Used(packtmp') : \E j \in 1..count : packtmp'.text[b] = recs[j].id
<1>1. count \in Nat
  BY BoundAssumption DEF Packable
<1>2. PICK f : /\ PackSteps(f) /\ dat' = f[count].dat
               /\ packtmp' = f[count].tmp /\ recs' = f[count].recs
  BY <1>1, PackedBy
<1> DEFINE S == {k \in Nat : k <= count => Copying(f[k], k)}
<1>3. 0 \in S
  <2>1. f[0].dat = dat /\ f[0].tmp = NoDat /\ f[0].recs = recs
    BY <1>2 DEF PackSteps, Packable
  <2>2. FirstTexts(0) = {}
    BY DEF FirstTexts
  <2>3. Copying(f[0], 0)
    BY <2>1, <2>2, EmptyFacts DEF Copying, Packable
  <2> QED BY <2>3
<1>4. ASSUME NEW k \in Nat, k \in S PROVE k + 1 \in S
  <2> SUFFICES ASSUME k + 1 <= count PROVE Copying(f[k + 1], k + 1)
    OBVIOUS
  <2>1. PICK l \in 1..count : l = k + 1
    BY <1>1
  <2>2. l - 1 = k /\ k <= count
    BY <1>1, <2>1
  <2>3. Copying(f[l - 1], l - 1)
    BY <1>4, <2>2
  <2>4. f[l] = Copied(f[l - 1], l, "opened", "opened", 0)
    BY <1>2 DEF PackSteps
  <2>5. Copying(Copied(f[l - 1], l, "opened", "opened", 0), l)
    BY <2>3, CopyOne
  <2> QED BY <2>1, <2>4, <2>5
<1> HIDE DEF S
<1>5. count \in S
  BY <1>1, <1>3, <1>4, Induct
<1>6. Copying(f[count], count)
  BY <1>1, <1>5 DEF S
<1>7. PICK acc : acc = f[count]
  OBVIOUS
<1>8. Copying(acc, count) /\ dat' = acc.dat /\ packtmp' = acc.tmp /\ recs' = acc.recs
  BY <1>2, <1>6, <1>7
<1> QED BY <1>8 DEF Copying

-----------------------------------------------------------------------------
(* Types, the lock, and where a program is.                                *)

Holds == NodeHolds \cup ToolHolds

\* TypeOK but for the lock, and the types of what it leaves out.
Types ==
  /\ count \in 0..MaxPosts
  /\ recs \in [Numbers -> Rec]
  /\ dat \in Dat /\ packtmp \in Dat
  /\ qscanptr \in 1..MaxPosts + 1
  /\ pc \in [Programs -> Places \cup Holds]
  /\ number \in [Programs -> 0..MaxPosts]
  /\ total \in [Programs -> 0..MaxPosts]
  /\ posts \in 0..MaxPosts
  /\ cur \in [Programs -> Rec] /\ shown \in [Programs -> Rec]

\* Exactly the program between open_sub and close_sub has the .sub file.
LockInv ==
  /\ lock \in Programs \cup {Nobody}
  /\ \A p \in Programs : lock = p <=> pc[p] \in Holds

\* What a node has in hand: from savefile to add_post a post with a text, and
\* while it deletes the number of a post.
NodeAt(i) ==
  /\ pc[i] \in {"idle", "number", "open", "resynch"} \cup NodeHolds
  /\ pc[i] \in {"number", "open", "count", "record"} => cur[i].link # 0
  /\ pc[i] \in {"idle", "resynch", "close", "pack", "remove", "rename"} => cur[i] = NoPost
  /\ pc[i] \in {"unlink", "shift"} => cur[i] = NoPost \/ cur[i].link # 0
  /\ pc[i] \in {"unlink", "shift"} => Victim(i) \in 1..count
  /\ pc[i] = "record" => count > 0
NodeStage == \A i \in Nodes : NodeAt(i)

\* The same for wwivutil.
ToolStage ==
  /\ pc[Tool] \in {"idle", "toolSave", "toolOpen", "toolDelete"} \cup ToolHolds
  /\ pc[Tool] = "toolSave" => cur[Tool].link = 0 /\ cur[Tool].id # 0
  /\ pc[Tool] \in {"toolOpen", "toolRecord", "toolHeader"} => cur[Tool].link # 0
  /\ pc[Tool] \in {"idle", "toolDelete", "toolUnlink", "toolShift"} => cur[Tool] = NoPost
  /\ pc[Tool] \in {"toolDelete", "toolUnlink", "toolShift"} =>
       number[Tool] \in 1..total[Tool]
  /\ pc[Tool] = "toolHeader" => recs[count + 1] = cur[Tool]
  /\ shown[Tool] = NoPost

\* The posts being added have their own ids.
CurInv ==
  /\ \A p \in Programs : cur[p] # NoPost => cur[p].id \in 1..posts
  /\ \A p, q \in Programs : cur[p].id = cur[q].id /\ p # q => cur[p].id = 0

\* A number is left for every post that has none.
AtNumber == {p \in Programs : pc[p] = "number"}
QScanInv == IsFiniteSet(AtNumber) /\ qscanptr + Cardinality(AtNumber) <= posts + 1

-----------------------------------------------------------------------------
(* Posts and texts.                                                        *)

Recording == {i \in Nodes : pc[i] = "record"}
Shifting == {p \in Programs : pc[p] \in {"shift", "toolShift"}}
Renaming == {i \in Nodes : pc[i] \in {"remove", "rename"}}

\* The posts in the list: while the count has been written and the record has
\* not, the last one is not there yet.
Filled == IF Recording = {} THEN count ELSE count - 1
Ids == {recs[k].id : k \in 1..Filled}

\* The list holds the posts that were added and not deleted, once each; a post
\* that is being added is a new one.
IdInv ==
  /\ \A k \in 1..Filled : recs[k].id \in 1..posts
  /\ \A j, k \in 1..Filled : j # k => recs[j].id # recs[k].id
  /\ \A p \in Programs : cur[p].id \notin posted
  /\ Ids = posted \ deleted
  /\ posted \subseteq 1..posts /\ deleted \subseteq posted

\* wwivutil has removed a text and its number of posts is out of date: the
\* next step is one of the exceptional events.
Doomed == pc[Tool] = "toolShift" /\ count # total[Tool]

\* The post whose text has just been removed, or was to be, goes next: the
\* others are kept.
Removed(k) == \E p \in Shifting : Victim(p) = k
Kept == {recs[k].id : k \in {l \in 1..Filled : ~Removed(l)}}
Owned == Kept \cup {cur[p].id : p \in Programs}

\* The .dat file: blocks in use are of known posts, those that are of no post
\* are the leaked ones, and a post being added has its text once it is saved.
DatInv ==
  /\ Linked(dat) /\ Absent(dat)
  /\ \A b \in Used(dat) : dat.text[b] \in 1..posts
  /\ leaked = {b \in Used(dat) : dat.text[b] \notin Owned}
  /\ \A p \in Programs :
       IF cur[p].link = 0 THEN TextOf(dat, cur[p].id) = {} ELSE HasText(dat, cur[p])

\* Every post that is kept has its text; while pack_sub is about to rename, in
\* PACKTMP$.dat.
ListInv ==
  Renaming = {} =>
    /\ packtmp = NoDat
    /\ \A k \in 1..Filled : Removed(k) \/ HasText(dat, recs[k])
PackInv ==
  Renaming # {} =>
    /\ Linked(packtmp) /\ Absent(packtmp)
    /\ \A k \in 1..Filled : HasText(packtmp, recs[k])
    /\ \A b \in Used(packtmp) : packtmp.text[b] \in Ids

Stages == LockInv /\ NodeStage /\ ToolStage /\ CurInv /\ QScanInv
ControlInv == Types /\ Stages
TextInv == ~Doomed => DatInv /\ ListInv /\ PackInv
Inv == Unspoiled => ControlInv /\ IdInv /\ TextInv

-----------------------------------------------------------------------------
(* Facts that several steps need.                                          *)

\* Nodes and wwivutil are different programs.
LEMMA ProgramsFacts ==
  /\ Tool \in Programs /\ Tool \notin Nodes /\ Nobody \notin Programs
  /\ \A i \in Nodes : i \in Programs /\ i # Tool /\ i # Nobody
BY NamesAssumption DEF Programs

\* The records of posts, and none.
LEMMA NoPostFacts ==
  /\ NoPost \in Rec /\ NoPost.id = 0 /\ NoPost.link = 0
  /\ 0 \in 0..MaxPosts
  /\ \A n \in 0..MaxPosts : n \in Nat
BY SizesAssumption, BoundAssumption DEF NoPost, Post, Rec

\* A post under way is known by its id.
LEMMA CurFacts ==
  ASSUME Types, CurInv, NEW p \in Programs
  PROVE  /\ cur[p].link # 0 => cur[p].id \in 1..posts /\ cur[p] # NoPost
         /\ cur[p].id # 0 => cur[p].id \in 1..posts
         /\ cur[p].id = 0 => cur[p] = NoPost
BY NoPostFacts DEF CurInv, Types

\* Two programs do not have the .sub file open.
LEMMA OneHolder ==
  ASSUME LockInv, NEW p \in Programs, NEW q \in Programs, pc[p] \in Holds, pc[q] \in Holds
  PROVE  p = q
BY DEF LockInv

\* With a post on its way there is a number left for it in the list.
LEMMA CountBound ==
  ASSUME Types, CurInv, IdInv, Recording = {}, NEW p \in Programs, cur[p].id # 0
  PROVE  count < posts
<1>1. PICK x \in 1..posts : x = cur[p].id
  BY CurFacts
<1>2. count \in Nat /\ posts \in Nat
  BY BoundAssumption DEF Types
<1>3. PICK R : R = (1..posts) \ {x}
  OBVIOUS
<1>4. IsFiniteSet(R) /\ Cardinality(R) = posts - 1
  <2>1. IsFiniteSet(1..posts) /\ Cardinality(1..posts) = posts
    BY <1>2, FS_Interval
  <2> QED BY <1>3, <2>1, FS_RemoveElement
<1>5. PICK f : f = [k \in 1..count |-> recs[k].id]
  OBVIOUS
<1>6. \A k \in 1..count : recs[k].id \in R
  BY <1>1, <1>3 DEF IdInv, Filled, Ids
<1>7. \A j, k \in 1..count : recs[j].id = recs[k].id => j = k
  BY DEF IdInv, Filled
<1>8. f \in Injection(1..count, R)
  BY <1>5, <1>6, <1>7 DEF Injection, IsInjective
<1>9. Cardinality(1..count) <= posts - 1
  BY <1>4, <1>8, FS_Injection
<1>10. Cardinality(1..count) = count
  BY <1>2, FS_Interval
<1> QED BY <1>2, <1>9, <1>10

\* get_post answers with a record, resynch with a number.
LEMMA GetPostType ==
  ASSUME Types, NEW n \in 0..MaxPosts, NEW last \in 0..MaxPosts
  PROVE  /\ GetPost(n, last) \in Rec
         /\ n >= 1 /\ last # 0 => /\ Min({n, last}) \in Numbers
                                  /\ GetPost(n, last) = recs[Min({n, last})]
                                  /\ Min({n, last}) = IF n <= last THEN n ELSE last
<1>1. MaxPosts \in Nat
  BY BoundAssumption
<1>2. CASE n < 1 \/ last = 0
  BY <1>1, <1>2, NoPostFacts DEF GetPost
<1>3. CASE n >= 1 /\ last # 0
  <2>1. PICK S : S = {n, last}
    OBVIOUS
  <2>2. Min(S) \in S /\ \A y \in S : Min(S) <= y
    <3>1. S \subseteq Nat /\ S # {}
      BY <1>1, <2>1
    <3> QED BY <3>1, MinIn
  <2>3. Min(S) \in {n, last} /\ Min(S) <= n /\ Min(S) <= last
    BY <2>1, <2>2
  <2>4. Min(S) = IF n <= last THEN n ELSE last
    BY <1>1, <1>3, <2>3
  <2>5. Min(S) \in Numbers
    BY <1>1, <1>3, <2>3 DEF Numbers
  <2>6. GetPost(n, last) = recs[Min(S)]
    BY <1>1, <1>3, <2>1 DEF GetPost
  <2> QED BY <2>1, <2>4, <2>5, <2>6 DEF Types
<1> QED BY <1>1, <1>2, <1>3

LEMMA ResynchType ==
  ASSUME Types, NEW n \in 0..MaxPosts, NEW p, NEW last \in 0..MaxPosts
  PROVE  Resynch(n, p, last) \in 0..MaxPosts
<1>1. MaxPosts \in Nat /\ n \in Nat /\ last \in Nat
  BY BoundAssumption
<1>2. PICK below : below = {i \in 1..Min({n, last + 1}) - 1 :
                              SamePost(p, recs[i]) \/ p.qscan >= recs[i].qscan}
  OBVIOUS
<1>3. PICK above : above = {i \in n + 1..last :
                              SamePost(p, recs[i]) \/ p.qscan <= recs[i].qscan}
  OBVIOUS
<1>4. below \subseteq 0..MaxPosts
  <2>1. PICK S : S = {n, last + 1}
    OBVIOUS
  <2>2. S \subseteq Nat /\ S # {} /\ n \in S
    BY <1>1, <2>1
  <2>3. Min(S) \in Nat /\ Min(S) <= n
    BY <2>2, MinIn
  <2>4. \A i \in 1..Min(S) - 1 : i \in 0..MaxPosts
    BY <1>1, <2>3
  <2> QED BY <1>2, <2>1, <2>4
<1>5. above \subseteq 0..MaxPosts
  BY <1>1, <1>3
<1>6. below # {} => Max(below) \in 0..MaxPosts
  BY <1>1, <1>4, MaxIn
<1>7. above # {} => Min(above) \in 0..MaxPosts
  <2>1. above \subseteq Nat
    BY <1>1, <1>5
  <2> QED BY <1>5, <2>1, MinIn
<1>8. Resynch(n, p, last) \in {n, 0, last}
        \/ (below # {} /\ Resynch(n, p, last) = Max(below))
        \/ (above # {} /\ Resynch(n, p, last) = Min(above))
  BY <1>2, <1>3 DEF Resynch
<1> QED BY <1>1, <1>6, <1>7, <1>8

\* savefile: what SaveFile and ToolSave do to the .dat file.
SavesText(size, gati, id) ==
  /\ size \in Sizes /\ Room(dat, size)
  /\ gati = Gati(dat, size)
  /\ dat' = Saved(dat, gati, id)

LEMMA SavesType ==
  ASSUME Types, NEW size, NEW gati, NEW id \in 0..MaxPosts, SavesText(size, gati, id)
  PROVE  dat' \in Dat /\ Min(gati) \in 1..Blocks /\ size \in 1..Blocks
<1>1. size \in 1..Blocks /\ dat \in Dat
  BY SizesAssumption DEF SavesText, Types
<1>2. gati \subseteq FreeBlocks(dat) /\ gati \subseteq 1..Blocks /\ Min(gati) \in gati
  BY <1>1, GatiFacts DEF SavesText
<1>3. dat' \in Dat
  BY <1>1, <1>2, SavedFacts DEF SavesText
<1> QED BY <1>1, <1>2, <1>3

\* What SaveFile does when the .dat file can be opened.
LEMMA SaveFileIs ==
  ASSUME NEW i, SaveFile(i), Unspoiled'
  PROVE  /\ \E size, gati : /\ SavesText(size, gati, posts + 1)
                            /\ cur' = [cur EXCEPT ![i] = Post(posts + 1, 0, Min(gati), size)]
         /\ pc[i] = "idle" /\ pc' = [pc EXCEPT ![i] = "number"]
         /\ posts < MaxPosts /\ posts' = posts + 1
         /\ UNCHANGED <<count, recs, packtmp, qscanptr, lock, number, shown, total,
                        deletes, crashes, posted, deleted, leaked>>
<1>1. PICK size \in Sizes, how \in Openings :
        LET d    == Seen(dat, how)
            gati == Gati(d, size)
        IN  /\ Room(d, size)
            /\ dat' = Saved(d, gati, posts + 1)
            /\ spoiled' = spoiled \cup ({how} \ {"opened"})
            /\ NewText(i, Min(gati), size)
  BY DEF SaveFile
<1>2. how = "opened"
  BY <1>1 DEF Unspoiled
<1>3. Seen(dat, how) = dat
  BY <1>2 DEF Seen
<1>4. SavesText(size, Gati(dat, size), posts + 1) /\ NewText(i, Min(Gati(dat, size)), size)
  BY <1>1, <1>3 DEF SavesText
<1> QED BY <1>4 DEF NewText, Goes

\* What RemoveLink does: a file with a text in it is there.
LEMMA RemoveLinkIs ==
  ASSUME dat \in Dat, NEW p, RemoveLink(p), dat.there
  PROVE  dat' = Unlinked(dat, recs[Victim(p)].link)
<1>1. Opened(dat, "opened") = dat
  BY DEF Opened, Dat
<1> QED BY <1>1 DEF RemoveLink

\* Without the .dat file no text is saved, and that is an exceptional event.
LEMMA SaveNothingNot ==
  ASSUME Unspoiled', NEW i PROVE ~SaveNothing(i)
BY DEF SaveNothing, Unspoiled

\* readfile creates the .dat file, or it was there.
LEMMA ReadTextIs ==
  ASSUME NEW i, ReadText(i), Unspoiled' PROVE dat' = Opened(dat, "opened")
<1>1. PICK how \in Openings : /\ dat' = Opened(dat, how)
                              /\ spoiled' = spoiled \cup ({how} \ {"opened"})
  BY DEF ReadText
<1>2. how = "opened"
  BY <1>1 DEF Unspoiled
<1> QED BY <1>1, <1>2

\* remove_link without the file leaves the blocks of the post in use.
LEMMA RemoveNoLinkIs ==
  ASSUME NEW i, RemoveNoLink(i), Unspoiled'
  PROVE  /\ GoesToShift(i) /\ dat' = dat
         /\ leaked' = leaked \cup Chain(dat, recs[Victim(i)].link)
<1>1. PICK how \in Openings \ {"opened"} :
        /\ GoesToShift(i)
        /\ dat' = Opened(dat, how)
        /\ leaked' = leaked \cup Chain(dat', recs[Victim(i)].link)
        /\ spoiled' = spoiled \cup ({how} \ {"failed"})
  BY DEF RemoveNoLink
<1>2. how = "failed"
  BY <1>1 DEF Unspoiled
<1>3. dat' = dat
  BY <1>1, <1>2 DEF Opened
<1> QED BY <1>1, <1>3

LEMMA HasTextThere ==
  ASSUME NEW d, Absent(d), NEW p, HasText(d, p) PROVE d.there
BY DEF Absent, HasText, TextOf

\* The .dat file is created, or was there.
LEMMA OpenedType ==
  ASSUME NEW d \in Dat
  PROVE  Opened(d, "opened") \in Dat
BY DEF Opened, Dat

\* Every step keeps the types.
LEMMA NextTypes ==
  ASSUME Unspoiled, Unspoiled', ControlInv, IdInv, TextInv, Next
  PROVE  Types'
<1> USE DEF bounds, ghosts, files
<1>0. Types /\ MaxPosts \in Nat
  BY BoundAssumption DEF ControlInv
<1>1. ASSUME NEW i \in Nodes, NEW n \in Numbers, Read(i, n) PROVE Types'
  <2>1. Known(i) \in 0..MaxPosts
    BY <1>0, ProgramsFacts DEF Types, Known
  <2>2. n \in 0..MaxPosts /\ recs[n] \in Rec
    BY <1>0, <1>1, <2>1 DEF Read, Numbers, Types
  <2> QED BY <1>0, <1>1, <2>1, <2>2 DEF Read, Types
<1>2. ASSUME NEW i \in Nodes, SaveFile(i) PROVE Types'
  <2>0. /\ posts < MaxPosts /\ posts' = posts + 1 /\ pc' = [pc EXCEPT ![i] = "number"]
        /\ UNCHANGED <<count, recs, packtmp, qscanptr, number, shown, total>>
    BY <1>2, SaveFileIs
  <2>1. posts + 1 \in 0..MaxPosts
    BY <1>0, <2>0 DEF Types
  <2>2. PICK size, gati : /\ SavesText(size, gati, posts + 1)
                          /\ cur' = [cur EXCEPT ![i] = Post(posts + 1, 0, Min(gati), size)]
    BY <1>2, SaveFileIs
  <2>3. dat' \in Dat /\ Min(gati) \in 1..Blocks /\ size \in 1..Blocks
    BY <1>0, <2>1, <2>2, SavesType
  <2>4. Post(posts + 1, 0, Min(gati), size) \in Rec
    BY <1>0, <2>1, <2>3 DEF Post, Rec
  <2>5. "number" \in Places
    BY DEF Places
  <2> QED BY <1>0, <2>0, <2>1, <2>2, <2>3, <2>4, <2>5 DEF Types
<1>3. ASSUME NEW i \in Nodes, NumberPost(i) PROVE Types'
  <2>1. i \in AtNumber
    BY <1>3, ProgramsFacts DEF NumberPost, AtNumber
  <2>2. Cardinality(AtNumber) \in Nat /\ Cardinality(AtNumber) # 0
    BY <2>1, FS_CardinalityType, FS_EmptySet DEF ControlInv, Stages, QScanInv
  <2>3. qscanptr \in 0..MaxPosts /\ qscanptr + 1 \in 1..MaxPosts + 1
    <3>1. qscanptr \in 1..MaxPosts + 1 /\ posts \in 0..MaxPosts
      BY <1>0 DEF Types
    <3> QED BY <1>0, <2>2, <3>1 DEF ControlInv, Stages, QScanInv
  <2>4. [cur[i] EXCEPT !.qscan = qscanptr] \in Rec
    BY <1>0, <2>3, ProgramsFacts DEF Types, Rec
  <2>5. cur' = [cur EXCEPT ![i] = [cur[i] EXCEPT !.qscan = qscanptr]] /\ "open" \in Places
    BY <1>3 DEF NumberPost, Places
  <2> QED BY <1>0, <1>3, <2>3, <2>4, <2>5 DEF NumberPost, Goes, Types
<1>4. ASSUME NEW i \in Nodes, OpenToPost(i) PROVE Types'
  <2>1. {"unlink", "count"} \subseteq Holds
    BY DEF Holds, NodeHolds
  <2> QED BY <1>0, <1>4, <2>1 DEF OpenToPost, Goes, Types
<1>5. ASSUME NEW p \in Programs, RemoveLink(p) PROVE Types'
  <2>1. {"shift", "toolShift"} \subseteq Holds
    BY DEF Holds, NodeHolds, ToolHolds
  <2>2. dat' \in Dat
    BY <1>0, <1>5, OpenedType, UnlinkedType DEF RemoveLink, Types
  <2> QED BY <1>0, <1>5, <2>1, <2>2 DEF RemoveLink, GoesToShift, Goes, Types
<1>6. ASSUME NEW i \in Nodes, ShiftDown(i) PROVE Types'
  <2>1. {"close", "count"} \subseteq Holds
    BY DEF Holds, NodeHolds
  <2>2. count - 1 \in 0..MaxPosts
    BY <1>0, <1>6 DEF ShiftDown, Types, ControlInv, Stages, NodeStage, NodeAt
  <2>3. recs' \in [Numbers -> Rec]
    <3>1. \A k \in Numbers : k < count => k + 1 \in Numbers
      BY <1>0 DEF Numbers, Types
    <3> QED BY <1>0, <1>6, <3>1 DEF ShiftDown, Shifted, Types
  <2> QED BY <1>0, <1>6, <2>1, <2>2, <2>3 DEF ShiftDown, Goes, Types
<1>7. ASSUME NEW i \in Nodes, WriteCount(i) PROVE Types'
  <2>1. Recording = {}
    BY <1>7, OneHolder, ProgramsFacts DEF WriteCount, Recording, ControlInv, Stages, Holds, NodeHolds
  <2>2. cur[i].id # 0
    BY <1>7, CurFacts, ProgramsFacts DEF WriteCount, ControlInv, Stages, NodeStage, NodeAt
  <2>3. count < posts
    BY <2>1, <2>2, CountBound, ProgramsFacts DEF ControlInv, Stages
  <2>4. count + 1 \in 0..MaxPosts /\ "record" \in Holds
    BY <1>0, <2>3 DEF Types, Holds, NodeHolds
  <2> QED BY <1>0, <1>7, <2>4 DEF WriteCount, Goes, Types
<1>8. ASSUME NEW i \in Nodes, WriteRecord(i) PROVE Types'
  <2>1. "close" \in Holds
    BY DEF Holds, NodeHolds
  <2> QED BY <1>0, <1>8, <2>1, ProgramsFacts, NoPostFacts DEF WriteRecord, Forgets, Goes, Types
<1>9. ASSUME NEW i \in Nodes, CloseSub(i) PROVE Types'
  <2>1. {"idle", "resynch"} \subseteq Places
    BY DEF Places
  <2> QED BY <1>0, <1>9, <2>1, NoPostFacts DEF CloseSub, Returns, Goes, Types
<1>10. ASSUME NEW i \in Nodes, ResynchShown(i) PROVE Types'
  <2>1. "idle" \in Places /\ number[i] \in 0..MaxPosts /\ total[i] \in 0..MaxPosts
    BY <1>0, ProgramsFacts DEF Places, Types
  <2>2. PICK n \in 0..MaxPosts : n = Resynch(number[i], shown[i], total[i])
    BY <1>0, <2>1, ResynchType
  <2>3. number' = [number EXCEPT ![i] = n] /\ number'[i] = n
    BY <1>0, <1>10, <2>2, ProgramsFacts DEF ResynchShown, Types
  <2>4. GetPost(n, total[i]) \in Rec
    BY <1>0, <2>1, GetPostType
  <2> QED BY <1>0, <1>10, <2>1, <2>3, <2>4 DEF ResynchShown, Goes, Types
<1>11. ASSUME NEW i \in Nodes, DeleteShown(i) PROVE Types'
  <2>1. {"unlink", "close"} \subseteq Holds /\ number[i] \in 0..MaxPosts /\ count \in 0..MaxPosts
    BY <1>0, ProgramsFacts DEF Holds, NodeHolds, Types
  <2>2. PICK n \in 0..MaxPosts : n = Resynch(number[i], GetPost(number[i], count), count)
    BY <1>0, <2>1, ResynchType
  <2>3. number' = [number EXCEPT ![i] = n] /\ number'[i] = n
    BY <1>0, <1>11, <2>2, ProgramsFacts DEF DeleteShown, Types
  <2>4. GetPost(n, count) \in Rec
    BY <1>0, <2>1, GetPostType
  <2> QED BY <1>0, <1>11, <2>1, <2>3, <2>4 DEF DeleteShown, Goes, Types
<1>12. ASSUME NEW i \in Nodes, OpenToPack(i) PROVE Types'
  <2>1. "pack" \in Holds
    BY DEF Holds, NodeHolds
  <2> QED BY <1>0, <1>12, <2>1 DEF OpenToPack, Goes, Types
<1>13. ASSUME NEW i \in Nodes, PackCopy(i) PROVE Types'
  <2>1. Packable
    <3>1. pc[i] = "pack" /\ pc[i] \in Holds /\ i \in Programs
      BY <1>13, ProgramsFacts DEF PackCopy, Holds, NodeHolds
    <3>2. \A q \in Programs : pc[q] \in Holds => q = i
      BY <3>1, OneHolder DEF ControlInv, Stages
    <3>3. Recording = {} /\ Shifting = {} /\ Renaming = {} /\ ~Doomed
      BY <3>1, <3>2, ProgramsFacts
      DEF Recording, Shifting, Renaming, Doomed, Holds, NodeHolds, ToolHolds
    <3>4. Filled = count /\ \A k : ~Removed(k)
      BY <3>3 DEF Filled, Removed
    <3> QED BY <1>0, <3>3, <3>4 DEF TextInv, DatInv, ListInv, IdInv, Packable, Types
  <2>2. dat' \in Dat /\ packtmp' \in Dat /\ recs' \in [Numbers -> Rec] /\ "remove" \in Holds
    BY <1>0, <1>13, <2>1, PackedText DEF Holds, NodeHolds, Types
  <2> QED BY <1>0, <1>13, <2>2 DEF PackCopy, Goes, Types
<1>14. ASSUME NEW i \in Nodes, PackRename(i) PROVE Types'
  <2>1. "close" \in Holds
    BY DEF Holds, NodeHolds
  <2> QED BY <1>0, <1>14, <2>1, EmptyFacts DEF PackRename, Goes, Types
<1>15. ASSUME ToolNumber PROVE Types'
  <2>1. posts + 1 \in 0..MaxPosts /\ "toolSave" \in Places
    BY <1>0, <1>15 DEF ToolNumber, Types, Places
  <2>2. qscanptr \in 0..MaxPosts /\ qscanptr + 1 \in 1..MaxPosts + 1
    <3>1. qscanptr \in 1..MaxPosts + 1 /\ posts \in 0..MaxPosts
      BY <1>0 DEF Types
    <3>2. Cardinality(AtNumber) \in Nat
      BY FS_CardinalityType DEF ControlInv, Stages, QScanInv
    <3> QED BY <1>0, <2>1, <3>1, <3>2 DEF ControlInv, Stages, QScanInv
  <2>3. Post(posts + 1, qscanptr, 0, 0) \in Rec
    BY <2>1, <2>2, SizesAssumption DEF Post, Rec
  <2> QED BY <1>0, <1>15, <2>1, <2>2, <2>3 DEF ToolNumber, Goes, Types
<1>16. ASSUME ToolSave PROVE Types'
  <2>1. cur[Tool] \in Rec
    BY <1>0, ProgramsFacts DEF Types
  <2>2. cur[Tool].id \in 0..MaxPosts /\ cur[Tool].qscan \in 0..MaxPosts
    BY <2>1 DEF Rec
  <2>3. PICK size, gati :
          /\ SavesText(size, gati, cur[Tool].id)
          /\ cur' = [cur EXCEPT ![Tool] = Post(cur[Tool].id, cur[Tool].qscan, Min(gati), size)]
    BY <1>16 DEF ToolSave, SavesText
  <2>4. dat' \in Dat /\ Min(gati) \in 1..Blocks /\ size \in 1..Blocks
    BY <1>0, <2>2, <2>3, SavesType
  <2>5. Post(cur[Tool].id, cur[Tool].qscan, Min(gati), size) \in Rec /\ "toolOpen" \in Places
    BY <2>2, <2>4, SizesAssumption DEF Post, Rec, Places
  <2> QED BY <1>0, <1>16, <2>3, <2>4, <2>5 DEF ToolSave, Goes, Types
<1>17. ASSUME ToolOpen PROVE Types'
  <2>1. "toolRecord" \in Holds
    BY DEF Holds, ToolHolds
  <2> QED BY <1>0, <1>17, <2>1 DEF ToolOpen, Goes, Types
<1>18. ASSUME ToolRecord PROVE Types'
  <2>1. "toolHeader" \in Holds /\ cur[Tool] \in Rec
    BY <1>0, ProgramsFacts DEF Holds, ToolHolds, Types
  <2> QED BY <1>0, <1>18, <2>1 DEF ToolRecord, Goes, Types
<1>19. ASSUME ToolHeader PROVE Types'
  <2>1. Recording = {}
    <3>1. pc[Tool] \in Holds
      BY <1>19 DEF ToolHeader, Holds, ToolHolds
    <3> QED BY <3>1, OneHolder, ProgramsFacts DEF Recording, ControlInv, Stages, Holds, NodeHolds
  <2>2. cur[Tool].id # 0
    BY <1>19, CurFacts, ProgramsFacts DEF ToolHeader, ControlInv, Stages, ToolStage
  <2>3. count < posts
    BY <2>1, <2>2, CountBound, ProgramsFacts DEF ControlInv, Stages
  <2>4. count + 1 \in 0..MaxPosts /\ "idle" \in Places
    BY <1>0, <2>3 DEF Types, Places
  <2> QED BY <1>0, <1>19, <2>4, NoPostFacts DEF ToolHeader, Forgets, Goes, Types
<1>20. ASSUME NEW n \in Numbers, ToolCount(n) PROVE Types'
  <2>1. n \in 0..MaxPosts /\ "toolDelete" \in Places
    BY <1>0, <1>20 DEF ToolCount, Numbers, Types, Places
  <2> QED BY <1>0, <1>20, <2>1 DEF ToolCount, Goes, Types
<1>21. ASSUME ToolDelete PROVE Types'
  <2>1. "toolUnlink" \in Holds
    BY DEF Holds, ToolHolds
  <2> QED BY <1>0, <1>21, <2>1 DEF ToolDelete, Goes, Types
<1>22. ASSUME ToolShift PROVE Types'
  <2>1. total[Tool] \in 0..MaxPosts /\ total[Tool] - 1 \in 0..MaxPosts /\ "idle" \in Places
    <3>1. total[Tool] \in 0..MaxPosts
      BY <1>0, ProgramsFacts DEF Types
    <3>2. number[Tool] \in 1..total[Tool]
      BY <1>22 DEF ToolShift, ControlInv, Stages, ToolStage
    <3> QED BY <1>0, <3>1, <3>2 DEF Places
  <2>2. recs' \in [Numbers -> Rec]
    <3>1. \A k \in Numbers : k < total[Tool] => k + 1 \in Numbers
      BY <1>0, <2>1 DEF Numbers
    <3> QED BY <1>0, <1>22, <3>1 DEF ToolShift, Shifted, Types
  <2> QED BY <1>0, <1>22, <2>1, <2>2, NoPostFacts DEF ToolShift, Goes, Types
<1>23. ASSUME NEW p \in Programs, GiveUp(p) PROVE Types'
  <2>1. {"idle", "resynch"} \subseteq Places
    BY DEF Places
  <2> QED BY <1>0, <1>23, <2>1, NoPostFacts DEF GiveUp, Forgets, Returns, Goes, Types
<1>24. ASSUME NEW p \in Programs, Dies(p) PROVE Types'
  <2>1. "idle" \in Places
    BY DEF Places
  <2> QED BY <1>0, <1>24, <2>1, NoPostFacts DEF Dies, Forgets, Goes, Types
<1>25. ASSUME NEW i \in Nodes, ReadText(i) PROVE Types'
  <2>1. dat' \in Dat
    BY <1>0, <1>25, ReadTextIs, OpenedType DEF Types
  <2> QED BY <1>0, <1>25, <2>1 DEF ReadText, Types
<1>26. ASSUME NEW i \in Nodes, RemoveNoLink(i) PROVE Types'
  <2>1. {"shift", "toolShift"} \subseteq Holds
    BY DEF Holds, NodeHolds, ToolHolds
  <2> QED BY <1>0, <1>26, <2>1, RemoveNoLinkIs DEF GoesToShift, Goes, Types
<1>27. ASSUME NEW i \in Nodes, PackRemove(i) PROVE Types'
  <2>1. "rename" \in Holds /\ dat' \in Dat
    BY <1>0, <1>27, EmptyFacts DEF PackRemove, Holds, NodeHolds, Types
  <2> QED BY <1>0, <1>27, <2>1 DEF PackRemove, Goes, Types
<1>28. \A i \in Nodes : ~SaveNothing(i)
  BY SaveNothingNot
<1> QED
  BY <1>1, <1>2, <1>3, <1>4, <1>5, <1>6, <1>7, <1>8, <1>9, <1>10, <1>11, <1>12, <1>13, <1>14,
     <1>15, <1>16, <1>17, <1>18, <1>19, <1>20, <1>21, <1>22, <1>23, <1>24, <1>25, <1>26, <1>27,
     <1>28, ProgramsFacts
  DEF Next, Node, Wwivutil, Crash, ToolDies

-----------------------------------------------------------------------------
(* Where the programs are, and what they have in hand.                     *)

\* A step is one program's: what the others have in hand stays.
Alone(p) ==
  \A q \in Programs \ {p} :
    /\ pc'[q] = pc[q] /\ cur'[q] = cur[q] /\ number'[q] = number[q]
    /\ shown'[q] = shown[q] /\ total'[q] = total[q]

\* Only the program that has the .sub file open changes it.
MayWrite(p) == pc[p] \in Holds \/ (count' = count /\ recs' = recs)

\* The file is opened, or closed, or neither.
LEMMA LockSteps ==
  ASSUME LockInv, NEW p \in Programs, Alone(p),
         \/ lock' = lock /\ (pc[p] \in Holds <=> pc'[p] \in Holds)
         \/ lock = Nobody /\ lock' = p /\ pc'[p] \in Holds
         \/ lock' = (IF lock = p THEN Nobody ELSE lock) /\ pc'[p] \notin Holds
  PROVE  LockInv'
BY ProgramsFacts DEF LockInv, Alone, Holds, NodeHolds, ToolHolds

\* A step of p leaves the other nodes where they are, and wwivutil.
LEMMA NodesStay ==
  ASSUME LockInv, NodeStage, NEW p \in Programs, Alone(p), MayWrite(p)
  PROVE  \A j \in Nodes : j # p => NodeAt(j)'
<1> SUFFICES ASSUME NEW j \in Nodes, j # p PROVE NodeAt(j)'
  OBVIOUS
<1>1. /\ pc'[j] = pc[j] /\ cur'[j] = cur[j] /\ number'[j] = number[j]
      /\ Victim(j)' = Victim(j) /\ NodeAt(j) /\ j \in Programs
  BY ProgramsFacts DEF Alone, Victim, NodeStage
<1>2. pc[j] \in Holds => count' = count
  BY <1>1, OneHolder DEF MayWrite
<1>3. {"unlink", "shift", "record"} \subseteq Holds
  BY DEF Holds, NodeHolds
<1> QED BY <1>1, <1>2, <1>3 DEF NodeAt

LEMMA ToolStays ==
  ASSUME LockInv, ToolStage, NEW p \in Programs, p # Tool, Alone(p), MayWrite(p)
  PROVE  ToolStage'
<1>1. /\ pc'[Tool] = pc[Tool] /\ cur'[Tool] = cur[Tool] /\ number'[Tool] = number[Tool]
      /\ shown'[Tool] = shown[Tool] /\ total'[Tool] = total[Tool]
  BY ProgramsFacts DEF Alone
<1>2. pc[Tool] \in Holds => count' = count /\ recs' = recs
  BY OneHolder, ProgramsFacts DEF MayWrite
<1>3. "toolHeader" \in Holds
  BY DEF Holds, ToolHolds
<1> QED BY <1>1, <1>2, <1>3 DEF ToolStage

\* p goes on with its post, or forgets it, or has a new one.
LEMMA CurStays ==
  ASSUME CurInv, NEW p \in Programs, Alone(p), posts' = posts,
         \/ cur'[p] = NoPost
         \/ cur'[p].id = cur[p].id /\ cur[p] # NoPost
         \/ cur'[p] = cur[p]
  PROVE  CurInv'
BY NoPostFacts DEF CurInv, Alone

LEMMA CurNew ==
  ASSUME Types, CurInv, NEW p \in Programs, Alone(p), posts' = posts + 1, cur'[p].id = posts + 1
  PROVE  CurInv'
<1>1. posts \in Nat /\ posts' \in Nat
  BY BoundAssumption DEF Types
<1>2. \A q \in Programs : cur[q].id \in 0..posts
  BY <1>1, NoPostFacts DEF CurInv
<1>3. \A q \in Programs : q # p => cur'[q].id # posts + 1
  BY <1>1, <1>2 DEF Alone
<1>4. \A n \in 1..posts : n \in 1..posts'
  BY <1>1
<1>5. posts + 1 \in 1..posts'
  BY <1>1
<1> QED BY <1>3, <1>4, <1>5 DEF CurInv, Alone

\* The numbers left are enough when none is taken and nobody waits for one.
LEMMA QScanStays ==
  ASSUME Types, QScanInv, NEW p \in Programs, Alone(p), pc'[p] # "number",
         posts' = posts, qscanptr' = qscanptr
  PROVE  QScanInv'
<1>1. AtNumber' \subseteq AtNumber
  BY DEF AtNumber, Alone
<1>2. IsFiniteSet(AtNumber') /\ Cardinality(AtNumber') <= Cardinality(AtNumber)
  BY <1>1, FS_Subset DEF QScanInv
<1>3. /\ Cardinality(AtNumber) \in Nat /\ Cardinality(AtNumber') \in Nat
      /\ posts \in Nat /\ qscanptr \in Nat
  BY <1>2, FS_CardinalityType, BoundAssumption DEF QScanInv, Types
<1> QED BY <1>2, <1>3 DEF QScanInv

\* What a step of p does to the lock, to its post, and to the numbers.
Ordinary(p) ==
  /\ Alone(p) /\ MayWrite(p)
  /\ \/ lock' = lock /\ (pc[p] \in Holds <=> pc'[p] \in Holds)
     \/ lock = Nobody /\ lock' = p /\ pc'[p] \in Holds
     \/ lock' = (IF lock = p THEN Nobody ELSE lock) /\ pc'[p] \notin Holds
Counted(p) ==
  /\ posts' = posts /\ qscanptr' = qscanptr /\ pc'[p] # "number"
  /\ \/ cur'[p] = NoPost
     \/ cur'[p].id = cur[p].id /\ cur[p] # NoPost
     \/ cur'[p] = cur[p]

LEMMA NodeStep ==
  ASSUME Types, Stages, NEW i \in Nodes, Ordinary(i), NodeAt(i)'
  PROVE  /\ LockInv' /\ NodeStage' /\ ToolStage'
         /\ Counted(i) => Stages'
<1>1. i \in Programs /\ i # Tool
  BY ProgramsFacts
<1>2. LockInv'
  BY <1>1, LockSteps DEF Ordinary, Stages
<1>3. NodeStage'
  BY <1>1, NodesStay DEF Ordinary, Stages, NodeStage
<1>4. ToolStage'
  BY <1>1, ToolStays DEF Ordinary, Stages
<1>5. Counted(i) => CurInv' /\ QScanInv'
  BY <1>1, CurStays, QScanStays DEF Counted, Ordinary, Stages
<1> QED BY <1>2, <1>3, <1>4, <1>5 DEF Stages

LEMMA ToolStep ==
  ASSUME Types, Stages, Ordinary(Tool), ToolStage'
  PROVE  /\ LockInv' /\ NodeStage' /\ ToolStage'
         /\ Counted(Tool) => Stages'
<1>1. Tool \in Programs /\ \A j \in Nodes : j # Tool
  BY ProgramsFacts
<1>2. LockInv'
  BY <1>1, LockSteps DEF Ordinary, Stages
<1>3. NodeStage'
  BY <1>1, NodesStay DEF Ordinary, Stages, NodeStage
<1>5. Counted(Tool) => CurInv' /\ QScanInv'
  BY <1>1, CurStays, QScanStays DEF Counted, Ordinary, Stages
<1> QED BY <1>2, <1>3, <1>5 DEF Stages

\* Every step keeps the lock and what the programs have in hand.
LEMMA NextStages ==
  ASSUME Unspoiled, Unspoiled', ControlInv, IdInv, TextInv, Next
  PROVE  Stages'
<1> USE DEF bounds, ghosts, files, Goes, Holds, NodeHolds, ToolHolds
<1>0. Types /\ Stages /\ \A i \in Nodes : i \in Programs /\ NodeAt(i)
  BY ProgramsFacts DEF ControlInv, Stages, NodeStage
<1>1. ASSUME NEW i \in Nodes, NEW n \in Numbers, Read(i, n) PROVE Stages'
  <2>1. Ordinary(i) /\ Counted(i)
    BY <1>0, <1>1 DEF Read, Ordinary, Counted, Alone, MayWrite, Types
  <2>2. NodeAt(i)'
    BY <1>0, <1>1 DEF Read, NodeAt, Types
  <2> QED BY <1>0, <2>1, <2>2, NodeStep
<1>2. ASSUME NEW i \in Nodes, SaveFile(i) PROVE Stages'
  <2>10. /\ pc[i] = "idle" /\ pc' = [pc EXCEPT ![i] = "number"]
         /\ posts < MaxPosts /\ posts' = posts + 1
         /\ UNCHANGED <<count, recs, qscanptr, lock, number, shown, total>>
    BY <1>2, SaveFileIs
  <2>0. posts + 1 \in 0..MaxPosts /\ posts \in Nat /\ qscanptr \in Nat
    BY <1>0, <2>10, BoundAssumption DEF Types
  <2>1. PICK size, gati : /\ SavesText(size, gati, posts + 1)
                          /\ cur' = [cur EXCEPT ![i] = Post(posts + 1, 0, Min(gati), size)]
    BY <1>2, SaveFileIs
  <2>2. Min(gati) \in 1..Blocks
    BY <1>0, <2>0, <2>1, SavesType
  <2>3. cur'[i].link # 0 /\ cur'[i].id = posts + 1
    BY <1>0, <2>1, <2>2 DEF Types, Post
  <2>4. Ordinary(i)
    BY <1>0, <2>10, <2>1 DEF Ordinary, Alone, MayWrite, Types
  <2>5. NodeAt(i)'
    BY <1>0, <2>10, <2>3 DEF NodeAt, Types
  <2>6. CurInv'
    BY <1>0, <2>10, <2>3, <2>4, CurNew DEF Ordinary, Stages
  <2>7. AtNumber' = AtNumber \cup {i} /\ i \notin AtNumber
    BY <1>0, <2>10 DEF AtNumber, Types
  <2>8. /\ IsFiniteSet(AtNumber') /\ Cardinality(AtNumber') = Cardinality(AtNumber) + 1
        /\ Cardinality(AtNumber) \in Nat
    BY <1>0, <2>7, FS_AddElement, FS_CardinalityType DEF Stages, QScanInv
  <2>9. QScanInv'
    BY <1>0, <2>10, <2>0, <2>8 DEF QScanInv, Stages
  <2> QED BY <1>0, <2>4, <2>5, <2>6, <2>9, NodeStep DEF Stages
<1>3. ASSUME NEW i \in Nodes, NumberPost(i) PROVE Stages'
  <2>0. posts \in Nat /\ qscanptr \in Nat
    BY <1>0, BoundAssumption DEF Types
  <2>1. cur'[i] = [cur[i] EXCEPT !.qscan = qscanptr]
    BY <1>0, <1>3 DEF NumberPost, Types
  <2>2. cur'[i].id = cur[i].id /\ cur'[i].link = cur[i].link /\ cur[i] # NoPost
    BY <1>0, <1>3, <2>1, NoPostFacts DEF NumberPost, Types, Rec, NodeAt
  <2>4. Ordinary(i)
    BY <1>0, <1>3 DEF NumberPost, Ordinary, Alone, MayWrite, Types
  <2>5. NodeAt(i)'
    BY <1>0, <1>3, <2>2 DEF NumberPost, NodeAt, Types
  <2>6. CurInv'
    BY <1>0, <1>3, <2>2, <2>4, CurStays DEF NumberPost, Ordinary, Stages
  <2>7. AtNumber' = AtNumber \ {i} /\ i \in AtNumber
    BY <1>0, <1>3 DEF NumberPost, AtNumber, Types
  <2>8. /\ IsFiniteSet(AtNumber') /\ Cardinality(AtNumber') = Cardinality(AtNumber) - 1
        /\ Cardinality(AtNumber) \in Nat
    BY <1>0, <2>7, FS_RemoveElement, FS_CardinalityType DEF Stages, QScanInv
  <2>9. QScanInv'
    BY <1>0, <1>3, <2>0, <2>8 DEF NumberPost, QScanInv, Stages
  <2> QED BY <1>0, <2>4, <2>5, <2>6, <2>9, NodeStep DEF Stages
<1>4. ASSUME NEW i \in Nodes, OpenToPost(i) PROVE Stages'
  <2>1. Ordinary(i) /\ Counted(i)
    BY <1>0, <1>4 DEF OpenToPost, Opens, Ordinary, Counted, Alone, MayWrite, Types
  <2>2. count >= MaxMsgs => 1 \in 1..count
    BY <1>0, SizesAssumption DEF Types
  <2>3. cur[i] # NoPost /\ cur[i].link # 0
    BY <1>0, <1>4, NoPostFacts DEF OpenToPost, NodeAt
  <2>4. NodeAt(i)'
    BY <1>0, <1>4, <2>2, <2>3 DEF OpenToPost, NodeAt, Victim, Types
  <2> QED BY <1>0, <2>1, <2>4, NodeStep
<1>5. ASSUME NEW i \in Nodes, GoesToShift(i) PROVE Stages'
  <2>1. Ordinary(i) /\ Counted(i)
    BY <1>0, <1>5, ProgramsFacts DEF GoesToShift, Ordinary, Counted, Alone, MayWrite, Types
  <2>2. NodeAt(i)'
    BY <1>0, <1>5, ProgramsFacts DEF GoesToShift, NodeAt, Victim, Types
  <2> QED BY <1>0, <2>1, <2>2, NodeStep
<1>6. ASSUME NEW i \in Nodes, ShiftDown(i) PROVE Stages'
  <2>1. Ordinary(i) /\ Counted(i)
    BY <1>0, <1>6 DEF ShiftDown, Ordinary, Counted, Alone, MayWrite, Types
  <2>2. NodeAt(i)'
    BY <1>0, <1>6 DEF ShiftDown, NodeAt, Types
  <2> QED BY <1>0, <2>1, <2>2, NodeStep
<1>7. ASSUME NEW i \in Nodes, WriteCount(i) PROVE Stages'
  <2>1. Ordinary(i) /\ Counted(i)
    BY <1>0, <1>7 DEF WriteCount, Ordinary, Counted, Alone, MayWrite, Types
  <2>2. count' > 0
    BY <1>0, <1>7, BoundAssumption DEF WriteCount, Types
  <2>3. NodeAt(i)'
    BY <1>0, <1>7, <2>2 DEF WriteCount, NodeAt, Types
  <2> QED BY <1>0, <2>1, <2>3, NodeStep
<1>8. ASSUME NEW i \in Nodes, WriteRecord(i) PROVE Stages'
  <2>1. Ordinary(i) /\ Counted(i)
    BY <1>0, <1>8 DEF WriteRecord, Forgets, Ordinary, Counted, Alone, MayWrite, Types
  <2>2. NodeAt(i)'
    BY <1>0, <1>8 DEF WriteRecord, Forgets, NodeAt, Types
  <2> QED BY <1>0, <2>1, <2>2, NodeStep
<1>9. ASSUME NEW i \in Nodes, CloseSub(i) PROVE Stages'
  <2>0. lock = i
    BY <1>0, <1>9 DEF CloseSub, Stages, LockInv
  <2>1. Ordinary(i) /\ Counted(i)
    BY <1>0, <1>9, <2>0 DEF CloseSub, Returns, Ordinary, Counted, Alone, MayWrite, Types
  <2>2. NodeAt(i)'
    BY <1>0, <1>9 DEF CloseSub, Returns, NodeAt, Types
  <2> QED BY <1>0, <2>1, <2>2, NodeStep
<1>10. ASSUME NEW i \in Nodes, ResynchShown(i) PROVE Stages'
  <2>1. Ordinary(i) /\ Counted(i)
    BY <1>0, <1>10 DEF ResynchShown, Ordinary, Counted, Alone, MayWrite, Types
  <2>2. NodeAt(i)'
    BY <1>0, <1>10 DEF ResynchShown, NodeAt, Types
  <2> QED BY <1>0, <2>1, <2>2, NodeStep
<1>11. ASSUME NEW i \in Nodes, DeleteShown(i) PROVE Stages'
  <2>1. Ordinary(i) /\ Counted(i)
    BY <1>0, <1>11 DEF DeleteShown, Opens, Ordinary, Counted, Alone, MayWrite, Types
  <2>2. NodeAt(i)'
    BY <1>0, <1>11 DEF DeleteShown, NodeAt, Victim, Types
  <2> QED BY <1>0, <2>1, <2>2, NodeStep
<1>12. ASSUME NEW i \in Nodes, OpenToPack(i) PROVE Stages'
  <2>1. Ordinary(i) /\ Counted(i)
    BY <1>0, <1>12 DEF OpenToPack, Opens, Ordinary, Counted, Alone, MayWrite, Types
  <2>2. NodeAt(i)'
    BY <1>0, <1>12 DEF OpenToPack, NodeAt, Types
  <2> QED BY <1>0, <2>1, <2>2, NodeStep
<1>13. ASSUME NEW i \in Nodes, PackCopy(i) PROVE Stages'
  <2>1. Ordinary(i) /\ Counted(i)
    BY <1>0, <1>13 DEF PackCopy, Ordinary, Counted, Alone, MayWrite, Types
  <2>2. NodeAt(i)'
    BY <1>0, <1>13 DEF PackCopy, NodeAt, Types
  <2> QED BY <1>0, <2>1, <2>2, NodeStep
<1>14. ASSUME NEW i \in Nodes, PackRename(i) PROVE Stages'
  <2>1. Ordinary(i) /\ Counted(i)
    BY <1>0, <1>14 DEF PackRename, Ordinary, Counted, Alone, MayWrite, Types
  <2>2. NodeAt(i)'
    BY <1>0, <1>14 DEF PackRename, NodeAt, Types
  <2> QED BY <1>0, <2>1, <2>2, NodeStep
<1>15. ASSUME ToolNumber PROVE Stages'
  <2>0. posts \in Nat /\ qscanptr \in Nat
    BY <1>0, BoundAssumption DEF Types
  <2>1. cur'[Tool] = Post(posts + 1, qscanptr, 0, 0)
    BY <1>0, <1>15, ProgramsFacts DEF ToolNumber, Types
  <2>2. cur'[Tool].link = 0 /\ cur'[Tool].id = posts + 1 /\ posts + 1 # 0
    BY <2>0, <2>1 DEF Post
  <2>3. Ordinary(Tool)
    BY <1>0, <1>15, ProgramsFacts DEF ToolNumber, Ordinary, Alone, MayWrite, Types
  <2>4. ToolStage'
    BY <1>0, <1>15, <2>2, ProgramsFacts DEF ToolNumber, Stages, ToolStage, Types
  <2>5. CurInv'
    BY <1>0, <1>15, <2>2, <2>3, CurNew, ProgramsFacts DEF ToolNumber, Ordinary, Stages
  <2>6. AtNumber' = AtNumber
    BY <1>0, <1>15, ProgramsFacts DEF ToolNumber, AtNumber, Types
  <2>7. Cardinality(AtNumber) \in Nat
    BY <1>0, FS_CardinalityType DEF Stages, QScanInv
  <2>8. QScanInv'
    BY <1>0, <1>15, <2>0, <2>6, <2>7 DEF ToolNumber, QScanInv, Stages
  <2> QED BY <1>0, <2>3, <2>4, <2>5, <2>8, ToolStep DEF Stages
<1>16. ASSUME ToolSave PROVE Stages'
  <2>1. cur[Tool] \in Rec
    BY <1>0, ProgramsFacts DEF Types
  <2>2. cur[Tool].id \in 0..MaxPosts /\ cur[Tool].id # 0
    BY <1>0, <1>16, <2>1 DEF Rec, ToolSave, Stages, ToolStage
  <2>3. PICK size, gati :
          /\ SavesText(size, gati, cur[Tool].id)
          /\ cur' = [cur EXCEPT ![Tool] = Post(cur[Tool].id, cur[Tool].qscan, Min(gati), size)]
    BY <1>16 DEF ToolSave, SavesText
  <2>4. Min(gati) \in 1..Blocks
    BY <1>0, <2>2, <2>3, SavesType
  <2>5. cur'[Tool].link # 0 /\ cur'[Tool].id = cur[Tool].id /\ cur[Tool] # NoPost
    BY <1>0, <2>2, <2>3, <2>4, ProgramsFacts, NoPostFacts DEF Types, Post
  <2>6. Ordinary(Tool)
    BY <1>0, <1>16, <2>3, ProgramsFacts DEF ToolSave, Ordinary, Alone, MayWrite, Types
  <2>7. Counted(Tool)
    BY <1>0, <1>16, <2>5, ProgramsFacts DEF ToolSave, Counted, Types
  <2>8. ToolStage'
    BY <1>0, <1>16, <2>5, ProgramsFacts DEF ToolSave, Stages, ToolStage, Types
  <2> QED BY <1>0, <2>6, <2>7, <2>8, ToolStep
<1>17. ASSUME ToolOpen PROVE Stages'
  <2>1. Ordinary(Tool) /\ Counted(Tool)
    BY <1>0, <1>17, ProgramsFacts DEF ToolOpen, Opens, Ordinary, Counted, Alone, MayWrite, Types
  <2>2. ToolStage'
    BY <1>0, <1>17, ProgramsFacts DEF ToolOpen, Opens, Stages, ToolStage, Types
  <2> QED BY <1>0, <2>1, <2>2, ToolStep
<1>18. ASSUME ToolRecord PROVE Stages'
  <2>1. Ordinary(Tool) /\ Counted(Tool)
    BY <1>0, <1>18, ProgramsFacts DEF ToolRecord, Ordinary, Counted, Alone, MayWrite, Types
  <2>2. count + 1 \in Numbers
    BY <1>0, BoundAssumption DEF Types, Numbers
  <2>3. ToolStage'
    BY <1>0, <1>18, <2>2, ProgramsFacts DEF ToolRecord, Stages, ToolStage, Types
  <2> QED BY <1>0, <2>1, <2>3, ToolStep
<1>19. ASSUME ToolHeader PROVE Stages'
  <2>0. lock = Tool
    BY <1>0, <1>19, ProgramsFacts DEF ToolHeader, Stages, LockInv
  <2>1. Ordinary(Tool) /\ Counted(Tool)
    BY <1>0, <1>19, <2>0, ProgramsFacts
    DEF ToolHeader, Forgets, Ordinary, Counted, Alone, MayWrite, Types
  <2>2. ToolStage'
    BY <1>0, <1>19, ProgramsFacts DEF ToolHeader, Forgets, Stages, ToolStage, Types
  <2> QED BY <1>0, <2>1, <2>2, ToolStep
<1>20. ASSUME NEW n \in Numbers, ToolCount(n) PROVE Stages'
  <2>1. Ordinary(Tool) /\ Counted(Tool)
    BY <1>0, <1>20, ProgramsFacts DEF ToolCount, Ordinary, Counted, Alone, MayWrite, Types
  <2>2. ToolStage'
    BY <1>0, <1>20, ProgramsFacts DEF ToolCount, Stages, ToolStage, Types, Numbers
  <2> QED BY <1>0, <2>1, <2>2, ToolStep
<1>21. ASSUME ToolDelete PROVE Stages'
  <2>1. Ordinary(Tool) /\ Counted(Tool)
    BY <1>0, <1>21, ProgramsFacts DEF ToolDelete, Opens, Ordinary, Counted, Alone, MayWrite, Types
  <2>2. ToolStage'
    BY <1>0, <1>21, ProgramsFacts DEF ToolDelete, Opens, Stages, ToolStage, Types
  <2> QED BY <1>0, <2>1, <2>2, ToolStep
<1>22. ASSUME ToolShift PROVE Stages'
  <2>0. lock = Tool
    BY <1>0, <1>22, ProgramsFacts DEF ToolShift, Stages, LockInv
  <2>1. Ordinary(Tool) /\ Counted(Tool)
    BY <1>0, <1>22, <2>0, ProgramsFacts
    DEF ToolShift, Ordinary, Counted, Alone, MayWrite, Types
  <2>2. ToolStage'
    BY <1>0, <1>22, ProgramsFacts DEF ToolShift, Stages, ToolStage, Types
  <2> QED BY <1>0, <2>1, <2>2, ToolStep
<1>23. ASSUME GoesToShift(Tool) PROVE Stages'
  <2>1. Ordinary(Tool) /\ Counted(Tool)
    BY <1>0, <1>23, ProgramsFacts DEF GoesToShift, Ordinary, Counted, Alone, MayWrite, Types
  <2>2. ToolStage'
    BY <1>0, <1>23, ProgramsFacts DEF GoesToShift, Stages, NodeStage, NodeAt, ToolStage, Types
  <2> QED BY <1>0, <2>1, <2>2, ToolStep
<1>24. ASSUME NEW p \in Programs, GiveUp(p) PROVE Stages'
  <2>1. Ordinary(p) /\ Counted(p)
    BY <1>0, <1>24 DEF GiveUp, Returns, Forgets, Ordinary, Counted, Alone, MayWrite, Types
  <2>2. p \in Nodes => NodeAt(p)'
    BY <1>0, <1>24 DEF GiveUp, Returns, Forgets, NodeAt, Types
  <2>3. p = Tool => ToolStage'
    BY <1>0, <1>24 DEF GiveUp, Returns, Forgets, Stages, ToolStage, Types
  <2> QED BY <1>0, <2>1, <2>2, <2>3, NodeStep, ToolStep DEF Programs
<1>25. ASSUME NEW p \in Programs, Dies(p) PROVE Stages'
  <2>1. Ordinary(p) /\ Counted(p)
    BY <1>0, <1>25 DEF Dies, Forgets, Ordinary, Counted, Alone, MayWrite, Types
  <2>2. p \in Nodes => NodeAt(p)'
    BY <1>0, <1>25 DEF Dies, Forgets, NodeAt, Types
  <2>3. p = Tool => ToolStage'
    BY <1>0, <1>25 DEF Dies, Forgets, Stages, ToolStage, Types
  <2> QED BY <1>0, <2>1, <2>2, <2>3, NodeStep, ToolStep DEF Programs
<1>26. ASSUME NEW i \in Nodes, ReadText(i) PROVE Stages'
  <2>1. Ordinary(i) /\ Counted(i)
    BY <1>0, <1>26 DEF ReadText, Ordinary, Counted, Alone, MayWrite, Types
  <2>2. NodeAt(i)'
    BY <1>0, <1>26 DEF ReadText, NodeAt, Types
  <2> QED BY <1>0, <2>1, <2>2, NodeStep
<1>27. ASSUME NEW i \in Nodes, PackRemove(i) PROVE Stages'
  <2>1. Ordinary(i) /\ Counted(i)
    BY <1>0, <1>27 DEF PackRemove, Ordinary, Counted, Alone, MayWrite, Types
  <2>2. NodeAt(i)'
    BY <1>0, <1>27 DEF PackRemove, NodeAt, Types
  <2> QED BY <1>0, <2>1, <2>2, NodeStep
<1>28. ASSUME NEW p \in Programs, RemoveLink(p) PROVE GoesToShift(p)
  BY <1>28 DEF RemoveLink
<1>29. ASSUME NEW i \in Nodes, RemoveNoLink(i) PROVE GoesToShift(i)
  BY <1>29 DEF RemoveNoLink
<1>30. \A i \in Nodes : ~SaveNothing(i)
  BY SaveNothingNot
<1> QED
  BY <1>0, <1>1, <1>2, <1>3, <1>4, <1>5, <1>6, <1>7, <1>8, <1>9, <1>10, <1>11, <1>12, <1>13, <1>14,
     <1>15, <1>16, <1>17, <1>18, <1>19, <1>20, <1>21, <1>22, <1>23, <1>24, <1>25, <1>26, <1>27,
     <1>28, <1>29, <1>30, ProgramsFacts
  DEF Next, Node, Wwivutil, Crash, ToolDies

-----------------------------------------------------------------------------
(* The posts in the list.                                                  *)

\* A program is about to write a record into a counted place, or is not.
LEMMA FilledStays ==
  ASSUME NEW p \in Programs, Alone(p), pc[p] # "record", pc'[p] # "record", count' = count
  PROVE  Filled' = Filled
<1>1. Recording' = Recording
  BY ProgramsFacts DEF Recording, Alone
<1> QED BY <1>1 DEF Filled

\* The program that has the .sub file open is the only one at such a place.
LEMMA HolderFacts ==
  ASSUME Types, Stages, NEW p \in Programs, pc[p] \in Holds
  PROVE  /\ \A q \in Programs : q # p => pc[q] \notin Holds
         /\ pc[p] # "record" => Recording = {} /\ Filled = count
         /\ pc[p] \notin {"shift", "toolShift"} => Shifting = {} /\ \A k : ~Removed(k)
         /\ pc[p] \notin {"remove", "rename"} => Renaming = {}
         /\ pc[p] # "toolShift" => ~Doomed
<1>1. \A q \in Programs : q # p => pc[q] \notin Holds
  BY OneHolder DEF Stages
<1>2. {"record", "shift", "toolShift", "remove", "rename"} \subseteq Holds
  BY DEF Holds, NodeHolds, ToolHolds
<1>3. pc[p] # "record" => Recording = {}
  BY <1>1, <1>2, ProgramsFacts DEF Recording
<1>4. pc[p] \notin {"shift", "toolShift"} => Shifting = {}
  BY <1>1, <1>2 DEF Shifting
<1>5. pc[p] \notin {"remove", "rename"} => Renaming = {}
  BY <1>1, <1>2, ProgramsFacts DEF Renaming
<1>6. pc[p] # "toolShift" => ~Doomed
  BY <1>1, <1>2, ProgramsFacts DEF Doomed
<1> QED BY <1>1, <1>3, <1>4, <1>5, <1>6 DEF Filled, Removed

\* The same posts in the list, perhaps a new one on its way.
LEMMA IdsSame ==
  ASSUME Types, IdInv, NEW p \in Programs, Alone(p),
         Filled' = Filled, \A k \in 1..Filled : recs'[k].id = recs[k].id,
         posts' \in {posts, posts + 1}, posted' = posted, deleted' = deleted,
         cur'[p].id \in {cur[p].id, 0, posts + 1}
  PROVE  IdInv' /\ Ids' = Ids
<1>1. posts \in Nat /\ posts' \in Nat
  BY BoundAssumption DEF Types
<1>2. \A n \in 1..posts : n \in 1..posts' /\ n # 0 /\ n # posts + 1
  BY <1>1
<1>3. Ids' = Ids
  BY DEF Ids
<1>4. \A q \in Programs : cur'[q].id \notin posted
  BY <1>2 DEF IdInv, Alone
<1> QED BY <1>2, <1>3, <1>4 DEF IdInv

\* A post has been added.
LEMMA IdsAdded ==
  ASSUME Types, CurInv, IdInv, NEW p \in Programs, Alone(p), cur[p].id # 0, Filled \in Nat,
         Filled' = Filled + 1, \A k \in 1..Filled : recs'[k] = recs[k],
         recs'[Filled + 1] = cur[p], cur'[p] = NoPost,
         posts' = posts, posted' = posted \cup {cur[p].id}, deleted' = deleted
  PROVE  IdInv' /\ Ids' = Ids \cup {cur[p].id}
<1>1. PICK new : new = cur[p].id
  OBVIOUS
<1>2. new \in 1..posts /\ new \notin posted
  BY <1>1, CurFacts DEF IdInv
<1>3. PICK last \in Nat : last = Filled
  OBVIOUS
<1>4. \A k \in 1..last + 1 : k \in 1..last \/ k = last + 1
  OBVIOUS
<1>5. \A k \in 1..last : k \in 1..last + 1 /\ k # last + 1
  OBVIOUS
<1>6. last + 1 \in 1..last + 1
  OBVIOUS
<1>7. /\ Filled' = last + 1 /\ recs'[last + 1].id = new
      /\ \A k \in 1..last : recs'[k].id = recs[k].id
  BY <1>1, <1>3
<1>8. Ids' = Ids \cup {new}
  BY <1>3, <1>4, <1>5, <1>6, <1>7 DEF Ids
<1>9. \A k \in 1..last : recs[k].id \in 1..posts /\ recs[k].id # new
  BY <1>2, <1>3 DEF IdInv, Ids
<1>10. \A k \in 1..last + 1 : recs'[k].id \in 1..posts
  BY <1>2, <1>4, <1>7, <1>9
<1>11. \A j, k \in 1..last + 1 : j # k => recs'[j].id # recs'[k].id
  <2>1. \A j, k \in 1..last : j # k => recs[j].id # recs[k].id
    BY <1>3 DEF IdInv
  <2> QED BY <1>4, <1>7, <1>9, <2>1
<1>12. \A q \in Programs : cur'[q].id \notin posted'
  <2>1. cur'[p].id = 0 /\ 0 \notin posted /\ 0 # new
    BY <1>2, NoPostFacts DEF IdInv, Types
  <2>2. \A q \in Programs : q # p => cur[q].id # new
    BY <1>1 DEF CurInv
  <2> QED BY <1>1, <2>1, <2>2 DEF IdInv, Alone
<1>13. Ids' = posted' \ deleted'
  BY <1>1, <1>2, <1>8 DEF IdInv
<1>14. posted' \subseteq 1..posts' /\ deleted' \subseteq posted'
  BY <1>1, <1>2 DEF IdInv
<1> QED BY <1>1, <1>7, <1>8, <1>10, <1>11, <1>12, <1>13, <1>14 DEF IdInv

\* A post has been removed, and the later ones have moved down.
LEMMA IdsRemoved ==
  ASSUME Types, IdInv, Recording = {}, Recording' = {}, NEW v \in 1..count,
         count' = count - 1, recs' = Shifted(v, count), cur' = cur,
         posts' = posts, posted' = posted, deleted' = deleted \cup {recs[v].id}
  PROVE  /\ IdInv' /\ Ids' = Ids \ {recs[v].id}
         /\ Filled' = count - 1
         /\ \A k \in 1..Filled' :
              \E j \in 1..count : j # v /\ k <= j /\ recs'[k] = recs[j]
<1>1. MaxPosts \in Nat /\ count \in 0..MaxPosts /\ count \in Nat
  BY BoundAssumption DEF Types
<1>2. Filled = count /\ Filled' = count - 1
  BY DEF Filled
<1>3. PICK up : up = [k \in 1..count - 1 |-> IF k >= v THEN k + 1 ELSE k]
  OBVIOUS
<1>4. \A k \in 1..count - 1 : up[k] = IF k >= v THEN k + 1 ELSE k
  BY <1>3
<1>5. \A k \in 1..count - 1 : up[k] \in 1..count /\ up[k] # v /\ k <= up[k]
  BY <1>1, <1>4
<1>6. \A j, k \in 1..count - 1 : j # k => up[j] # up[k]
  BY <1>1, <1>4
<1>7. ASSUME NEW j \in 1..count, j # v PROVE \E k \in 1..count - 1 : up[k] = j
  <2>1. CASE j < v
    <3>1. j \in 1..count - 1 /\ ~(j >= v)
      BY <1>1, <2>1
    <3> QED BY <1>4, <3>1
  <2>2. CASE j > v
    <3>1. j - 1 \in 1..count - 1 /\ j - 1 >= v /\ (j - 1) + 1 = j
      BY <1>1, <2>2
    <3> QED BY <1>4, <3>1
  <2> QED BY <1>1, <1>7, <2>1, <2>2
<1>8. \A k \in 1..count - 1 : recs'[k] = recs[up[k]]
  <2>1. \A k \in 1..count - 1 : k \in Numbers /\ k < count
    BY <1>1 DEF Numbers
  <2>2. \A k \in Numbers : recs'[k] = IF k >= v /\ k < count THEN recs[k + 1] ELSE recs[k]
    BY DEF Shifted
  <2> QED BY <1>4, <2>1, <2>2
<1>9. Ids' = Ids \ {recs[v].id}
  <2>1. ASSUME NEW x \in Ids' PROVE x \in Ids \ {recs[v].id}
    <3>1. PICK k \in 1..count - 1 : x = recs'[k].id
      BY <1>2 DEF Ids
    <3>2. x = recs[up[k]].id
      BY <1>8, <3>1
    <3> QED BY <1>2, <1>5, <3>2 DEF Ids, IdInv
  <2>2. ASSUME NEW x \in Ids, x # recs[v].id PROVE x \in Ids'
    <3>1. PICK j \in 1..count : x = recs[j].id
      BY <1>2 DEF Ids
    <3>2. j # v
      BY <2>2, <3>1
    <3>3. PICK k \in 1..count - 1 : up[k] = j
      BY <1>7, <3>2
    <3>4. recs'[k].id = x
      BY <1>8, <3>1, <3>3
    <3> QED BY <1>2, <3>4 DEF Ids
  <2> QED BY <2>1, <2>2
<1>10. recs[v].id \in posted
  BY <1>2 DEF IdInv, Ids
<1>11. \A k \in 1..count - 1 : recs'[k].id \in 1..posts
  BY <1>2, <1>5, <1>8 DEF IdInv
<1>12. \A j, k \in 1..count - 1 : j # k => recs'[j].id # recs'[k].id
  BY <1>2, <1>5, <1>6, <1>8 DEF IdInv
<1>13. IdInv'
  BY <1>2, <1>9, <1>10, <1>11, <1>12 DEF IdInv
<1> QED BY <1>2, <1>5, <1>8, <1>9, <1>13

-----------------------------------------------------------------------------
(* The texts.                                                              *)

\* Once wwivutil has removed a text by a stale number of posts, only its next
\* step ends that.
LEMMA DoomStays ==
  ASSUME Types, Stages, NEW p \in Programs, Alone(p), MayWrite(p), pc[p] # "toolShift", Doomed
  PROVE  Doomed'
<1>1. p # Tool /\ pc[Tool] \in Holds
  BY DEF Doomed, Holds, ToolHolds
<1>2. pc[p] \notin Holds
  BY <1>1, HolderFacts, ProgramsFacts
<1>3. count' = count /\ pc'[Tool] = pc[Tool] /\ total'[Tool] = total[Tool]
  BY <1>1, <1>2, ProgramsFacts DEF MayWrite, Alone
<1> QED BY <1>3 DEF Doomed

\* A step that is not about a delete or a pack, and leaves the list as it is.
Elsewhere(p) == {pc[p], pc'[p]} \cap {"shift", "toolShift", "remove", "rename"} = {}

\* The same posts are kept.
LEMMA KeptStays ==
  ASSUME NEW p \in Programs, Alone(p), Elsewhere(p),
         Filled' = Filled, \A k \in 1..Filled : recs'[k].id = recs[k].id
  PROVE  /\ Renaming' = Renaming /\ \A k : Removed(k)' <=> Removed(k)
         /\ Kept' = Kept /\ Kept \subseteq Ids
<1>1. Renaming' = Renaming /\ Shifting' = Shifting /\ p \notin Shifting
  BY ProgramsFacts DEF Renaming, Shifting, Alone, Elsewhere
<1>2. \A k : Removed(k)' <=> Removed(k)
  <2>1. \A q \in Shifting : Victim(q)' = Victim(q)
    BY <1>1 DEF Victim, Alone, Shifting
  <2> QED BY <1>1, <2>1 DEF Removed
<1>3. Kept' = Kept
  BY <1>2 DEF Kept
<1> QED BY <1>1, <1>2, <1>3 DEF Kept, Ids

\* All are kept while nobody deletes.
LEMMA KeptAll ==
  ASSUME \A k : ~Removed(k) PROVE Kept = Ids
BY DEF Kept, Ids

LEMMA ListStays ==
  ASSUME NEW p \in Programs, Alone(p), Elsewhere(p), ListInv, PackInv,
         packtmp' = packtmp, Filled' = Filled, Ids' = Ids,
         \A k \in 1..Filled : recs'[k] = recs[k],
         \A k \in 1..Filled : HasText(dat, recs[k]) => HasText(dat', recs[k])
  PROVE  ListInv' /\ PackInv'
<1>1. Renaming' = Renaming /\ \A k : Removed(k)' <=> Removed(k)
  BY KeptStays
<1>2. ListInv'
  BY <1>1 DEF ListInv
<1>3. PackInv'
  BY <1>1 DEF PackInv
<1> QED BY <1>2, <1>3

\* The .dat file as it was, or created.
SameTexts == dat' = dat \/ (dat'.gat = dat.gat /\ dat'.text = dat.text /\ dat'.there)

LEMMA TextsStay ==
  ASSUME SameTexts
  PROVE  /\ Used(dat') = Used(dat) /\ \A b : dat'.text[b] = dat.text[b]
         /\ \A id : TextOf(dat', id) = TextOf(dat, id)
         /\ Linked(dat) => Linked(dat')
         /\ Absent(dat) => Absent(dat')
         /\ \A q : HasText(dat, q) => HasText(dat', q)
<1>1. dat'.gat = dat.gat /\ dat'.text = dat.text /\ (dat' = dat \/ dat'.there)
  BY DEF SameTexts
<1>2. Used(dat') = Used(dat)
  BY <1>1 DEF Used
<1>3. \A id : TextOf(dat', id) = TextOf(dat, id)
  BY <1>1, <1>2 DEF TextOf
<1>4. Linked(dat) => Linked(dat')
  BY <1>1, <1>2, <1>3 DEF Linked
<1>5. Absent(dat) => Absent(dat')
  BY <1>1 DEF Absent
<1>6. \A q : HasText(dat, q) => HasText(dat', q)
  BY <1>1, <1>3 DEF HasText
<1> QED BY <1>1, <1>2, <1>3, <1>4, <1>5, <1>6

\* Steps that leave the posts and the texts as they are.
Quiet(p) ==
  /\ Alone(p) /\ MayWrite(p) /\ Elsewhere(p) /\ SameTexts
  /\ Filled' = Filled /\ \A k \in 1..Filled : recs'[k] = recs[k]
  /\ UNCHANGED <<packtmp, posts, posted, deleted, leaked>>
  /\ cur'[p].id = cur[p].id /\ cur'[p].link = cur[p].link /\ cur'[p].size = cur[p].size

LEMMA QuietStep ==
  ASSUME Types, Stages, IdInv, TextInv, NEW p \in Programs, Quiet(p)
  PROVE  IdInv' /\ TextInv'
<1>1. IdInv' /\ Ids' = Ids /\ Kept' = Kept
  BY IdsSame, KeptStays DEF Quiet
<1>2. ASSUME ~Doomed' PROVE DatInv' /\ ListInv' /\ PackInv'
  <2>1. DatInv /\ ListInv /\ PackInv
    <3>1. pc[p] # "toolShift"
      BY DEF Quiet, Elsewhere
    <3> QED BY <1>2, <3>1, DoomStays DEF TextInv, Quiet
  <2>2. \A q \in Programs : /\ cur'[q].id = cur[q].id /\ cur'[q].link = cur[q].link
                            /\ cur'[q].size = cur[q].size
    BY DEF Quiet, Alone
  <2>3. Owned' = Owned
    BY <1>1, <2>2 DEF Owned
  <2>4. /\ Used(dat') = Used(dat) /\ \A b : dat'.text[b] = dat.text[b]
        /\ \A id : TextOf(dat', id) = TextOf(dat, id)
        /\ Linked(dat') /\ Absent(dat')
        /\ \A q : HasText(dat, q) => HasText(dat', q)
    BY <2>1, TextsStay DEF Quiet, DatInv
  <2>5. \A q \in Programs : HasText(dat, cur[q]) => HasText(dat', cur'[q])
    <3>1. \A q \in Programs : HasText(dat', cur[q]) => HasText(dat', cur'[q])
      BY <2>2 DEF HasText
    <3> QED BY <2>4, <3>1
  <2>6. DatInv'
    BY <2>1, <2>2, <2>3, <2>4, <2>5 DEF DatInv, Quiet
  <2> QED BY <1>1, <2>1, <2>4, <2>6, ListStays DEF Quiet
<1> QED BY <1>1, <1>2 DEF TextInv

\* A new post gets its id, and has no text yet.
LEMMA NewStep ==
  ASSUME Types, Stages, IdInv, TextInv, NEW p \in Programs, Alone(p), MayWrite(p), Elsewhere(p),
         Filled' = Filled, recs' = recs,
         UNCHANGED <<dat, packtmp, posted, deleted, leaked>>,
         posts' = posts + 1, cur[p] = NoPost, cur'[p].id = posts + 1, cur'[p].link = 0
  PROVE  IdInv' /\ TextInv'
<1>1. IdInv' /\ Ids' = Ids /\ Kept' = Kept
  BY IdsSame, KeptStays
<1>2. posts \in Nat /\ posts' = posts + 1
  BY BoundAssumption DEF Types
<1>3. \A n \in 1..posts : n \in 1..posts' /\ n # posts + 1 /\ n # 0
  BY <1>2
<1>4. ASSUME ~Doomed' PROVE DatInv' /\ ListInv' /\ PackInv'
  <2>1. DatInv /\ ListInv /\ PackInv
    <3>1. pc[p] # "toolShift"
      BY DEF Elsewhere
    <3> QED BY <1>4, <3>1, DoomStays DEF TextInv
  <2>2. \A b \in Used(dat) : dat.text[b] \in 1..posts
    BY <2>1 DEF DatInv
  <2>3. TextOf(dat, posts + 1) = {}
    BY <1>3, <2>2 DEF TextOf
  <2>4. \A n \in 1..posts : n \in Owned' <=> n \in Owned
    <3>1. \A q \in Programs : q # p => cur'[q].id = cur[q].id
      BY DEF Alone
    <3>2. cur[p].id = 0
      BY NoPostFacts
    <3> QED BY <1>1, <1>3, <3>1, <3>2 DEF Owned
  <2>5. leaked' = {b \in Used(dat') : dat'.text[b] \notin Owned'}
    BY <2>1, <2>2, <2>4 DEF DatInv
  <2>6. \A q \in Programs :
          IF cur'[q].link = 0 THEN TextOf(dat', cur'[q].id) = {} ELSE HasText(dat', cur'[q])
    BY <2>1, <2>3 DEF DatInv, Alone
  <2>7. DatInv'
    BY <1>3, <2>1, <2>5, <2>6 DEF DatInv
  <2> QED BY <1>1, <2>1, <2>7, ListStays
<1> QED BY <1>1, <1>4 DEF TextInv

\* savefile: p's post has its text.
LEMMA SaveStep ==
  ASSUME Types, Types', Stages, Stages', IdInv, TextInv,
         NEW p \in Programs, Alone(p), MayWrite(p), Elsewhere(p),
         Filled' = Filled, recs' = recs, UNCHANGED <<packtmp, posted, deleted, leaked>>,
         NEW id \in 1..posts', NEW size, NEW gati, SavesText(size, gati, id),
         \/ cur[p] = NoPost /\ id = posts + 1 /\ posts' = posts + 1
         \/ cur[p].id = id /\ cur[p].link = 0 /\ posts' = posts,
         cur'[p].id = id, cur'[p].link = Min(gati), cur'[p].size = size
  PROVE  IdInv' /\ TextInv'
<1>1. IdInv' /\ Ids' = Ids /\ Kept' = Kept
  BY IdsSame, KeptStays
<1>2. posts \in Nat /\ posts' \in {posts, posts + 1} /\ id \in 0..MaxPosts /\ id # 0
  BY BoundAssumption DEF Types
<1>3. \A n \in 1..posts : n \in 1..posts' /\ n # posts + 1 /\ n # 0
  BY <1>2
<1>4. size \in 1..Blocks /\ dat \in Dat /\ Room(dat, size) /\ gati = Gati(dat, size)
      /\ dat' = Saved(dat, gati, id)
  BY SizesAssumption DEF SavesText, Types
<1>5. gati \subseteq FreeBlocks(dat) /\ Min(gati) \in gati /\ gati \subseteq 1..Blocks
  BY <1>4, GatiFacts
<1>6. id \notin Ids /\ \A q \in Programs : q # p => cur[q].id # id
  <2>1. id \notin posted'
    BY <1>1 DEF IdInv
  <2>2. id \notin Ids
    BY <2>1 DEF IdInv
  <2>3. \A q \in Programs : q # p => cur'[q].id # id
    BY <1>2 DEF Stages, CurInv
  <2> QED BY <2>2, <2>3 DEF Alone
<1>7. ASSUME ~Doomed' PROVE DatInv' /\ ListInv' /\ PackInv'
  <2>1. DatInv /\ ListInv /\ PackInv
    <3>1. pc[p] # "toolShift"
      BY DEF Elsewhere
    <3> QED BY <1>7, <3>1, DoomStays DEF TextInv
  <2>2. \A b \in Used(dat) : dat.text[b] \in 1..posts
    BY <2>1 DEF DatInv
  <2>3. TextOf(dat, id) = {}
    <3>1. CASE id = posts + 1
      BY <1>3, <2>2, <3>1 DEF TextOf
    <3>2. CASE cur[p].id = id /\ cur[p].link = 0
      BY <2>1, <3>2 DEF DatInv
    <3> QED BY <3>1, <3>2
  <2>4. /\ \A b \in gati : dat'.text[b] = id
        /\ \A b \in 1..Blocks \ gati : dat'.text[b] = dat.text[b]
        /\ Used(dat') = Used(dat) \cup gati /\ Used(dat) \cap gati = {} /\ Absent(dat')
    BY <1>2, <1>4, <1>5, SavedFacts
  <2>5. /\ \A j : j # id => TextOf(dat', j) = TextOf(dat, j)
        /\ Linked(dat')
        /\ \A q : q.id # id /\ HasText(dat, q) => HasText(dat', q)
    BY <1>2, <1>4, <1>5, <2>1, <2>3, SavedText DEF DatInv
  <2>6. HasText(dat', cur'[p])
    BY <1>2, <1>4, <2>3, SavedHas
  <2>7. \A b \in Used(dat) : dat'.text[b] = dat.text[b]
    BY <2>4 DEF Used
  <2>8. \A b \in Used(dat') : dat'.text[b] \in 1..posts'
    BY <1>3, <2>2, <2>4, <2>7
  <2>9. \A n \in 1..posts : n # id => (n \in Owned' <=> n \in Owned)
    <3>1. \A q \in Programs : q # p => cur'[q].id = cur[q].id
      BY DEF Alone
    <3>2. cur[p].id \in {0, id}
      BY NoPostFacts
    <3> QED BY <1>1, <1>3, <3>1, <3>2 DEF Owned
  <2>10. id \in Owned'
    BY DEF Owned
  <2>11. leaked' = {b \in Used(dat') : dat'.text[b] \notin Owned'}
    <3>1. \A b \in Used(dat) : dat.text[b] # id
      BY <2>3 DEF TextOf
    <3> QED BY <2>1, <2>2, <2>4, <2>7, <2>9, <2>10, <3>1 DEF DatInv
  <2>12. Min(gati) # 0
    BY <1>5
  <2>13. \A q \in Programs :
           IF cur'[q].link = 0 THEN TextOf(dat', cur'[q].id) = {} ELSE HasText(dat', cur'[q])
    <3>1. \A q \in Programs : q # p =>
            IF cur[q].link = 0 THEN TextOf(dat', cur[q].id) = {} ELSE HasText(dat', cur[q])
      BY <1>6, <2>1, <2>5 DEF DatInv
    <3> QED BY <2>6, <2>12, <3>1 DEF Alone
  <2>14. DatInv'
    BY <2>4, <2>5, <2>8, <2>11, <2>13 DEF DatInv
  <2>15. \A k \in 1..Filled : recs[k].id # id
    BY <1>6 DEF Ids
  <2> QED BY <1>1, <2>1, <2>5, <2>14, <2>15, ListStays
<1> QED BY <1>1, <1>7 DEF TextInv

\* remove_link: the post at v is kept no longer.
LEMMA GoingFacts ==
  ASSUME Types, Stages, IdInv, NEW p \in Programs, Alone(p),
         pc[p] \in {"unlink", "toolUnlink"}, pc'[p] \in {"shift", "toolShift"},
         NEW v \in 1..count, Victim(p) = v, Victim(p)' = v, cur' = cur,
         UNCHANGED <<count, recs, posts, posted, deleted>>
  PROVE  /\ IdInv' /\ Filled = count /\ Filled' = Filled
         /\ Renaming = {} /\ Renaming' = {} /\ ~Doomed
         /\ \A k : ~Removed(k) /\ (Removed(k)' <=> k = v)
         /\ \A q \in Programs : cur[q].id # recs[v].id
         /\ \A k \in 1..Filled : k # v => recs[k].id # recs[v].id
         /\ recs[v].id \in Owned
         /\ \A x : x \in Owned' <=> x \in Owned /\ x # recs[v].id
<1>1. pc[p] \in Holds /\ pc'[p] \in Holds
  BY DEF Holds, NodeHolds, ToolHolds
<1>2. /\ Filled = count /\ Renaming = {} /\ Shifting = {} /\ ~Doomed
      /\ \A k : ~Removed(k)
  BY <1>1, HolderFacts
<1>3. Filled' = Filled
  BY FilledStays
<1>4. IdInv' /\ Ids' = Ids
  BY <1>3, IdsSame
<1>5. Renaming' = {} /\ Shifting' = {p}
  BY <1>2, ProgramsFacts DEF Renaming, Shifting, Alone
<1>6. \A k : Removed(k)' <=> k = v
  BY <1>5 DEF Removed
<1>7. recs[v].id \in Ids /\ \A q \in Programs : cur[q].id # recs[v].id
  BY <1>2 DEF Ids, IdInv
<1>8. \A k \in 1..Filled : k # v => recs[k].id # recs[v].id
  BY <1>2 DEF IdInv
<1>9. Kept = Ids
  BY <1>2, KeptAll
<1>10. \A x : x \in Kept' <=> x \in Ids /\ x # recs[v].id
  BY <1>2, <1>3, <1>6, <1>8 DEF Kept, Ids
<1>11. recs[v].id \in Owned /\ \A x : x \in Owned' <=> x \in Owned /\ x # recs[v].id
  BY <1>7, <1>9, <1>10 DEF Owned
<1> QED BY <1>2, <1>3, <1>4, <1>5, <1>6, <1>7, <1>8, <1>11

\* Its text is gone, the others are not.
LEMMA UnlinkStep ==
  ASSUME Types, Stages, IdInv, TextInv, NEW p \in Programs, Alone(p),
         pc[p] \in {"unlink", "toolUnlink"}, pc'[p] \in {"shift", "toolShift"},
         NEW v \in 1..count, Victim(p) = v, Victim(p)' = v,
         RemoveLink(p), cur' = cur,
         UNCHANGED <<count, recs, packtmp, posts, posted, deleted, leaked>>
  PROVE  IdInv' /\ DatInv' /\ ListInv' /\ PackInv'
<1>1. /\ IdInv' /\ Filled = count /\ Filled' = Filled
      /\ Renaming = {} /\ Renaming' = {} /\ ~Doomed
      /\ \A k : ~Removed(k) /\ (Removed(k)' <=> k = v)
      /\ \A q \in Programs : cur[q].id # recs[v].id
      /\ \A k \in 1..Filled : k # v => recs[k].id # recs[v].id
      /\ recs[v].id \in Owned
      /\ \A x : x \in Owned' <=> x \in Owned /\ x # recs[v].id
  BY GoingFacts
<1>2. DatInv /\ ListInv /\ PackInv /\ dat \in Dat
  BY <1>1 DEF TextInv, Types
<1>3. PICK post : post = recs[v]
  OBVIOUS
<1>4. HasText(dat, post) /\ Linked(dat) /\ dat.there
  BY <1>1, <1>2, <1>3, HasTextThere DEF ListInv, DatInv
<1>5. dat' = Unlinked(dat, post.link)
  BY <1>2, <1>3, <1>4, RemoveLinkIs
<1>6. /\ Linked(dat')
      /\ TextOf(dat', post.id) = {}
      /\ Used(dat') = Used(dat) \ TextOf(dat, post.id)
      /\ \A b \in 1..Blocks : dat'.text[b] = dat.text[b]
      /\ \A j : j # post.id => TextOf(dat', j) = TextOf(dat, j)
      /\ \A q : q.id # post.id /\ HasText(dat, q) => HasText(dat', q)
  BY <1>2, <1>4, <1>5, UnlinkedText
<1>7. Absent(dat')
  <2>1. dat'.there
    BY <1>2, <1>4, <1>5 DEF Unlinked, Dat
  <2> QED BY <2>1 DEF Absent
<1>8. \A b \in Used(dat') : dat'.text[b] = dat.text[b] /\ b \in Used(dat)
  BY <1>6 DEF Used
<1>9. leaked' = {b \in Used(dat') : dat'.text[b] \notin Owned'}
  <2>1. \A b \in Used(dat) : b \in Used(dat') <=> dat.text[b] # post.id
    BY <1>6 DEF TextOf
  <2>2. leaked = {b \in Used(dat) : dat.text[b] \notin Owned}
    BY <1>2 DEF DatInv
  <2> QED BY <1>1, <1>3, <1>8, <2>1, <2>2
<1>10. DatInv'
  BY <1>1, <1>2, <1>3, <1>6, <1>7, <1>8, <1>9 DEF DatInv
<1>11. ListInv'
  BY <1>1, <1>2, <1>3, <1>6 DEF ListInv
<1> QED BY <1>1, <1>10, <1>11 DEF PackInv

\* Its text stays, without a post.
LEMMA NoLinkStep ==
  ASSUME Types, Stages, IdInv, TextInv, NEW p \in Programs, Alone(p),
         pc[p] \in {"unlink", "toolUnlink"}, pc'[p] \in {"shift", "toolShift"},
         NEW v \in 1..count, Victim(p) = v, Victim(p)' = v, cur' = cur, dat' = dat,
         leaked' = leaked \cup Chain(dat, recs[v].link),
         UNCHANGED <<count, recs, packtmp, posts, posted, deleted>>
  PROVE  IdInv' /\ DatInv' /\ ListInv' /\ PackInv'
<1>1. /\ IdInv' /\ Filled = count /\ Filled' = Filled
      /\ Renaming = {} /\ Renaming' = {} /\ ~Doomed
      /\ \A k : ~Removed(k) /\ (Removed(k)' <=> k = v)
      /\ recs[v].id \in Owned
      /\ \A x : x \in Owned' <=> x \in Owned /\ x # recs[v].id
  BY GoingFacts
<1>2. DatInv /\ ListInv /\ PackInv /\ dat \in Dat
  BY <1>1 DEF TextInv, Types
<1>3. PICK post : post = recs[v]
  OBVIOUS
<1>4. Chain(dat, post.link) = TextOf(dat, post.id)
  <2>1. HasText(dat, post) /\ Linked(dat)
    BY <1>1, <1>2, <1>3 DEF ListInv, DatInv
  <2> QED BY <1>2, <2>1, ChainIs
<1>5. leaked' = {b \in Used(dat') : dat'.text[b] \notin Owned'}
  <2>1. leaked' = {b \in Used(dat) : dat.text[b] \notin Owned \/ dat.text[b] = post.id}
    BY <1>2, <1>3, <1>4 DEF DatInv, TextOf
  <2> QED BY <1>1, <1>3, <2>1
<1>6. DatInv'
  BY <1>2, <1>5 DEF DatInv
<1>7. ListInv'
  BY <1>1, <1>2 DEF ListInv
<1> QED BY <1>1, <1>6, <1>7 DEF PackInv

\* delete_message: the record follows the text.
LEMMA ShiftStep ==
  ASSUME Types, Stages, IdInv, TextInv, ~Doomed, NEW p \in Programs, Alone(p),
         pc[p] \in {"shift", "toolShift"}, pc'[p] \in {"close", "count", "idle"},
         NEW v \in 1..count, Victim(p) = v,
         count' = count - 1, recs' = Shifted(v, count), cur' = cur,
         deleted' = deleted \cup {recs[v].id},
         UNCHANGED <<dat, packtmp, posts, posted, leaked>>
  PROVE  IdInv' /\ TextInv'
<1>1. pc[p] \in Holds
  BY DEF Holds, NodeHolds, ToolHolds
<1>2. Filled = count /\ Renaming = {} /\ Recording = {}
  BY <1>1, HolderFacts
<1>3. Shifting = {p}
  <2>1. {"shift", "toolShift"} \subseteq Holds
    BY DEF Holds, NodeHolds, ToolHolds
  <2> QED BY <1>1, <2>1, HolderFacts DEF Shifting
<1>4. Recording' = {} /\ Renaming' = {} /\ Shifting' = {}
  BY <1>2, <1>3, ProgramsFacts DEF Recording, Renaming, Shifting, Alone
<1>5. \A k : (Removed(k) <=> k = v) /\ ~Removed(k)'
  BY <1>3, <1>4 DEF Removed
<1>6. /\ IdInv' /\ Ids' = Ids \ {recs[v].id}
      /\ \A k \in 1..Filled' : \E j \in 1..count : j # v /\ recs'[k] = recs[j]
  BY <1>2, <1>4, IdsRemoved
<1>7. DatInv /\ ListInv
  BY DEF TextInv
<1>8. \A j \in 1..count : j # v => HasText(dat, recs[j])
  BY <1>2, <1>5, <1>7 DEF ListInv
<1>9. Kept' = Kept
  <2>1. Kept' = Ids'
    BY <1>5 DEF Kept, Ids
  <2>2. \A k \in 1..count : k # v => recs[k].id # recs[v].id
    BY <1>2 DEF IdInv
  <2>3. Kept = Ids \ {recs[v].id}
    BY <1>2, <1>5, <2>2 DEF Kept, Ids
  <2> QED BY <1>6, <2>1, <2>3
<1>10. Owned' = Owned
  BY <1>9 DEF Owned
<1>11. DatInv'
  BY <1>7, <1>10 DEF DatInv
<1>12. ListInv'
  BY <1>2, <1>6, <1>7, <1>8 DEF ListInv
<1>13. PackInv'
  BY <1>4 DEF PackInv
<1> QED BY <1>6, <1>11, <1>12, <1>13 DEF TextInv

\* add_post: p's post is in the list, with its text.
LEMMA AddStep ==
  ASSUME Types, Stages, IdInv, TextInv, NEW p \in Programs, Alone(p),
         pc[p] \in {"record", "toolHeader"}, pc'[p] \in {"close", "idle"},
         cur[p].link # 0, cur'[p] = NoPost, Filled \in Nat, Filled' = Filled + 1,
         \A k \in 1..Filled : recs'[k] = recs[k], recs'[Filled + 1] = cur[p],
         posted' = posted \cup {cur[p].id},
         UNCHANGED <<dat, packtmp, posts, deleted, leaked>>
  PROVE  IdInv' /\ TextInv'
<1>1. pc[p] \in Holds
  BY DEF Holds, NodeHolds, ToolHolds
<1>2. Renaming = {} /\ Shifting = {} /\ ~Doomed /\ \A k : ~Removed(k)
  BY <1>1, HolderFacts
<1>3. Renaming' = {} /\ Shifting' = {}
  BY <1>2, ProgramsFacts DEF Renaming, Shifting, Alone
<1>4. \A k : ~Removed(k)'
  BY <1>3 DEF Removed
<1>5. DatInv /\ ListInv
  BY <1>2 DEF TextInv
<1>6. cur[p].id # 0
  BY CurFacts DEF Stages
<1>7. IdInv' /\ Ids' = Ids \cup {cur[p].id}
  BY <1>6, IdsAdded DEF Stages
<1>8. \A x : x # 0 => (x \in Owned' <=> x \in Owned)
  <2>1. cur'[p].id = 0 /\ \A q \in Programs : q # p => cur'[q].id = cur[q].id
    BY NoPostFacts DEF Alone
  <2>2. Kept = Ids /\ Kept' = Ids'
    BY <1>2, <1>4 DEF Kept, Ids
  <2> QED BY <1>7, <2>1, <2>2 DEF Owned
<1>9. \A b \in Used(dat) : dat.text[b] # 0
  <2>1. \A n \in 1..posts : n # 0
    BY DEF Types
  <2> QED BY <1>5, <2>1 DEF DatInv
<1>10. leaked' = {b \in Used(dat') : dat'.text[b] \notin Owned'}
  BY <1>5, <1>8, <1>9 DEF DatInv
<1>11. \A q \in Programs :
         IF cur'[q].link = 0 THEN TextOf(dat', cur'[q].id) = {} ELSE HasText(dat', cur'[q])
  <2>1. TextOf(dat, 0) = {}
    BY <1>9 DEF TextOf
  <2> QED BY <1>5, <2>1, NoPostFacts DEF DatInv, Alone
<1>12. DatInv'
  BY <1>5, <1>10, <1>11 DEF DatInv
<1>13. ListInv'
  <2>1. PICK last \in Nat : last = Filled
    OBVIOUS
  <2>2. \A k \in 1..last + 1 : k \in 1..last \/ k = last + 1
    OBVIOUS
  <2>3. HasText(dat, cur[p])
    BY <1>5 DEF DatInv
  <2>4. \A k \in 1..last + 1 : HasText(dat, recs'[k])
    BY <1>2, <1>5, <2>1, <2>2, <2>3 DEF ListInv
  <2> QED BY <1>2, <1>3, <1>4, <1>5, <2>1, <2>4 DEF ListInv
<1>14. PackInv'
  BY <1>3 DEF PackInv
<1> QED BY <1>7, <1>12, <1>13, <1>14 DEF TextInv

\* p's post is given up: its text is a leak.
LEMMA LeaveStep ==
  ASSUME Types, Stages, IdInv, TextInv, NEW p \in Programs, Alone(p), MayWrite(p), Elsewhere(p),
         pc[p] # "record", pc'[p] # "record",
         cur'[p] = NoPost, leaked' = leaked \cup Chain(dat, cur[p].link),
         UNCHANGED <<count, recs, dat, packtmp, posts, posted, deleted>>
  PROVE  IdInv' /\ TextInv'
<1>1. Filled' = Filled
  BY FilledStays
<1>2. IdInv' /\ Ids' = Ids /\ Kept' = Kept /\ Kept \subseteq Ids
  BY <1>1, IdsSame, KeptStays, NoPostFacts
<1>3. ASSUME ~Doomed' PROVE DatInv' /\ ListInv' /\ PackInv'
  <2>1. DatInv /\ ListInv /\ PackInv /\ dat \in Dat
    <3>1. pc[p] # "toolShift"
      BY DEF Elsewhere
    <3> QED BY <1>3, <3>1, DoomStays DEF TextInv, Types
  <2>2. Chain(dat, cur[p].link) = TextOf(dat, cur[p].id)
    <3>1. CASE cur[p].link = 0
      BY <2>1, <3>1, ChainNone DEF DatInv
    <3>2. CASE cur[p].link # 0
      <4>1. HasText(dat, cur[p]) /\ Linked(dat)
        BY <2>1, <3>2 DEF DatInv
      <4> QED BY <2>1, <4>1, ChainIs
    <3> QED BY <3>1, <3>2
  <2>3. \A b \in Used(dat) : dat.text[b] # 0
    <3>1. \A n \in 1..posts : n # 0
      BY DEF Types
    <3> QED BY <2>1, <3>1 DEF DatInv
  <2>4. \A x : x # 0 => (x \in Owned' <=> x \in Owned /\ x # cur[p].id)
    <3>1. cur'[p].id = 0 /\ \A q \in Programs : q # p => cur'[q].id = cur[q].id
      BY NoPostFacts DEF Alone
    <3>2. \A x : x # 0 /\ x = cur[p].id => /\ x \notin Ids
                                          /\ \A q \in Programs : q # p => cur[q].id # x
      BY DEF IdInv, Stages, CurInv
    <3> QED BY <1>2, <3>1, <3>2 DEF Owned
  <2>5. cur[p].id \in Owned
    BY DEF Owned
  <2>6. leaked' = {b \in Used(dat') : dat'.text[b] \notin Owned'}
    <3>1. leaked' = {b \in Used(dat) : dat.text[b] \notin Owned \/ dat.text[b] = cur[p].id}
      BY <2>1, <2>2 DEF DatInv, TextOf
    <3> QED BY <2>3, <2>4, <3>1
  <2>7. TextOf(dat, 0) = {}
    BY <2>3 DEF TextOf
  <2>8. \A q \in Programs :
          IF cur'[q].link = 0 THEN TextOf(dat', cur'[q].id) = {} ELSE HasText(dat', cur'[q])
    BY <2>1, <2>7, NoPostFacts DEF DatInv, Alone
  <2>9. DatInv'
    BY <2>1, <2>6, <2>8 DEF DatInv
  <2> QED BY <1>1, <1>2, <2>1, <2>9, ListStays
<1> QED BY <1>2, <1>3 DEF TextInv

\* pack_sub: the texts are in PACKTMP$.dat, the records say where.
LEMMA PackStep ==
  ASSUME Unspoiled', Types, Stages, IdInv, TextInv, NEW i \in Nodes, Alone(i), PackCopy(i)
  PROVE  IdInv' /\ TextInv'
<1> USE DEF ghosts, bounds
<1>1. pc[i] = "pack" /\ pc'[i] = "remove" /\ pc[i] \in Holds /\ i \in Programs
  BY ProgramsFacts DEF PackCopy, Goes, Holds, NodeHolds, Types
<1>2. /\ Filled = count /\ Renaming = {} /\ Shifting = {} /\ ~Doomed
      /\ \A k : ~Removed(k)
  BY <1>1, HolderFacts
<1>3. DatInv /\ ListInv
  BY <1>2 DEF TextInv
<1>4. Packable
  BY <1>2, <1>3 DEF DatInv, ListInv, IdInv, Packable, Types
<1>5. /\ dat' = dat /\ Linked(packtmp') /\ Absent(packtmp')
      /\ \A j \in Numbers : recs'[j].id = recs[j].id
      /\ \A j \in 1..count : HasText(packtmp', recs'[j])
      /\ \A b \in Used(packtmp') : \E j \in 1..count : packtmp'.text[b] = recs[j].id
  BY <1>4, PackedText
<1>6. \A j \in 1..count : j \in Numbers
  BY BoundAssumption DEF Numbers, Types
<1>7. count' = count /\ cur' = cur /\ posts' = posts /\ posted' = posted
      /\ deleted' = deleted /\ leaked' = leaked
  BY DEF PackCopy
<1>8. Filled' = Filled
  BY <1>1, <1>7, FilledStays
<1>9. IdInv' /\ Ids' = Ids
  <2>1. \A k \in 1..Filled : recs'[k].id = recs[k].id
    BY <1>2, <1>5, <1>6
  <2> QED BY <1>1, <1>7, <1>8, <2>1, IdsSame
<1>10. Renaming' # {} /\ \A k : ~Removed(k)'
  BY <1>1, <1>2, ProgramsFacts DEF Renaming, Shifting, Removed, Alone
<1>11. DatInv'
  <2>1. Owned' = Owned
    <3>1. Kept' = Kept
      BY <1>2, <1>9, <1>10 DEF Kept, Ids
    <3> QED BY <1>7, <3>1 DEF Owned
  <2> QED BY <1>3, <1>5, <1>7, <2>1 DEF DatInv
<1>12. ListInv'
  BY <1>10 DEF ListInv
<1>13. PackInv'
  <2>1. \A b \in Used(packtmp') : packtmp'.text[b] \in Ids
    BY <1>2, <1>5 DEF Ids
  <2> QED BY <1>2, <1>5, <1>8, <1>9, <2>1 DEF PackInv
<1> QED BY <1>9, <1>11, <1>12, <1>13 DEF TextInv

\* The .dat file is removed, and nobody had a text outside the list; or it stays.
LEMMA RemoveStep ==
  ASSUME Unspoiled', Types, Stages, IdInv, TextInv, NEW i \in Nodes, Alone(i), PackRemove(i)
  PROVE  IdInv' /\ TextInv'
<1> USE DEF bounds
<1>1. pc[i] = "remove" /\ pc'[i] = "rename" /\ pc[i] \in Holds /\ i \in Programs
  BY ProgramsFacts DEF PackRemove, Goes, Holds, NodeHolds, Types
<1>2. Filled = count /\ Shifting = {} /\ ~Doomed /\ \A k : ~Removed(k)
  BY <1>1, HolderFacts
<1>3. Renaming # {} /\ Renaming' # {} /\ Shifting' = {}
  BY <1>1, <1>2, ProgramsFacts DEF Renaming, Shifting, Alone
<1>4. DatInv /\ PackInv
  BY <1>2 DEF TextInv
<1>5. count' = count /\ recs' = recs /\ cur' = cur /\ posts' = posts /\ posted' = posted
      /\ deleted' = deleted /\ packtmp' = packtmp
  BY DEF PackRemove
<1>6. Filled' = Filled
  BY <1>1, <1>5, FilledStays
<1>7. IdInv' /\ Ids' = Ids
  BY <1>1, <1>5, <1>6, IdsSame
<1>8. Owned' = Owned
  <2>1. \A k : ~Removed(k)'
    BY <1>3 DEF Removed
  <2>2. Kept' = Kept
    BY <1>2, <1>7, <2>1 DEF Kept, Ids
  <2> QED BY <1>5, <2>2 DEF Owned
<1>9. DatInv'
  <2>1. CASE dat' = dat /\ leaked' = leaked
    BY <1>4, <1>5, <1>8, <2>1 DEF DatInv
  <2>2. CASE dat' = NoDat /\ leaked' = {} /\ \A p \in Programs : cur[p].link = 0
    BY <1>5, <2>2, EmptyFacts DEF DatInv, TextOf
  <2>3. \/ dat' = dat /\ leaked' = leaked
        \/ dat' = NoDat /\ leaked' = {} /\ \A p \in Programs : cur[p].link = 0
    BY DEF PackRemove, Unspoiled
  <2> QED BY <2>1, <2>2, <2>3
<1>10. ListInv' /\ PackInv'
  BY <1>3, <1>4, <1>5, <1>6, <1>7 DEF ListInv, PackInv
<1> QED BY <1>7, <1>9, <1>10 DEF TextInv

\* PACKTMP$.dat takes the place of the .dat file, which was not there any more.
LEMMA RenameStep ==
  ASSUME Unspoiled', Types, Stages, IdInv, TextInv, NEW i \in Nodes, Alone(i), PackRename(i)
  PROVE  IdInv' /\ TextInv'
<1> USE DEF bounds
<1>1. pc[i] = "rename" /\ pc'[i] = "close" /\ pc[i] \in Holds /\ i \in Programs
  BY ProgramsFacts DEF PackRename, Goes, Holds, NodeHolds, Types
<1>2. Filled = count /\ Shifting = {} /\ ~Doomed
  BY <1>1, HolderFacts
<1>3. Renaming = {i}
  <2>1. {"remove", "rename"} \subseteq Holds
    BY DEF Holds, NodeHolds
  <2> QED BY <1>1, <2>1, HolderFacts, ProgramsFacts DEF Renaming
<1>4. Renaming' = {} /\ Shifting' = {}
  BY <1>1, <1>2, <1>3, ProgramsFacts DEF Renaming, Shifting, Alone
<1>5. DatInv /\ PackInv
  BY <1>2 DEF TextInv
<1>6. /\ ~dat.there /\ dat' = packtmp /\ packtmp' = NoDat
      /\ count' = count /\ recs' = recs /\ cur' = cur /\ posts' = posts /\ posted' = posted
      /\ deleted' = deleted /\ leaked' = leaked
  BY DEF PackRename, Unspoiled
<1>7. Filled' = Filled
  BY <1>1, <1>6, FilledStays
<1>8. IdInv' /\ Ids' = Ids
  BY <1>1, <1>6, <1>7, IdsSame
<1>9. Used(dat) = {}
  BY <1>5, <1>6 DEF DatInv, Absent
<1>10. leaked = {} /\ \A q \in Programs : cur[q].link = 0
  BY <1>5, <1>9 DEF DatInv, HasText, TextOf
<1>11. \A b \in Used(packtmp) : packtmp.text[b] \in Ids
  BY <1>3, <1>5 DEF PackInv
<1>12. \A q \in Programs : TextOf(packtmp, cur[q].id) = {}
  BY <1>11 DEF TextOf, IdInv
<1>13. \A k : ~Removed(k)'
  BY <1>4 DEF Removed
<1>14. Ids \subseteq 1..posts /\ Ids \subseteq Owned'
  BY <1>8, <1>13 DEF IdInv, Owned, Kept, Ids
<1>15. DatInv'
  BY <1>3, <1>5, <1>6, <1>10, <1>11, <1>12, <1>14 DEF DatInv, PackInv
<1>16. ListInv'
  BY <1>3, <1>5, <1>6, <1>7 DEF ListInv, PackInv
<1>17. PackInv'
  BY <1>4 DEF PackInv
<1> QED BY <1>8, <1>15, <1>16, <1>17 DEF TextInv

\* Every step keeps the posts and their texts.
LEMMA NextPosts ==
  ASSUME Unspoiled, Unspoiled', ControlInv, ControlInv', IdInv, TextInv, Next
  PROVE  IdInv' /\ TextInv'
<1> USE DEF bounds, ghosts, files, Goes
<1>0. /\ Types /\ Stages /\ Types' /\ Stages' /\ Tool \in Programs
      /\ \A i \in Nodes : i \in Programs /\ i # Tool /\ NodeAt(i)
  BY ProgramsFacts DEF ControlInv, Stages, NodeStage
<1>1. ASSUME NEW i \in Nodes, NEW n \in Numbers, Read(i, n) PROVE IdInv' /\ TextInv'
  <2>1. Alone(i) /\ pc[i] # "record" /\ pc'[i] # "record" /\ count' = count
    BY <1>0, <1>1 DEF Read, Alone, Types
  <2>2. Filled' = Filled
    BY <1>0, <2>1, FilledStays
  <2>3. Quiet(i)
    BY <1>0, <1>1, <2>1, <2>2 DEF Read, Quiet, SameTexts, MayWrite, Elsewhere, Types
  <2> QED BY <1>0, <2>3, QuietStep
<1>2. ASSUME NEW i \in Nodes, SaveFile(i) PROVE IdInv' /\ TextInv'
  <2>0. /\ pc[i] = "idle" /\ pc' = [pc EXCEPT ![i] = "number"] /\ posts' = posts + 1
        /\ UNCHANGED <<count, recs, packtmp, number, shown, total, posted, deleted, leaked>>
    BY <1>2, SaveFileIs
  <2>4. PICK size, gati : /\ SavesText(size, gati, posts + 1)
                          /\ cur' = [cur EXCEPT ![i] = Post(posts + 1, 0, Min(gati), size)]
    BY <1>2, SaveFileIs
  <2>1. Alone(i) /\ pc[i] = "idle" /\ pc'[i] = "number" /\ count' = count
    BY <1>0, <2>0, <2>4 DEF Alone, Types
  <2>2. Filled' = Filled /\ MayWrite(i) /\ Elsewhere(i) /\ cur[i] = NoPost
    BY <1>0, <2>0, <2>1, FilledStays DEF MayWrite, Elsewhere, NodeAt
  <2>3. posts + 1 \in 1..posts' /\ posts' = posts + 1
    BY <1>0, <2>0, BoundAssumption DEF Types
  <2>5. cur'[i].id = posts + 1 /\ cur'[i].link = Min(gati) /\ cur'[i].size = size
    BY <1>0, <2>4 DEF Types, Post
  <2>6. recs' = recs /\ UNCHANGED <<packtmp, posted, deleted, leaked>>
    BY <2>0
  <2> QED BY <1>0, <2>1, <2>2, <2>3, <2>4, <2>5, <2>6, SaveStep
<1>3. ASSUME NEW i \in Nodes, NumberPost(i) PROVE IdInv' /\ TextInv'
  <2>1. Alone(i) /\ pc[i] # "record" /\ pc'[i] # "record" /\ count' = count
    BY <1>0, <1>3 DEF NumberPost, Alone, Types
  <2>2. Filled' = Filled
    BY <1>0, <2>1, FilledStays
  <2>3. cur'[i] = [cur[i] EXCEPT !.qscan = qscanptr] /\ cur[i] \in Rec
    BY <1>0, <1>3 DEF NumberPost, Types
  <2>4. cur'[i].id = cur[i].id /\ cur'[i].link = cur[i].link /\ cur'[i].size = cur[i].size
    BY <2>3 DEF Rec
  <2>5. Quiet(i)
    BY <1>0, <1>3, <2>1, <2>2, <2>4 DEF NumberPost, Quiet, SameTexts, MayWrite, Elsewhere, Types
  <2> QED BY <1>0, <2>5, QuietStep
<1>4. ASSUME NEW i \in Nodes, OpenToPost(i) PROVE IdInv' /\ TextInv'
  <2>1. Alone(i) /\ pc[i] # "record" /\ pc'[i] # "record" /\ count' = count
    BY <1>0, <1>4 DEF OpenToPost, Opens, Alone, Types
  <2>2. Filled' = Filled
    BY <1>0, <2>1, FilledStays
  <2>3. Quiet(i)
    BY <1>0, <1>4, <2>1, <2>2 DEF OpenToPost, Opens, Quiet, SameTexts, MayWrite, Elsewhere, Types
  <2> QED BY <1>0, <2>3, QuietStep
<1>5. ASSUME NEW i \in Nodes, GoesToShift(i), RemoveLink(i) \/ RemoveNoLink(i)
      PROVE  IdInv' /\ TextInv'
  <2>1. Alone(i) /\ pc[i] = "unlink" /\ pc'[i] = "shift"
    BY <1>0, <1>5 DEF GoesToShift, Alone, Types, NodeAt, NodeHolds
  <2>2. PICK v \in 1..count : v = Victim(i)
    BY <1>0, <2>1 DEF NodeAt
  <2>3. Victim(i)' = v
    BY <1>5, <2>2 DEF GoesToShift, Victim
  <2>4. cur' = cur /\ UNCHANGED <<count, recs, packtmp, posts, posted, deleted>>
    BY <1>5 DEF GoesToShift
  <2>5. CASE RemoveLink(i)
    <3>1. leaked' = leaked
      BY <2>5 DEF RemoveLink
    <3> QED BY <1>0, <2>1, <2>2, <2>3, <2>4, <2>5, <3>1, UnlinkStep DEF TextInv
  <2>6. CASE RemoveNoLink(i)
    <3>1. dat' = dat /\ leaked' = leaked \cup Chain(dat, recs[v].link)
      BY <2>2, <2>6, RemoveNoLinkIs
    <3> QED BY <1>0, <2>1, <2>2, <2>3, <2>4, <3>1, NoLinkStep DEF TextInv
  <2> QED BY <1>5, <2>5, <2>6
<1>6. ASSUME NEW i \in Nodes, ShiftDown(i) PROVE IdInv' /\ TextInv'
  <2>1. Alone(i) /\ pc[i] = "shift" /\ pc'[i] \in {"close", "count"}
    BY <1>0, <1>6 DEF ShiftDown, Alone, Types
  <2>2. PICK v \in 1..count : v = Victim(i)
    BY <1>0, <2>1 DEF NodeAt
  <2>3. ~Doomed
    BY <1>0, <2>1, HolderFacts DEF Holds, NodeHolds
  <2>4. /\ count' = count - 1 /\ recs' = Shifted(v, count) /\ cur' = cur
        /\ deleted' = deleted \cup {recs[v].id}
        /\ UNCHANGED <<dat, packtmp, posts, posted, leaked>>
    BY <1>6, <2>2 DEF ShiftDown
  <2> QED BY <1>0, <2>1, <2>2, <2>3, <2>4, ShiftStep
<1>7. ASSUME NEW i \in Nodes, WriteCount(i) PROVE IdInv' /\ TextInv'
  <2>1. Alone(i) /\ pc[i] = "count" /\ pc'[i] = "record" /\ count' = count + 1 /\ recs' = recs
    BY <1>0, <1>7 DEF WriteCount, Alone, Types
  <2>2. pc[i] \in Holds
    BY <2>1 DEF Holds, NodeHolds
  <2>3. Filled = count
    BY <1>0, <2>1, <2>2, HolderFacts
  <2>4. Filled' = count' - 1
    <3>1. Recording' # {}
      BY <2>1 DEF Recording
    <3> QED BY <3>1 DEF Filled
  <2>5. Filled' = Filled
    BY <1>0, <2>1, <2>3, <2>4, BoundAssumption DEF Types
  <2>6. Quiet(i)
    BY <1>0, <1>7, <2>1, <2>2, <2>5 DEF WriteCount, Quiet, SameTexts, MayWrite, Elsewhere
  <2> QED BY <1>0, <2>6, QuietStep
<1>8. ASSUME NEW i \in Nodes, WriteRecord(i) PROVE IdInv' /\ TextInv'
  <2>1. Alone(i) /\ pc[i] = "record" /\ pc'[i] = "close" /\ cur'[i] = NoPost /\ count' = count
    BY <1>0, <1>8 DEF WriteRecord, Forgets, Alone, Types
  <2>2. pc[i] \in Holds /\ "record" \in Holds
    BY <2>1 DEF Holds, NodeHolds
  <2>3. count \in 0..MaxPosts /\ count > 0 /\ cur[i].link # 0 /\ MaxPosts \in Nat
    BY <1>0, <2>1, BoundAssumption DEF NodeAt, Types
  <2>4. Filled = count - 1 /\ Filled' = count
    <3>1. i \in Recording
      BY <2>1 DEF Recording
    <3>2. Recording' = {}
      BY <1>0, <2>1, <2>2, HolderFacts DEF Recording, Alone
    <3> QED BY <2>1, <3>1, <3>2 DEF Filled
  <2>5. Filled \in Nat /\ Filled' = Filled + 1 /\ Filled + 1 = count
    BY <2>3, <2>4
  <2>6. /\ recs' = [recs EXCEPT ![count] = cur[i]] /\ posted' = posted \cup {cur[i].id}
        /\ UNCHANGED <<dat, packtmp, posts, deleted, leaked>>
    BY <1>8 DEF WriteRecord
  <2>7. recs'[Filled + 1] = cur[i] /\ \A k \in 1..Filled : recs'[k] = recs[k]
    <3>1. count \in Numbers /\ \A k \in 1..Filled : k # count
      BY <2>3, <2>4 DEF Numbers
    <3> QED BY <1>0, <2>5, <2>6, <3>1 DEF Types
  <2> QED BY <1>0, <2>1, <2>3, <2>5, <2>6, <2>7, AddStep
<1>9. ASSUME NEW i \in Nodes, CloseSub(i) PROVE IdInv' /\ TextInv'
  <2>1. Alone(i) /\ pc[i] # "record" /\ pc'[i] # "record" /\ count' = count
    BY <1>0, <1>9 DEF CloseSub, Returns, Alone, Types
  <2>2. Filled' = Filled
    BY <1>0, <2>1, FilledStays
  <2>3. Quiet(i)
    BY <1>0, <1>9, <2>1, <2>2 DEF CloseSub, Returns, Quiet, SameTexts, MayWrite, Elsewhere, Types
  <2> QED BY <1>0, <2>3, QuietStep
<1>10. ASSUME NEW i \in Nodes, ResynchShown(i) PROVE IdInv' /\ TextInv'
  <2>1. Alone(i) /\ pc[i] # "record" /\ pc'[i] # "record" /\ count' = count
    BY <1>0, <1>10 DEF ResynchShown, Alone, Types
  <2>2. Filled' = Filled
    BY <1>0, <2>1, FilledStays
  <2>3. Quiet(i)
    BY <1>0, <1>10, <2>1, <2>2 DEF ResynchShown, Quiet, SameTexts, MayWrite, Elsewhere, Types
  <2> QED BY <1>0, <2>3, QuietStep
<1>11. ASSUME NEW i \in Nodes, DeleteShown(i) PROVE IdInv' /\ TextInv'
  <2>1. Alone(i) /\ pc[i] # "record" /\ pc'[i] # "record" /\ count' = count
    BY <1>0, <1>11 DEF DeleteShown, Opens, Alone, Types
  <2>2. Filled' = Filled
    BY <1>0, <2>1, FilledStays
  <2>3. Quiet(i)
    BY <1>0, <1>11, <2>1, <2>2 DEF DeleteShown, Opens, Quiet, SameTexts, MayWrite, Elsewhere, Types
  <2> QED BY <1>0, <2>3, QuietStep
<1>12. ASSUME NEW i \in Nodes, OpenToPack(i) PROVE IdInv' /\ TextInv'
  <2>1. Alone(i) /\ pc[i] # "record" /\ pc'[i] # "record" /\ count' = count
    BY <1>0, <1>12 DEF OpenToPack, Opens, Alone, Types
  <2>2. Filled' = Filled
    BY <1>0, <2>1, FilledStays
  <2>3. Quiet(i)
    BY <1>0, <1>12, <2>1, <2>2 DEF OpenToPack, Opens, Quiet, SameTexts, MayWrite, Elsewhere, Types
  <2> QED BY <1>0, <2>3, QuietStep
<1>13. ASSUME NEW i \in Nodes, PackCopy(i) PROVE IdInv' /\ TextInv'
  <2>1. Alone(i)
    BY <1>0, <1>13 DEF PackCopy, Alone, Types
  <2> QED BY <1>0, <1>13, <2>1, PackStep
<1>14. ASSUME NEW i \in Nodes, PackRename(i) PROVE IdInv' /\ TextInv'
  <2>1. Alone(i)
    BY <1>0, <1>14 DEF PackRename, Alone, Types
  <2> QED BY <1>0, <1>14, <2>1, RenameStep
<1>15. ASSUME ToolNumber PROVE IdInv' /\ TextInv'
  <2>1. Alone(Tool) /\ pc[Tool] = "idle" /\ pc'[Tool] = "toolSave" /\ count' = count
    BY <1>0, <1>15 DEF ToolNumber, Alone, Types
  <2>2. Filled' = Filled /\ MayWrite(Tool) /\ Elsewhere(Tool) /\ cur[Tool] = NoPost
    BY <1>0, <1>15, <2>1, FilledStays DEF ToolNumber, MayWrite, Elsewhere, Stages, ToolStage
  <2>3. cur'[Tool] = Post(posts + 1, qscanptr, 0, 0)
    BY <1>0, <1>15 DEF ToolNumber, Types
  <2>4. cur'[Tool].id = posts + 1 /\ cur'[Tool].link = 0
    BY <2>3 DEF Post
  <2>5. /\ recs' = recs /\ posts' = posts + 1
        /\ UNCHANGED <<dat, packtmp, posted, deleted, leaked>>
    BY <1>15 DEF ToolNumber
  <2> QED BY <1>0, <2>1, <2>2, <2>4, <2>5, NewStep
<1>16. ASSUME ToolSave PROVE IdInv' /\ TextInv'
  <2>1. Alone(Tool) /\ pc[Tool] = "toolSave" /\ pc'[Tool] = "toolOpen" /\ count' = count
    BY <1>0, <1>16 DEF ToolSave, Alone, Types
  <2>2. Filled' = Filled /\ MayWrite(Tool) /\ Elsewhere(Tool) /\ cur[Tool].link = 0
    BY <1>0, <1>16, <2>1, FilledStays DEF ToolSave, MayWrite, Elsewhere, Stages, ToolStage
  <2>3. recs' = recs /\ posts' = posts /\ UNCHANGED <<packtmp, posted, deleted, leaked>>
    BY <1>16 DEF ToolSave
  <2>4. PICK id \in 1..posts' : id = cur[Tool].id
    <3>1. cur[Tool].id # 0
      BY <1>0, <2>1 DEF Stages, ToolStage
    <3> QED BY <1>0, <2>3, <3>1, CurFacts DEF Stages
  <2>5. PICK size, gati :
          /\ SavesText(size, gati, id)
          /\ cur' = [cur EXCEPT ![Tool] = Post(id, cur[Tool].qscan, Min(gati), size)]
    BY <1>16, <2>4 DEF ToolSave, SavesText
  <2>6. cur'[Tool].id = id /\ cur'[Tool].link = Min(gati) /\ cur'[Tool].size = size
    BY <1>0, <2>5 DEF Types, Post
  <2> QED BY <1>0, <2>1, <2>2, <2>3, <2>4, <2>5, <2>6, SaveStep
<1>17. ASSUME ToolOpen PROVE IdInv' /\ TextInv'
  <2>1. Alone(Tool) /\ pc[Tool] # "record" /\ pc'[Tool] # "record" /\ count' = count
    BY <1>0, <1>17 DEF ToolOpen, Opens, Alone, Types
  <2>2. Filled' = Filled
    BY <1>0, <2>1, FilledStays
  <2>3. Quiet(Tool)
    BY <1>0, <1>17, <2>1, <2>2 DEF ToolOpen, Opens, Quiet, SameTexts, MayWrite, Elsewhere, Types
  <2> QED BY <1>0, <2>3, QuietStep
<1>18. ASSUME ToolRecord PROVE IdInv' /\ TextInv'
  <2>1. Alone(Tool) /\ pc[Tool] = "toolRecord" /\ pc'[Tool] = "toolHeader" /\ count' = count
    BY <1>0, <1>18 DEF ToolRecord, Alone, Types
  <2>2. Filled' = Filled
    BY <1>0, <2>1, FilledStays
  <2>3. pc[Tool] \in Holds
    BY <2>1 DEF Holds, ToolHolds
  <2>4. Filled = count
    BY <1>0, <2>1, <2>3, HolderFacts
  <2>5. \A k \in 1..count : k # count + 1 /\ k \in Numbers
    BY <1>0, BoundAssumption DEF Types, Numbers
  <2>6. \A k \in 1..Filled : recs'[k] = recs[k]
    BY <1>0, <1>18, <2>4, <2>5 DEF ToolRecord, Types
  <2>7. Quiet(Tool)
    BY <1>0, <1>18, <2>1, <2>2, <2>3, <2>6 DEF ToolRecord, Quiet, SameTexts, MayWrite, Elsewhere
  <2> QED BY <1>0, <2>7, QuietStep
<1>19. ASSUME ToolHeader PROVE IdInv' /\ TextInv'
  <2>1. /\ Alone(Tool) /\ pc[Tool] = "toolHeader" /\ pc'[Tool] = "idle"
        /\ cur'[Tool] = NoPost /\ count' = count + 1 /\ recs' = recs
    BY <1>0, <1>19 DEF ToolHeader, Forgets, Alone, Types
  <2>2. pc[Tool] \in Holds
    BY <2>1 DEF Holds, ToolHolds
  <2>3. Filled = count /\ Recording = {}
    BY <1>0, <2>1, <2>2, HolderFacts
  <2>4. Filled \in Nat /\ Filled' = Filled + 1
    <3>1. Recording' = {}
      BY <1>0, <2>1, <2>3 DEF Recording, Alone
    <3> QED BY <1>0, <2>1, <2>3, <3>1, BoundAssumption DEF Filled, Types
  <2>5. cur[Tool].link # 0 /\ recs'[Filled + 1] = cur[Tool]
    BY <1>0, <2>1, <2>3 DEF Stages, ToolStage
  <2>6. /\ posted' = posted \cup {cur[Tool].id}
        /\ UNCHANGED <<dat, packtmp, posts, deleted, leaked>>
    BY <1>19 DEF ToolHeader
  <2> QED BY <1>0, <2>1, <2>4, <2>5, <2>6, AddStep
<1>20. ASSUME NEW n \in Numbers, ToolCount(n) PROVE IdInv' /\ TextInv'
  <2>1. Alone(Tool) /\ pc[Tool] # "record" /\ pc'[Tool] # "record" /\ count' = count
    BY <1>0, <1>20 DEF ToolCount, Alone, Types
  <2>2. Filled' = Filled
    BY <1>0, <2>1, FilledStays
  <2>3. Quiet(Tool)
    BY <1>0, <1>20, <2>1, <2>2 DEF ToolCount, Quiet, SameTexts, MayWrite, Elsewhere, Types
  <2> QED BY <1>0, <2>3, QuietStep
<1>21. ASSUME ToolDelete PROVE IdInv' /\ TextInv'
  <2>1. Alone(Tool) /\ pc[Tool] # "record" /\ pc'[Tool] # "record" /\ count' = count
    BY <1>0, <1>21 DEF ToolDelete, Opens, Alone, Types
  <2>2. Filled' = Filled
    BY <1>0, <2>1, FilledStays
  <2>3. Quiet(Tool)
    BY <1>0, <1>21, <2>1, <2>2 DEF ToolDelete, Opens, Quiet, SameTexts, MayWrite, Elsewhere, Types
  <2> QED BY <1>0, <2>3, QuietStep
<1>22. ASSUME RemoveLink(Tool) PROVE IdInv' /\ TextInv'
  <2>1. /\ Alone(Tool) /\ pc[Tool] = "toolUnlink" /\ pc'[Tool] = "toolShift"
        /\ count' = count /\ total' = total /\ number' = number
    BY <1>0, <1>22 DEF RemoveLink, GoesToShift, Alone, Types, Stages, ToolStage, ToolHolds
  <2>2. CASE Doomed'
    <3>1. Filled' = Filled
      BY <1>0, <2>1, FilledStays
    <3>2. IdInv'
      BY <1>0, <1>22, <2>1, <3>1, IdsSame DEF RemoveLink, GoesToShift
    <3> QED BY <2>2, <3>2 DEF TextInv
  <2>3. CASE ~Doomed'
    <3>1. count = total[Tool]
      BY <2>1, <2>3 DEF Doomed
    <3>2. Victim(Tool) = number[Tool] /\ Victim(Tool)' = number[Tool]
      BY <1>0, <1>22, <2>1 DEF RemoveLink, GoesToShift, Victim, Stages, ToolStage
    <3>3. PICK v \in 1..count : v = number[Tool]
      BY <1>0, <2>1, <3>1 DEF Stages, ToolStage
    <3>4. cur' = cur /\ UNCHANGED <<count, recs, packtmp, posts, posted, deleted, leaked>>
      BY <1>22 DEF RemoveLink, GoesToShift
    <3> QED BY <1>0, <1>22, <2>1, <3>2, <3>3, <3>4, UnlinkStep DEF TextInv
  <2> QED BY <2>2, <2>3
<1>23. ASSUME ToolShift PROVE IdInv' /\ TextInv'
  <2>1. Alone(Tool) /\ pc[Tool] = "toolShift" /\ pc'[Tool] = "idle"
    BY <1>0, <1>23 DEF ToolShift, Alone, Types
  <2>2. count = total[Tool]
    BY <1>23 DEF ToolShift, Unspoiled
  <2>3. ~Doomed /\ Victim(Tool) = number[Tool]
    BY <1>0, <2>1, <2>2 DEF Doomed, Victim, Stages, ToolStage
  <2>4. PICK v \in 1..count : v = number[Tool]
    BY <1>0, <2>1, <2>2 DEF Stages, ToolStage
  <2>5. /\ count' = count - 1 /\ recs' = Shifted(v, count) /\ cur' = cur
        /\ deleted' = deleted \cup {recs[v].id}
        /\ UNCHANGED <<dat, packtmp, posts, posted, leaked>>
    BY <1>23, <2>2, <2>4 DEF ToolShift
  <2> QED BY <1>0, <2>1, <2>3, <2>4, <2>5, ShiftStep
<1>24. ASSUME NEW p \in Programs, GiveUp(p) PROVE IdInv' /\ TextInv'
  <2>1. Alone(p) /\ pc[p] \in {"open", "toolOpen"} /\ pc'[p] \in {"idle", "resynch"}
    BY <1>0, <1>24 DEF GiveUp, Forgets, Returns, Alone, Types
  <2>2. /\ cur'[p] = NoPost /\ leaked' = leaked \cup Chain(dat, cur[p].link)
        /\ UNCHANGED <<count, recs, dat, packtmp, posts, posted, deleted>>
    BY <1>0, <1>24 DEF GiveUp, Forgets, LeavesText, Types
  <2>3. MayWrite(p) /\ Elsewhere(p)
    BY <2>1, <2>2 DEF MayWrite, Elsewhere
  <2> QED BY <1>0, <2>1, <2>2, <2>3, LeaveStep
<1>25. ASSUME NEW p \in Programs, Dies(p) PROVE IdInv' /\ TextInv'
  <2>1. Alone(p) /\ pc'[p] = "idle"
    BY <1>0, <1>25 DEF Dies, Forgets, Alone, Types
  <2>2. /\ cur'[p] = NoPost /\ leaked' = leaked \cup Chain(dat, cur[p].link)
        /\ UNCHANGED <<count, recs, dat, packtmp, posts, posted, deleted>>
    BY <1>0, <1>25 DEF Dies, Forgets, LeavesText, Types
  <2>3. pc[p] \notin {"shift", "toolShift", "record", "remove", "rename"}
    BY <1>25 DEF Dies, Unspoiled
  <2>4. MayWrite(p) /\ Elsewhere(p)
    BY <2>1, <2>2, <2>3 DEF MayWrite, Elsewhere
  <2> QED BY <1>0, <2>1, <2>2, <2>3, <2>4, LeaveStep
<1>26. ASSUME NEW i \in Nodes, ReadText(i) PROVE IdInv' /\ TextInv'
  <2>1. Alone(i) /\ pc[i] # "record" /\ pc'[i] # "record" /\ count' = count
    BY <1>0, <1>26 DEF ReadText, Alone, Types
  <2>2. Filled' = Filled
    BY <1>0, <2>1, FilledStays
  <2>3. SameTexts
    <3>1. dat' = [dat EXCEPT !.there = TRUE]
      BY <1>26, ReadTextIs DEF Opened
    <3> QED BY <1>0, <3>1 DEF SameTexts, Types, Dat
  <2>4. Quiet(i)
    BY <1>0, <1>26, <2>1, <2>2, <2>3 DEF ReadText, Quiet, MayWrite, Elsewhere, Types
  <2> QED BY <1>0, <2>4, QuietStep
<1>27. ASSUME NEW i \in Nodes, PackRemove(i) PROVE IdInv' /\ TextInv'
  <2>1. Alone(i)
    BY <1>0, <1>27 DEF PackRemove, Alone, Types
  <2> QED BY <1>0, <1>27, <2>1, RemoveStep
<1>28. ASSUME NEW i \in Nodes, RemoveLink(i) \/ RemoveNoLink(i) PROVE GoesToShift(i)
  BY <1>28 DEF RemoveLink, RemoveNoLink
<1>29. \A i \in Nodes : ~SaveNothing(i)
  BY SaveNothingNot
<1> QED
  BY <1>0, <1>1, <1>2, <1>3, <1>4, <1>5, <1>6, <1>7, <1>8, <1>9, <1>10, <1>11, <1>12, <1>13, <1>14,
     <1>15, <1>16, <1>17, <1>18, <1>19, <1>20, <1>21, <1>22, <1>23, <1>24, <1>25, <1>26, <1>27,
     <1>28, <1>29
  DEF Next, Node, Wwivutil, Crash, ToolDies

-----------------------------------------------------------------------------
(* The invariant, and what follows from it.                                *)

\* At first everything is empty.
LEMMA InitInv == Init => Inv
<1> SUFFICES ASSUME Init PROVE ControlInv /\ IdInv /\ TextInv
  BY DEF Inv
<1>1. /\ MaxPosts \in Nat \ {0} /\ MaxPosts \in Nat /\ 0 \in 0..MaxPosts
      /\ 1 \in 1..MaxPosts + 1 /\ "idle" \in Places
  BY BoundAssumption DEF Places
<1>2. Types
  <2>1. dat \in Dat
    BY EmptyFacts DEF Init, Dat
  <2> QED BY <1>1, <2>1, NoPostFacts, EmptyFacts DEF Init, Types
<1>3. LockInv
  BY ProgramsFacts DEF Init, LockInv, Holds, NodeHolds, ToolHolds
<1>4. NodeStage
  BY ProgramsFacts DEF Init, NodeStage, NodeAt, NodeHolds
<1>5. ToolStage
  BY ProgramsFacts DEF Init, ToolStage
<1>6. CurInv
  BY NoPostFacts DEF Init, CurInv
<1>7. QScanInv
  <2>1. AtNumber = {}
    BY DEF Init, AtNumber
  <2> QED BY <2>1, FS_EmptySet DEF Init, QScanInv
<1>8. Recording = {} /\ Shifting = {} /\ Renaming = {} /\ Filled = 0
  BY ProgramsFacts DEF Init, Recording, Shifting, Renaming, Filled
<1>9. IdInv
  BY <1>8 DEF Init, IdInv, Ids
<1>10. DatInv
  <2>1. dat.gat = NoDat.gat /\ (dat = NoDat \/ dat.there)
    BY DEF Init, NoDat
  <2>2. Used(dat) = {} /\ Absent(dat)
    BY <2>1, EmptyFacts DEF Used, Absent
  <2> QED BY <2>2, NoPostFacts DEF Init, DatInv, TextOf, Linked
<1>11. ListInv /\ PackInv
  BY <1>8 DEF Init, ListInv, PackInv
<1> QED BY <1>2, <1>3, <1>4, <1>5, <1>6, <1>7, <1>9, <1>10, <1>11
        DEF ControlInv, Stages, TextInv

\* An exceptional event is not forgotten.
LEMMA SpoiledStays ==
  ASSUME Next, Unspoiled' PROVE Unspoiled
BY DEF Next, Node, Wwivutil, Unspoiled, ghosts, Read, ReadText, SaveFile, SaveNothing,
   NumberPost, OpenToPost, RemoveLink, RemoveNoLink, PackRemove, Dies, ToolDies, ShiftDown, WriteCount, WriteRecord, CloseSub, ResynchShown, DeleteShown, OpenToPack, PackCopy,
   PackRename, ToolNumber, ToolSave, ToolOpen, ToolRecord, ToolHeader, ToolCount, ToolDelete,
   ToolShift, GiveUp, Crash

LEMMA NextInv ==
  ASSUME Inv, [Next]_vars PROVE Inv'
<1>1. CASE UNCHANGED vars
  <2>1. /\ UNCHANGED <<count, recs, dat, packtmp, qscanptr, lock, pc, cur, number, shown, total>>
        /\ UNCHANGED <<posts, posted, deleted, leaked, spoiled>>
    BY <1>1 DEF vars, files, bounds, ghosts
  <2>2. Unspoiled' = Unspoiled /\ Types' = Types
    BY <2>1 DEF Unspoiled, Types
  <2>3. AtNumber' = AtNumber /\ Recording' = Recording /\ Shifting' = Shifting
        /\ Renaming' = Renaming /\ Filled' = Filled /\ Ids' = Ids /\ Owned' = Owned
        /\ Doomed' = Doomed
    BY <2>1 DEF AtNumber, Recording, Shifting, Renaming, Filled, Ids, Owned, Kept, Removed,
       Victim, Doomed
  <2>4. Stages' = Stages
    <3>1. \A i : NodeAt(i)' = NodeAt(i)
      BY <2>1 DEF NodeAt, Victim
    <3>2. NodeStage' = NodeStage
      BY <3>1 DEF NodeStage
    <3> QED BY <2>1, <2>3, <3>2 DEF Stages, LockInv, ToolStage, CurInv, QScanInv
  <2>5. IdInv' = IdInv /\ DatInv' = DatInv /\ PackInv' = PackInv
    BY <2>1, <2>3 DEF IdInv, DatInv, PackInv
  <2>6. ListInv' = ListInv
    <3>1. \A k : Removed(k)' = Removed(k)
      BY <2>1, <2>3 DEF Removed, Victim
    <3> QED BY <2>1, <2>3, <3>1 DEF ListInv
  <2> QED BY <2>2, <2>3, <2>4, <2>5, <2>6 DEF Inv, ControlInv, TextInv
<1>2. CASE Next
  <2> SUFFICES ASSUME Unspoiled' PROVE ControlInv' /\ IdInv' /\ TextInv'
    BY DEF Inv
  <2>1. Unspoiled /\ ControlInv /\ IdInv /\ TextInv
    BY <1>2, SpoiledStays DEF Inv
  <2>2. ControlInv'
    BY <1>2, <2>1, NextTypes, NextStages DEF ControlInv
  <2> QED BY <1>2, <2>1, <2>2, NextPosts
<1> QED BY <1>1, <1>2

\* While nobody has the .sub file open, nothing is half done.
LEMMA RestFacts ==
  ASSUME Inv, AtRest
  PROVE  /\ ControlInv /\ IdInv /\ DatInv /\ ListInv /\ dat \in Dat /\ count \in Nat
         /\ Filled = count /\ \A k \in 1..count : HasText(dat, recs[k])
<1>1. ControlInv /\ IdInv /\ TextInv
  BY DEF Inv, AtRest, Unspoiled
<1>2. \A p \in Programs : pc[p] \notin Holds
  BY <1>1, ProgramsFacts DEF AtRest, ControlInv, Stages, LockInv
<1>3. Recording = {} /\ Shifting = {} /\ Renaming = {} /\ ~Doomed
  BY <1>2, ProgramsFacts
  DEF Recording, Shifting, Renaming, Doomed, Holds, NodeHolds, ToolHolds
<1>4. Filled = count /\ \A k : ~Removed(k)
  BY <1>3 DEF Filled, Removed
<1>5. dat \in Dat /\ count \in Nat
  BY <1>1, BoundAssumption DEF ControlInv, Types
<1> QED BY <1>1, <1>3, <1>4, <1>5 DEF TextInv, ListInv

\* The invariant holds throughout.
LEMMA Invariance == Spec => []Inv
<1>1. Init => Inv
  BY InitInv
<1>2. Inv /\ [Next]_vars => Inv'
  BY NextInv
<1> QED BY <1>1, <1>2, PTL DEF Spec

\* As long as no exceptional event has happened, counts, records, blocks and
\* numbers stay in range, whatever the bounds, and exactly the program between
\* open_sub and close_sub has the .sub file open.  (After one nothing is claimed:
\* pack_sub of damaged chains may need more blocks than there are.)
THEOREM TypeCorrect == Spec => [](Unspoiled => TypeOK)
<1>1. Inv => (Unspoiled => TypeOK)
  <2> SUFFICES ASSUME Inv, Unspoiled PROVE TypeOK
    OBVIOUS
  <2>1. Types /\ LockInv
    BY DEF Inv, ControlInv, Stages
  <2> QED BY <2>1 DEF TypeOK, Types, LockInv, Holds, Rec, Dat
<1> QED BY <1>1, Invariance, PTL

\* While nobody is writing, every post in the list has its own text, all of it:
\* savefile and remove_link of any number of programs do not meet in the GAT,
\* whether the .dat file can be opened for a delete or not, and whether pack_sub
\* can remove it or not.  What else may happen to the file is in spoiled.
THEOREM TextsAreIntact == Spec => []TextIntact
<1>1. Inv => TextIntact
  <2> SUFFICES ASSUME Inv, AtRest, NEW k \in 1..count
               PROVE  /\ Cardinality(Chain(dat, recs[k].link)) = recs[k].size
                      /\ Chain(dat, recs[k].link) # {}
                      /\ \A b \in Chain(dat, recs[k].link) : dat.text[b] = recs[k].id
    BY DEF TextIntact, Listed
  <2>1. HasText(dat, recs[k]) /\ Linked(dat) /\ dat \in Dat
    BY RestFacts DEF DatInv
  <2>2. PICK p : p = recs[k]
    OBVIOUS
  <2>3. Chain(dat, p.link) = TextOf(dat, p.id)
    BY <2>1, <2>2, ChainIs
  <2> QED BY <2>1, <2>2, <2>3 DEF HasText, TextOf
<1> QED BY <1>1, Invariance, PTL

\* While nobody is writing, the list holds exactly the posts that were added
\* and not removed, each once.
THEOREM NoPostIsLost == Spec => []NoPostLost
<1>1. Inv => NoPostLost
  <2> SUFFICES ASSUME Inv, AtRest
               PROVE  {p.id : p \in Listed} = posted \ deleted /\ Cardinality(Listed) = count
    BY DEF NoPostLost
  <2>1. IdInv /\ Filled = count /\ count \in Nat
    BY RestFacts
  <2>2. {p.id : p \in Listed} = Ids
    BY <2>1 DEF Listed, Ids
  <2>3. PICK f : f = [k \in 1..count |-> recs[k]]
    OBVIOUS
  <2>4. f \in Bijection(1..count, Listed)
    <3>1. \A j, k \in 1..count : recs[j] = recs[k] => j = k
      BY <2>1 DEF IdInv
    <3>2. f \in Injection(1..count, Listed)
      BY <2>3, <3>1 DEF Injection, IsInjective, Listed
    <3>3. f \in Surjection(1..count, Listed)
      BY <2>3 DEF Surjection, Listed
    <3> QED BY <3>2, <3>3 DEF Bijection
  <2>5. IsFiniteSet(1..count) /\ Cardinality(1..count) = count
    BY <2>1, FS_Interval
  <2>6. Cardinality(Listed) = count
    BY <2>4, <2>5, FS_Bijection DEF ExistsBijection
  <2> QED BY <2>1, <2>2, <2>6 DEF IdInv
<1> QED BY <1>1, Invariance, PTL

\* While nobody is writing, the blocks in use are those of the posts in the
\* list, of the posts on their way, and of texts left behind, by a program that
\* gave up or a delete that could not open the .dat file: none is lost, and none
\* is handed out twice.
THEOREM BlocksAreAccounted == Spec => []BlocksAccounted
<1>1. Inv => BlocksAccounted
  <2> SUFFICES ASSUME Inv, AtRest
               PROVE  1..Blocks \ FreeBlocks(dat)
                        = (UNION {Chain(dat, p.link) : p \in Listed})
                            \cup (UNION {Chain(dat, cur[p].link) : p \in Programs}) \cup leaked
    BY DEF BlocksAccounted
  <2>1. /\ DatInv /\ dat \in Dat /\ Filled = count
        /\ \A k \in 1..count : HasText(dat, recs[k])
    BY RestFacts
  <2>2. 1..Blocks \ FreeBlocks(dat) = Used(dat)
    BY DEF FreeBlocks, Used
  <2>3. ASSUME NEW k \in 1..count PROVE Chain(dat, recs[k].link) = TextOf(dat, recs[k].id)
    <3>1. HasText(dat, recs[k]) /\ Linked(dat)
      BY <2>1 DEF DatInv
    <3>2. PICK p : p = recs[k]
      OBVIOUS
    <3>3. Chain(dat, p.link) = TextOf(dat, p.id)
      BY <2>1, <3>1, <3>2, ChainIs
    <3> QED BY <3>2, <3>3
  <2>4. ASSUME NEW p \in Programs PROVE Chain(dat, cur[p].link) = TextOf(dat, cur[p].id)
    <3>1. CASE cur[p].link = 0
      BY <2>1, <3>1, ChainNone DEF DatInv
    <3>2. CASE cur[p].link # 0
      <4>1. HasText(dat, cur[p]) /\ Linked(dat)
        BY <2>1, <3>2 DEF DatInv
      <4> QED BY <2>1, <4>1, ChainIs
    <3> QED BY <3>1, <3>2
  <2>5. UNION {Chain(dat, p.link) : p \in Listed} = UNION {TextOf(dat, id) : id \in Ids}
    BY <2>1, <2>3 DEF Listed, Ids
  <2>6. UNION {Chain(dat, cur[p].link) : p \in Programs}
          = UNION {TextOf(dat, cur[p].id) : p \in Programs}
    BY <2>4
  <2>7. PICK A, B : /\ A = UNION {TextOf(dat, id) : id \in Ids}
                    /\ B = UNION {TextOf(dat, cur[p].id) : p \in Programs}
    OBVIOUS
  <2>8. Used(dat) = A \cup B \cup leaked
    <3>1. leaked = {b \in Used(dat) : dat.text[b] \notin Owned}
      BY <2>1 DEF DatInv
    <3>2. ASSUME NEW b \in Used(dat), dat.text[b] \in Owned PROVE b \in A \cup B
      <4>1. b \in TextOf(dat, dat.text[b])
        BY DEF TextOf
      <4>2. Kept \subseteq Ids
        BY DEF Kept, Ids
      <4> QED BY <2>7, <3>2, <4>1, <4>2 DEF Owned
    <3>3. A \subseteq Used(dat) /\ B \subseteq Used(dat)
      BY <2>7 DEF TextOf
    <3> QED BY <3>1, <3>2, <3>3
  <2> QED BY <2>2, <2>5, <2>6, <2>7, <2>8
<1> QED BY <1>1, Invariance, PTL

-----------------------------------------------------------------------------
(* A node that replies comes back to the post it had shown.                *)

\* Looking upwards, the first record that is not before the post is the post.
LEMMA FirstAbove ==
  ASSUME NEW n \in Nat, NEW last \in Nat, NEW k \in 1..last, n < k, NEW p, p = recs[k],
         \A j \in 1..last : recs[j].qscan \in Nat, InOrder(last),
         NEW above, above = {i \in n + 1..last : SamePost(p, recs[i]) \/ p.qscan <= recs[i].qscan}
  PROVE  above # {} /\ Min(above) \in 1..last /\ recs[Min(above)].id = p.id
<1>1. p.qscan \in Nat /\ SamePost(p, recs[k])
  BY DEF SamePost
<1>2. k \in above /\ above \subseteq Nat /\ above \subseteq 1..last
  <2>1. k \in n + 1..last /\ \A i \in n + 1..last : i \in Nat /\ i \in 1..last
    OBVIOUS
  <2> QED BY <1>1, <2>1
<1>3. Min(above) \in above /\ Min(above) <= k
  BY <1>2, MinIn
<1>4. PICK x \in 1..last : x = Min(above)
  BY <1>2, <1>3
<1>5. x <= k /\ (SamePost(p, recs[x]) \/ p.qscan <= recs[x].qscan)
  BY <1>3, <1>4
<1>6. recs[x].id = p.id
  <2>1. CASE x = k
    BY <2>1
  <2>2. CASE x # k
    <3>1. x < k
      BY <1>5, <2>2
    <3>2. SamePost(recs[x], recs[k]) \/ recs[x].qscan < recs[k].qscan
      BY <3>1 DEF InOrder
    <3>3. recs[x].qscan \in Nat
      OBVIOUS
    <3>4. SamePost(p, recs[x]) \/ SamePost(recs[x], recs[k])
      BY <1>1, <1>5, <3>2, <3>3
    <3> QED BY <3>4 DEF SamePost
  <2> QED BY <2>1, <2>2
<1> QED BY <1>2, <1>4, <1>6

\* If the post is among the records resynch looks at, and they are in order,
\* resynch finds it, from wherever it starts.
LEMMA ResynchFinds ==
  ASSUME Types, NEW n \in 0..MaxPosts, NEW last \in 0..MaxPosts,
         NEW k \in 1..last, InOrder(last), NEW p, p = recs[k], p.id # 0,
         NEW m, m = Resynch(n, p, last)
  PROVE  GetPost(m, last).id = p.id
<1>1. MaxPosts \in Nat /\ n \in Nat /\ last \in Nat /\ last # 0 /\ k \in Nat
  BY BoundAssumption
<1>2. \A j \in 1..last : j \in Numbers /\ recs[j] \in Rec /\ recs[j].qscan \in Nat /\ j \in Nat
  <2>1. \A j \in 1..last : j \in Numbers /\ j \in Nat
    BY <1>1 DEF Numbers
  <2>2. \A j \in Numbers : recs[j] \in Rec
    BY DEF Types
  <2>3. \A r \in Rec : r.qscan \in Nat
    BY <1>1 DEF Rec
  <2> QED BY <2>1, <2>2, <2>3
<1>3. ASSUME NEW j \in 1..last PROVE GetPost(j, last) = recs[j]
  <2>1. j \in 0..MaxPosts /\ j >= 1 /\ j <= last
    BY <1>1
  <2> QED BY <1>1, <2>1, GetPostType
<1>4. PICK here : here = GetPost(n, last)
  OBVIOUS
<1>5. PICK below : below = {i \in 1..Min({n, last + 1}) - 1 :
                              SamePost(p, recs[i]) \/ p.qscan >= recs[i].qscan}
  OBVIOUS
<1>6. PICK above : above = {i \in n + 1..last :
                              SamePost(p, recs[i]) \/ p.qscan <= recs[i].qscan}
  OBVIOUS
<1>7. m = IF SamePost(here, p) THEN n
          ELSE IF p.qscan < here.qscan
               THEN (IF below = {} THEN 0 ELSE Max(below))
               ELSE (IF above = {} THEN last ELSE Min(above))
  BY <1>4, <1>5, <1>6 DEF Resynch
<1>8. \A i, j \in 1..last : i < j => SamePost(recs[i], recs[j]) \/ recs[i].qscan < recs[j].qscan
  BY DEF InOrder
<1>9. p.qscan \in Nat /\ SamePost(p, recs[k])
  BY <1>2 DEF SamePost
<1>10. ASSUME n < k
       PROVE  above # {} /\ Min(above) \in 1..last /\ recs[Min(above)].id = p.id
  <2>1. \A j \in 1..last : recs[j].qscan \in Nat
    BY <1>2
  <2> QED BY <1>1, <1>6, <1>10, <2>1, FirstAbove
<1>11. CASE SamePost(here, p)
  <2>1. m = n
    BY <1>7, <1>11
  <2> QED BY <1>4, <1>11, <2>1 DEF SamePost
<1>12. CASE ~SamePost(here, p) /\ n >= 1
  <2>1. PICK h \in 1..last : h = (IF n <= last THEN n ELSE last) /\ here = recs[h]
    <3>1. /\ GetPost(n, last) = recs[Min({n, last})]
          /\ Min({n, last}) = IF n <= last THEN n ELSE last
      BY <1>1, <1>12, GetPostType
    <3>2. (IF n <= last THEN n ELSE last) \in 1..last
      BY <1>1, <1>12
    <3> QED BY <1>4, <3>1, <3>2
  <2>2. k # h /\ ~SamePost(recs[h], recs[k]) /\ ~SamePost(recs[k], recs[h])
    BY <1>12, <2>1 DEF SamePost
  <2>3. CASE p.qscan < here.qscan
    <3>1. k < h
      <4>1. ~(h < k)
        <5>1. SUFFICES ASSUME h < k PROVE FALSE
          OBVIOUS
        <5>2. recs[h].qscan < recs[k].qscan
          BY <1>8, <2>2, <5>1
        <5> QED BY <1>2, <2>1, <2>3, <5>2
      <4> QED BY <1>1, <2>2, <4>1
    <3>2. PICK lim : lim = Min({n, last + 1})
      OBVIOUS
    <3>3. lim \in Nat /\ lim <= n /\ lim <= last + 1 /\ lim \in {n, last + 1}
      <4>1. PICK S : S = {n, last + 1}
        OBVIOUS
      <4>2. S \subseteq Nat /\ S # {}
        BY <1>1, <4>1
      <4>3. Min(S) \in S /\ \A y \in S : Min(S) <= y
        BY <4>2, MinIn
      <4> QED BY <3>2, <4>1, <4>2, <4>3
    <3>4. k \in 1..lim - 1 /\ 1..lim - 1 \subseteq 1..last
      BY <1>1, <2>1, <3>1, <3>3
    <3>5. k \in below /\ below \subseteq 0..last
      <4>1. below = {i \in 1..lim - 1 : SamePost(p, recs[i]) \/ p.qscan >= recs[i].qscan}
        BY <1>5, <3>2
      <4>2. 1..lim - 1 \subseteq 0..last
        BY <1>1, <3>3
      <4>3. k \in below
        BY <1>9, <3>4, <4>1
      <4> QED BY <4>1, <4>2, <4>3
    <3>6. Max(below) \in below /\ k <= Max(below)
      BY <1>1, <3>5, MaxIn
    <3>7. PICK x : x = Max(below)
      OBVIOUS
    <3>8. x \in 1..last /\ k <= x /\ (SamePost(p, recs[x]) \/ p.qscan >= recs[x].qscan)
      BY <1>5, <3>2, <3>4, <3>6, <3>7
    <3>9. recs[x].id = p.id
      <4>1. CASE x = k
        BY <4>1
      <4>2. CASE x # k
        <5>1. k < x
          BY <1>1, <3>8, <4>2
        <5>2. SamePost(recs[k], recs[x]) \/ recs[k].qscan < recs[x].qscan
          BY <1>8, <3>8, <5>1
        <5>3. SamePost(p, recs[x])
          BY <1>2, <1>9, <3>8, <5>2
        <5> QED BY <5>3 DEF SamePost
      <4> QED BY <4>1, <4>2
    <3>10. m = x
      BY <1>7, <1>12, <2>3, <3>5, <3>7
    <3> QED BY <1>3, <3>8, <3>9, <3>10
  <2>4. CASE ~(p.qscan < here.qscan)
    <3>1. n < k
      <4>1. ~(k < h)
        <5>1. SUFFICES ASSUME k < h PROVE FALSE
          OBVIOUS
        <5>2. recs[k].qscan < recs[h].qscan
          BY <1>8, <2>2, <5>1
        <5> QED BY <1>2, <2>1, <2>4, <5>2
      <4> QED BY <1>1, <2>1, <2>2, <4>1
    <3>2. above # {} /\ Min(above) \in 1..last /\ recs[Min(above)].id = p.id
      BY <1>10, <3>1
    <3>3. m = Min(above)
      BY <1>7, <1>12, <2>4, <3>2
    <3> QED BY <1>3, <3>2, <3>3
  <2> QED BY <2>3, <2>4
<1>13. CASE ~SamePost(here, p) /\ ~(n >= 1)
  <2>1. here = NoPost /\ n < k
    BY <1>1, <1>4, <1>13 DEF GetPost
  <2>2. ~(p.qscan < here.qscan)
    BY <1>9, <2>1 DEF NoPost, Post
  <2>3. above # {} /\ Min(above) \in 1..last /\ recs[Min(above)].id = p.id
    BY <1>10, <2>1
  <2>4. m = Min(above)
    BY <1>7, <1>13, <2>2, <2>3
  <2> QED BY <1>3, <2>3, <2>4
<1> QED BY <1>11, <1>12, <1>13

\* The records are of posts known by now, and a post on its way is not among
\* them, but for the one wwivutil has just written behind the list.
RecordsInv ==
  \A k \in Numbers :
    /\ recs[k].id \in 0..posts
    /\ \A p \in Programs : cur[p].id # 0 /\ pc[p] # "toolHeader" => recs[k].id # cur[p].id

\* What a node has shown is such a post.  While the node does not have the file
\* open, the post is in the list no further than the number of posts it knows.
ReaderAt(i) ==
  /\ shown[i].id \in 0..posts
  /\ \A p \in Programs : cur[p].id # 0 => shown[i].id # cur[p].id
  /\ pc[i] \notin Holds /\ shown[i].id # 0 =>
       \A k \in 1..Filled : recs[k].id = shown[i].id => k <= total[i]
ReadInv == RecordsInv /\ \A i \in Nodes : ReaderAt(i)

\* What a step of p may do to its post and to the records: posts move down, a
\* new one is p's.
CurMoves(p) ==
  \/ posts' = posts /\ cur'[p].id \in {cur[p].id, 0}
  \/ posts' = posts + 1 /\ cur'[p].id = posts + 1
RecsMove(p) ==
  /\ \A k \in Numbers : \/ \E j \in Numbers : recs'[k].id = recs[j].id
                        \/ recs'[k].id = cur[p].id /\ (cur'[p].id = 0 \/ pc'[p] = "toolHeader")
  /\ pc[p] = "toolHeader" => cur'[p].id = 0
  /\ \A k \in 1..Filled' : \/ \E j \in 1..Filled : k <= j /\ recs'[k].id = recs[j].id
                           \/ recs'[k].id = cur[p].id /\ cur[p].id # 0
ShownMoves(p) ==
  \/ shown'[p].id = shown[p].id /\ total'[p] = total[p] /\ (pc'[p] \in Holds \/ pc[p] \notin Holds)
  \/ /\ \/ shown'[p].id \in {0, shown[p].id}
        \/ lock = Nobody /\ \E j \in Numbers : shown'[p].id = recs[j].id
     /\ pc'[p] \notin Holds /\ shown'[p].id # 0 =>
          \A k \in 1..Filled' : recs'[k].id = shown'[p].id => k <= total'[p]

LEMMA ReadStep ==
  ASSUME Types, Types', Stages, Stages', IdInv, ReadInv, NEW p \in Programs, Alone(p),
         CurMoves(p), RecsMove(p), ShownMoves(p), Filled \in Nat, Filled' \in Nat
  PROVE  ReadInv'
<1>1. posts \in Nat /\ posts' \in Nat /\ posts' \in {posts, posts + 1}
  BY BoundAssumption DEF Types, CurMoves
<1>2. /\ \A n \in 0..posts : n \in 0..posts' /\ n # posts + 1
      /\ posts + 1 # 0
  BY <1>1
<1>3. \A q \in Programs : cur[q].id \in 0..posts
  BY <1>1, CurFacts DEF Stages
<1>4. \A q \in Programs : q # p => cur'[q].id = cur[q].id /\ pc'[q] = pc[q]
  BY DEF Alone
<1>5. RecordsInv'
  <2> SUFFICES ASSUME NEW k \in Numbers
               PROVE  /\ recs'[k].id \in 0..posts'
                      /\ \A q \in Programs :
                           cur'[q].id # 0 /\ pc'[q] # "toolHeader" => recs'[k].id # cur'[q].id
    BY DEF RecordsInv
  <2>1. CASE \E j \in Numbers : recs'[k].id = recs[j].id
    <3>1. PICK j \in Numbers : recs'[k].id = recs[j].id
      BY <2>1
    <3>2. recs[j].id \in 0..posts
      BY DEF ReadInv, RecordsInv
    <3>3. ASSUME NEW q \in Programs, cur'[q].id # 0, pc'[q] # "toolHeader"
          PROVE  recs[j].id # cur'[q].id
      <4>1. CASE q # p
        BY <1>4, <3>3, <4>1 DEF ReadInv, RecordsInv
      <4>2. CASE q = p /\ cur'[p].id = posts + 1
        BY <1>2, <3>2, <4>2
      <4>3. CASE q = p /\ cur'[p].id = cur[p].id
        <5>1. pc[p] # "toolHeader"
          BY <3>3, <4>3 DEF RecsMove
        <5> QED BY <3>3, <4>3, <5>1 DEF ReadInv, RecordsInv
      <4> QED BY <3>3, <4>1, <4>2, <4>3 DEF CurMoves
    <3> QED BY <1>2, <3>1, <3>2, <3>3
  <2>2. CASE recs'[k].id = cur[p].id /\ (cur'[p].id = 0 \/ pc'[p] = "toolHeader")
    <3>1. \A q \in Programs : q # p /\ cur[q].id # 0 => cur[q].id # cur[p].id
      BY DEF Stages, CurInv
    <3> QED BY <1>2, <1>3, <1>4, <2>2, <3>1
  <2> QED BY <2>1, <2>2 DEF RecsMove
<1>6. ASSUME NEW i \in Nodes, shown'[i].id = shown[i].id
      PROVE  /\ shown'[i].id \in 0..posts'
             /\ \A q \in Programs : cur'[q].id # 0 => shown'[i].id # cur'[q].id
  <2>1. ReaderAt(i)
    BY DEF ReadInv
  <2>2. ASSUME NEW q \in Programs, cur'[q].id # 0 PROVE shown[i].id # cur'[q].id
    <3>1. CASE cur'[q].id = cur[q].id
      BY <2>1, <2>2, <3>1 DEF ReaderAt
    <3>2. CASE cur'[q].id = posts + 1
      BY <1>2, <2>1, <3>2 DEF ReaderAt
    <3> QED BY <1>4, <2>2, <3>1, <3>2 DEF CurMoves
  <2> QED BY <1>2, <1>6, <2>1, <2>2 DEF ReaderAt
<1>7. ASSUME NEW i \in Nodes, shown'[i].id = shown[i].id, total'[i] = total[i], pc[i] \notin Holds,
             shown[i].id # 0, NEW k \in 1..Filled', recs'[k].id = shown[i].id
      PROVE  k <= total[i]
  <2>1. ReaderAt(i)
    BY DEF ReadInv
  <2>2. shown[i].id # cur[p].id
    BY <1>7, <2>1 DEF ReaderAt
  <2>3. PICK j \in 1..Filled : k <= j /\ recs'[k].id = recs[j].id
    BY <1>7, <2>2 DEF RecsMove
  <2>4. j <= total[i]
    BY <1>7, <2>1, <2>3 DEF ReaderAt
  <2>5. total[i] \in Nat
    BY ProgramsFacts, BoundAssumption DEF Types
  <2> QED BY <2>3, <2>4, <2>5
<1>8. ASSUME NEW i \in Nodes PROVE ReaderAt(i)'
  <2>1. CASE i # p
    <3>1. shown'[i] = shown[i] /\ total'[i] = total[i] /\ pc'[i] = pc[i]
      BY <2>1, ProgramsFacts DEF Alone
    <3> QED BY <1>6, <1>7, <3>1 DEF ReaderAt
  <2>2. CASE i = p /\ shown'[p].id = shown[p].id /\ total'[p] = total[p]
               /\ (pc'[p] \in Holds \/ pc[p] \notin Holds)
    BY <1>6, <1>7, <2>2 DEF ReaderAt
  <2>3. CASE /\ i = p
             /\ \/ shown'[p].id \in {0, shown[p].id}
                \/ lock = Nobody /\ \E j \in Numbers : shown'[p].id = recs[j].id
             /\ pc'[p] \notin Holds /\ shown'[p].id # 0 =>
                  \A k \in 1..Filled' : recs'[k].id = shown'[p].id => k <= total'[p]
    <3>1. CASE shown'[p].id = shown[p].id
      BY <1>6, <2>3, <3>1 DEF ReaderAt
    <3>2. CASE shown'[p].id = 0
      BY <1>1, <2>3, <3>2 DEF ReaderAt
    <3>3. CASE lock = Nobody /\ \E j \in Numbers : shown'[p].id = recs[j].id
      <4>1. PICK j \in Numbers : shown'[p].id = recs[j].id
        BY <3>3
      <4>2. \A q \in Programs : pc[q] # "toolHeader"
        BY <3>3, ProgramsFacts DEF Stages, LockInv, Holds, ToolHolds
      <4>3. recs[j].id \in 0..posts /\ \A q \in Programs : cur[q].id # 0 => recs[j].id # cur[q].id
        BY <4>2 DEF ReadInv, RecordsInv
      <4>4. ASSUME NEW q \in Programs, cur'[q].id # 0 PROVE recs[j].id # cur'[q].id
        <5>1. CASE cur'[q].id = cur[q].id
          BY <4>3, <4>4, <5>1
        <5>2. CASE cur'[q].id = posts + 1
          BY <1>2, <4>3, <5>2
        <5> QED BY <1>4, <4>4, <5>1, <5>2 DEF CurMoves
      <4> QED BY <1>2, <2>3, <4>1, <4>3, <4>4 DEF ReaderAt
    <3> QED BY <2>3, <3>1, <3>2, <3>3
  <2> QED BY <2>1, <2>2, <2>3 DEF ShownMoves
<1> QED BY <1>5, <1>8 DEF ReadInv

LEMMA FilledFacts ==
  ASSUME Types, Stages
  PROVE  /\ Filled \in Nat /\ count \in Nat /\ Filled <= count
         /\ \A k \in 1..Filled : k \in Numbers
         /\ lock = Nobody => Filled = count
<1>1. MaxPosts \in Nat /\ count \in 0..MaxPosts
  BY BoundAssumption DEF Types
<1>2. \A i \in Recording : count > 0
  BY DEF Recording, Stages, NodeStage, NodeAt
<1>3. Filled \in 0..count
  BY <1>1, <1>2 DEF Filled
<1>4. lock = Nobody => Filled = count
  <2>1. lock = Nobody => Recording = {}
    BY ProgramsFacts DEF Recording, Stages, LockInv, Holds, NodeHolds
  <2> QED BY <2>1 DEF Filled
<1> QED BY <1>1, <1>3, <1>4 DEF Numbers

\* A post found at a number that the node knows is not further in the list.
LEMMA ShownFits ==
  ASSUME Types, Stages, IdInv, lock = Nobody, NEW n \in Numbers, NEW last \in 0..MaxPosts, n <= last,
         NEW k \in 1..Filled, recs[k].id = recs[n].id
  PROVE  k <= last
<1>1. /\ Filled \in Nat /\ last \in Nat /\ n \in Nat /\ k \in Nat /\ n >= 1
  BY FilledFacts, BoundAssumption DEF Numbers
<1>2. CASE n <= Filled
  <2>1. n \in 1..Filled
    BY <1>1, <1>2
  <2>2. k = n
    BY <2>1 DEF IdInv
  <2> QED BY <2>2
<1>3. CASE ~(n <= Filled)
  BY <1>1, <1>3
<1> QED BY <1>2, <1>3

\* Steps that leave the list as it is.
LEMMA StillRead ==
  ASSUME Types, Types', Stages, Stages', IdInv, ReadInv, NEW p \in Programs, Alone(p),
         CurMoves(p), ShownMoves(p), Filled' = Filled,
         \A k \in Numbers : recs'[k].id = recs[k].id,
         pc[p] = "toolHeader" => cur'[p].id = 0
  PROVE  ReadInv'
<1>1. Filled \in Nat /\ \A k \in 1..Filled : k \in Numbers /\ k <= k
  BY FilledFacts
<1>2. RecsMove(p)
  BY <1>1 DEF RecsMove
<1> QED BY <1>1, <1>2, ReadStep

\* wwivutil shows nothing.
LEMMA ToolShows ==
  ASSUME Stages, Stages'
  PROVE  ShownMoves(Tool)
BY NoPostFacts DEF Stages, ToolStage, ShownMoves

\* A post is taken out of the list.
LEMMA ShiftReads ==
  ASSUME Types, Types', Stages, Stages', IdInv, ReadInv, NEW p \in Programs, Alone(p),
         ShownMoves(p), pc[p] \in {"shift", "toolShift"}, pc'[p] # "record", NEW v \in 1..count,
         count' = count - 1, recs' = Shifted(v, count), cur' = cur, posts' = posts,
         posted' = posted, deleted' = deleted \cup {recs[v].id}
  PROVE  ReadInv'
<1>1. pc[p] \in Holds
  BY DEF Holds, NodeHolds, ToolHolds
<1>2. Filled = count /\ Recording = {}
  BY <1>1, HolderFacts
<1>3. Recording' = {}
  BY <1>2, ProgramsFacts DEF Recording, Alone
<1>4. Filled \in Nat /\ Filled' \in Nat /\ MaxPosts \in Nat /\ count \in 0..MaxPosts
  BY FilledFacts, <1>3, BoundAssumption DEF Filled, Types
<1>5. \A k \in 1..Filled' : \E j \in 1..count : j # v /\ k <= j /\ recs'[k] = recs[j]
  BY <1>2, <1>3, IdsRemoved
<1>6. \A k \in Numbers : \E j \in Numbers : recs'[k].id = recs[j].id
  <2>1. \A k \in Numbers : k < count => k + 1 \in Numbers
    BY <1>4 DEF Numbers
  <2>2. \A k \in Numbers : recs'[k] = IF k >= v /\ k < count THEN recs[k + 1] ELSE recs[k]
    BY DEF Shifted
  <2> QED BY <2>1, <2>2
<1>7. RecsMove(p)
  BY <1>2, <1>5, <1>6 DEF RecsMove
<1>8. CurMoves(p)
  BY DEF CurMoves
<1> QED BY <1>4, <1>7, <1>8, ReadStep

\* Every step keeps it.
LEMMA NextReads ==
  ASSUME Unspoiled, Unspoiled', ControlInv, ControlInv', IdInv, TextInv, ReadInv, Next
  PROVE  ReadInv'
<1> USE DEF bounds, ghosts, files, Goes
<1>0. /\ Types /\ Stages /\ Types' /\ Stages' /\ Tool \in Programs
      /\ \A i \in Nodes : i \in Programs /\ i # Tool /\ NodeAt(i)
  BY ProgramsFacts DEF ControlInv, Stages, NodeStage
<1>1. ASSUME NEW i \in Nodes, NEW n \in Numbers, Read(i, n) PROVE ReadInv'
  <2>1. /\ Alone(i) /\ pc[i] # "record" /\ pc'[i] # "record" /\ count' = count
        /\ recs' = recs /\ pc[i] # "toolHeader"
    BY <1>0, <1>1 DEF Read, Alone, Types
  <2>2. Filled' = Filled
    BY <1>0, <2>1, FilledStays
  <2>3. CurMoves(i)
    BY <1>1 DEF Read, CurMoves
  <2>4. ShownMoves(i)
    <3>1. shown'[i] = recs[n] /\ total'[i] = Known(i) /\ n <= Known(i) /\ lock = Nobody
      BY <1>0, <1>1 DEF Read, Types
    <3>2. Known(i) \in 0..MaxPosts
      BY <1>0 DEF Known, Types
    <3>3. \A k \in 1..Filled' : recs'[k].id = shown'[i].id => k <= total'[i]
      BY <1>0, <2>1, <2>2, <3>1, <3>2, ShownFits
    <3> QED BY <3>1, <3>3 DEF ShownMoves
  <2> QED BY <1>0, <2>1, <2>2, <2>3, <2>4, StillRead
<1>2. ASSUME NEW i \in Nodes, SaveFile(i) PROVE ReadInv'
  <2>0. /\ pc[i] = "idle" /\ pc' = [pc EXCEPT ![i] = "number"] /\ posts' = posts + 1
        /\ UNCHANGED <<count, recs, number, shown, total>>
    BY <1>2, SaveFileIs
  <2>1. PICK size, gati : cur' = [cur EXCEPT ![i] = Post(posts + 1, 0, Min(gati), size)]
    BY <1>2, SaveFileIs
  <2>2. /\ Alone(i) /\ pc[i] # "record" /\ pc'[i] # "record" /\ count' = count
        /\ recs' = recs /\ pc[i] # "toolHeader"
    BY <1>0, <2>0, <2>1 DEF Alone, Types
  <2>3. Filled' = Filled
    BY <1>0, <2>2, FilledStays
  <2>4. CurMoves(i)
    <3>1. cur'[i].id = posts + 1
      BY <1>0, <2>1 DEF Types, Post
    <3> QED BY <2>0, <3>1 DEF CurMoves
  <2>5. ShownMoves(i)
    BY <1>0, <2>0 DEF ShownMoves, Holds, NodeHolds, ToolHolds, Types
  <2> QED BY <1>0, <2>2, <2>3, <2>4, <2>5, StillRead
<1>3. ASSUME NEW i \in Nodes, NumberPost(i) PROVE ReadInv'
  <2>1. /\ Alone(i) /\ pc[i] # "record" /\ pc'[i] # "record" /\ count' = count
        /\ recs' = recs /\ pc[i] # "toolHeader"
    BY <1>0, <1>3 DEF NumberPost, Alone, Types
  <2>2. Filled' = Filled
    BY <1>0, <2>1, FilledStays
  <2>3. CurMoves(i)
    <3>1. cur'[i] = [cur[i] EXCEPT !.qscan = qscanptr] /\ cur[i] \in Rec
      BY <1>0, <1>3 DEF NumberPost, Types
    <3>2. cur'[i].id = cur[i].id
      BY <3>1 DEF Rec
    <3> QED BY <1>3, <3>2 DEF NumberPost, CurMoves
  <2>4. ShownMoves(i)
    BY <1>0, <1>3 DEF NumberPost, ShownMoves, Holds, NodeHolds, ToolHolds, Types
  <2> QED BY <1>0, <2>1, <2>2, <2>3, <2>4, StillRead
<1>4. ASSUME NEW i \in Nodes, OpenToPost(i) PROVE ReadInv'
  <2>1. /\ Alone(i) /\ pc[i] # "record" /\ pc'[i] # "record" /\ count' = count
        /\ recs' = recs /\ pc[i] # "toolHeader"
    BY <1>0, <1>4 DEF OpenToPost, Opens, Alone, Types
  <2>2. Filled' = Filled
    BY <1>0, <2>1, FilledStays
  <2>3. CurMoves(i)
    BY <1>4 DEF OpenToPost, CurMoves
  <2>4. ShownMoves(i)
    BY <1>0, <1>4 DEF OpenToPost, Opens, ShownMoves, Holds, NodeHolds, ToolHolds, Types
  <2> QED BY <1>0, <2>1, <2>2, <2>3, <2>4, StillRead
<1>5. ASSUME NEW i \in Nodes, GoesToShift(i) PROVE ReadInv'
  <2>1. /\ Alone(i) /\ pc[i] # "record" /\ pc'[i] # "record" /\ count' = count
        /\ recs' = recs /\ pc[i] # "toolHeader"
    BY <1>0, <1>5 DEF GoesToShift, Alone, Types
  <2>2. Filled' = Filled
    BY <1>0, <2>1, FilledStays
  <2>3. CurMoves(i)
    BY <1>5 DEF GoesToShift, CurMoves
  <2>4. ShownMoves(i)
    BY <1>0, <1>5 DEF GoesToShift, ShownMoves, Holds, NodeHolds, ToolHolds, Types
  <2> QED BY <1>0, <2>1, <2>2, <2>3, <2>4, StillRead
<1>6. ASSUME NEW i \in Nodes, ShiftDown(i) PROVE ReadInv'
  <2>1. Alone(i) /\ pc[i] = "shift" /\ pc'[i] \in {"close", "count"}
    BY <1>0, <1>6 DEF ShiftDown, Alone, Types
  <2>2. PICK v \in 1..count : v = Victim(i)
    BY <1>0, <2>1 DEF NodeAt
  <2>3. /\ count' = count - 1 /\ recs' = Shifted(v, count) /\ cur' = cur /\ posts' = posts
        /\ deleted' = deleted \cup {recs[v].id} /\ posted' = posted
    BY <1>6, <2>2 DEF ShiftDown
  <2>4. ShownMoves(i)
    BY <1>6, <2>1 DEF ShiftDown, ShownMoves, Holds, NodeHolds
  <2> QED BY <1>0, <2>1, <2>2, <2>3, <2>4, ShiftReads
<1>7. ASSUME NEW i \in Nodes, WriteCount(i) PROVE ReadInv'
  <2>1. Alone(i) /\ pc[i] = "count" /\ pc'[i] = "record" /\ count' = count + 1 /\ recs' = recs
    BY <1>0, <1>7 DEF WriteCount, Alone, Types
  <2>2. Filled' = Filled
    <3>1. Filled = count
      BY <1>0, <2>1, HolderFacts DEF Holds, NodeHolds
    <3>2. Recording' # {}
      BY <2>1 DEF Recording
    <3>3. Filled' = count' - 1
      BY <3>2 DEF Filled
    <3> QED BY <1>0, <2>1, <3>1, <3>3, FilledFacts
  <2>3. CurMoves(i) /\ ShownMoves(i)
    BY <1>7, <2>1 DEF WriteCount, CurMoves, ShownMoves, Holds, NodeHolds
  <2> QED BY <1>0, <2>1, <2>2, <2>3, StillRead
<1>8. ASSUME NEW i \in Nodes, WriteRecord(i) PROVE ReadInv'
  <2>1. Alone(i) /\ pc[i] = "record" /\ pc'[i] = "close" /\ cur'[i] = NoPost /\ count' = count
    BY <1>0, <1>8 DEF WriteRecord, Forgets, Alone, Types
  <2>2. "record" \in Holds /\ "close" \in Holds
    BY DEF Holds, NodeHolds
  <2>3. count \in 0..MaxPosts /\ count > 0 /\ cur[i].id # 0 /\ MaxPosts \in Nat
    BY <1>0, <2>1, CurFacts, BoundAssumption DEF NodeAt, Types, Stages
  <2>4. Filled = count - 1 /\ Filled' = count
    <3>1. i \in Recording
      BY <2>1 DEF Recording
    <3>2. Recording' = {}
      BY <1>0, <2>1, <2>2, HolderFacts DEF Recording, Alone
    <3> QED BY <2>1, <3>1, <3>2 DEF Filled
  <2>5. recs' = [recs EXCEPT ![count] = cur[i]] /\ posts' = posts
    BY <1>8 DEF WriteRecord
  <2>6. CurMoves(i) /\ ShownMoves(i)
    BY <1>8, <2>1, <2>2, NoPostFacts DEF WriteRecord, CurMoves, ShownMoves
  <2>7. RecsMove(i)
    <3>1. \A k \in Numbers : recs'[k] = IF k = count THEN cur[i] ELSE recs[k]
      BY <1>0, <2>5 DEF Types
    <3>2. \A k \in 1..count : k \in Numbers /\ k <= k /\ (k = count \/ k \in 1..count - 1)
      BY <2>3 DEF Numbers
    <3> QED BY <2>1, <2>3, <2>4, <3>1, <3>2, NoPostFacts DEF RecsMove
  <2>8. Filled \in Nat /\ Filled' \in Nat
    BY <2>3, <2>4
  <2> QED BY <1>0, <2>1, <2>6, <2>7, <2>8, ReadStep
<1>9. ASSUME NEW i \in Nodes, CloseSub(i) PROVE ReadInv'
  <2>1. /\ Alone(i) /\ pc[i] # "record" /\ pc'[i] # "record" /\ count' = count
        /\ recs' = recs /\ pc[i] # "toolHeader"
    BY <1>0, <1>9 DEF CloseSub, Returns, Alone, Types
  <2>2. Filled' = Filled
    BY <1>0, <2>1, FilledStays
  <2>3. CurMoves(i)
    BY <1>9 DEF CloseSub, CurMoves
  <2>4. ShownMoves(i)
    <3>1. Filled <= count /\ Filled \in Nat /\ count \in Nat
      BY <1>0, FilledFacts
    <3>2. shown'[i] = shown[i] /\ (shown[i].id # 0 => total'[i] = count)
      BY <1>0, <1>9, NoPostFacts DEF CloseSub, Types
    <3>3. shown'[i].id # 0 => \A k \in 1..Filled' : k <= total'[i]
      BY <2>2, <3>1, <3>2
    <3> QED BY <3>2, <3>3 DEF ShownMoves
  <2> QED BY <1>0, <2>1, <2>2, <2>3, <2>4, StillRead
<1>10. ASSUME NEW i \in Nodes, ResynchShown(i) PROVE ReadInv'
  <2>1. /\ Alone(i) /\ pc[i] # "record" /\ pc'[i] # "record" /\ count' = count
        /\ recs' = recs /\ pc[i] # "toolHeader"
    BY <1>0, <1>10 DEF ResynchShown, Alone, Types
  <2>2. Filled' = Filled
    BY <1>0, <2>1, FilledStays
  <2>3. CurMoves(i)
    BY <1>10 DEF ResynchShown, CurMoves
  <2>4. ShownMoves(i)
    <3>1. lock = Nobody /\ total'[i] = total[i] /\ total[i] \in 0..MaxPosts
      BY <1>0, <1>10 DEF ResynchShown, Types
    <3>2. PICK m \in 0..MaxPosts : m = number'[i]
      BY <1>0 DEF Types
    <3>3. shown'[i] = GetPost(m, total[i])
      BY <1>0, <1>10, <3>2 DEF ResynchShown, Types
    <3>4. CASE m < 1 \/ total[i] = 0
      <4>1. shown'[i].id = 0
        BY <3>3, <3>4, NoPostFacts DEF GetPost
      <4> QED BY <4>1 DEF ShownMoves
    <3>5. CASE m >= 1 /\ total[i] # 0
      <4>1. PICK j \in Numbers : j <= total[i] /\ shown'[i] = recs[j]
        <5>1. /\ Min({m, total[i]}) \in Numbers
              /\ GetPost(m, total[i]) = recs[Min({m, total[i]})]
              /\ Min({m, total[i]}) = IF m <= total[i] THEN m ELSE total[i]
          BY <1>0, <3>1, <3>5, GetPostType
        <5>2. Min({m, total[i]}) <= total[i]
          BY <3>1, <5>1, BoundAssumption
        <5> QED BY <3>3, <5>1, <5>2
      <4>2. \A k \in 1..Filled' : recs'[k].id = shown'[i].id => k <= total'[i]
        BY <1>0, <2>1, <2>2, <3>1, <4>1, ShownFits
      <4> QED BY <3>1, <4>1, <4>2 DEF ShownMoves
    <3>6. m >= 1 \/ m < 1
      BY BoundAssumption
    <3> QED BY <3>4, <3>5, <3>6
  <2> QED BY <1>0, <2>1, <2>2, <2>3, <2>4, StillRead
<1>11. ASSUME NEW i \in Nodes, DeleteShown(i) PROVE ReadInv'
  <2>1. /\ Alone(i) /\ pc[i] # "record" /\ pc'[i] # "record" /\ count' = count
        /\ recs' = recs /\ pc[i] # "toolHeader"
    BY <1>0, <1>11 DEF DeleteShown, Opens, Alone, Types
  <2>2. Filled' = Filled
    BY <1>0, <2>1, FilledStays
  <2>3. CurMoves(i)
    BY <1>11 DEF DeleteShown, CurMoves
  <2>4. ShownMoves(i)
    <3>1. lock = Nobody /\ count \in 0..MaxPosts /\ pc'[i] \in Holds
      BY <1>0, <1>11 DEF DeleteShown, Opens, Types, Holds, NodeHolds
    <3>2. PICK m \in 0..MaxPosts : m = number'[i]
      BY <1>0 DEF Types
    <3>3. shown'[i] = GetPost(m, count)
      BY <1>0, <1>11, <3>2 DEF DeleteShown, Types
    <3>4. CASE m < 1 \/ count = 0
      <4>1. shown'[i].id = 0
        BY <3>3, <3>4, NoPostFacts DEF GetPost
      <4> QED BY <4>1 DEF ShownMoves
    <3>5. CASE m >= 1 /\ count # 0
      <4>1. Min({m, count}) \in Numbers /\ GetPost(m, count) = recs[Min({m, count})]
        BY <1>0, <3>1, <3>5, GetPostType
      <4>2. PICK j \in Numbers : shown'[i] = recs[j]
        BY <3>3, <4>1
      <4> QED BY <3>1, <4>2 DEF ShownMoves
    <3>6. m >= 1 \/ m < 1
      BY BoundAssumption
    <3> QED BY <3>4, <3>5, <3>6
  <2> QED BY <1>0, <2>1, <2>2, <2>3, <2>4, StillRead
<1>12. ASSUME NEW i \in Nodes, OpenToPack(i) PROVE ReadInv'
  <2>1. /\ Alone(i) /\ pc[i] # "record" /\ pc'[i] # "record" /\ count' = count
        /\ recs' = recs /\ pc[i] # "toolHeader"
    BY <1>0, <1>12 DEF OpenToPack, Opens, Alone, Types
  <2>2. Filled' = Filled
    BY <1>0, <2>1, FilledStays
  <2>3. CurMoves(i)
    BY <1>12 DEF OpenToPack, CurMoves
  <2>4. ShownMoves(i)
    BY <1>0, <1>12 DEF OpenToPack, Opens, ShownMoves, Holds, NodeHolds, ToolHolds, Types
  <2> QED BY <1>0, <2>1, <2>2, <2>3, <2>4, StillRead
<1>13. ASSUME NEW i \in Nodes, PackCopy(i) PROVE ReadInv'
  <2>1. Alone(i) /\ pc[i] = "pack" /\ pc'[i] = "remove" /\ count' = count
    BY <1>0, <1>13 DEF PackCopy, Alone, Types
  <2>2. Filled' = Filled
    BY <1>0, <2>1, FilledStays
  <2>3. Packable
    <3>1. pc[i] \in Holds
      BY <2>1 DEF Holds, NodeHolds
    <3>2. /\ Filled = count /\ Renaming = {} /\ ~Doomed /\ \A k : ~Removed(k)
      BY <1>0, <2>1, <3>1, HolderFacts
    <3> QED BY <1>0, <3>2 DEF TextInv, DatInv, ListInv, IdInv, Packable, Types
  <2>4. \A k \in Numbers : recs'[k].id = recs[k].id
    BY <1>13, <2>3, PackedText
  <2>5. CurMoves(i) /\ ShownMoves(i)
    BY <1>13, <2>1 DEF PackCopy, CurMoves, ShownMoves, Holds, NodeHolds
  <2> QED BY <1>0, <2>1, <2>2, <2>4, <2>5, StillRead
<1>14. ASSUME NEW i \in Nodes, PackRename(i) PROVE ReadInv'
  <2>1. /\ Alone(i) /\ pc[i] # "record" /\ pc'[i] # "record" /\ count' = count
        /\ recs' = recs /\ pc[i] # "toolHeader"
    BY <1>0, <1>14 DEF PackRename, Alone, Types
  <2>2. Filled' = Filled
    BY <1>0, <2>1, FilledStays
  <2>3. CurMoves(i)
    BY <1>14 DEF PackRename, CurMoves
  <2>4. ShownMoves(i)
    BY <1>0, <1>14 DEF PackRename, ShownMoves, Holds, NodeHolds, ToolHolds, Types
  <2> QED BY <1>0, <2>1, <2>2, <2>3, <2>4, StillRead
<1>15. ASSUME ToolNumber PROVE ReadInv'
  <2>1. /\ Alone(Tool) /\ pc[Tool] # "record" /\ pc'[Tool] # "record" /\ count' = count
        /\ recs' = recs /\ pc[Tool] # "toolHeader"
    BY <1>0, <1>15 DEF ToolNumber, Alone, Types
  <2>2. Filled' = Filled
    BY <1>0, <2>1, FilledStays
  <2>3. CurMoves(Tool)
    <3>1. cur'[Tool] = Post(posts + 1, qscanptr, 0, 0)
      BY <1>0, <1>15 DEF ToolNumber, Types
    <3>2. cur'[Tool].id = posts + 1
      BY <3>1 DEF Post
    <3> QED BY <1>15, <3>2 DEF ToolNumber, CurMoves
  <2>4. ShownMoves(Tool)
    BY <1>0, ToolShows
  <2> QED BY <1>0, <2>1, <2>2, <2>3, <2>4, StillRead
<1>16. ASSUME ToolSave PROVE ReadInv'
  <2>1. /\ Alone(Tool) /\ pc[Tool] # "record" /\ pc'[Tool] # "record" /\ count' = count
        /\ recs' = recs /\ pc[Tool] # "toolHeader"
    BY <1>0, <1>16 DEF ToolSave, Alone, Types
  <2>2. Filled' = Filled
    BY <1>0, <2>1, FilledStays
  <2>3. CurMoves(Tool)
    <3>1. PICK size, gati :
            cur' = [cur EXCEPT ![Tool] = Post(cur[Tool].id, cur[Tool].qscan, Min(gati), size)]
      BY <1>16 DEF ToolSave
    <3>2. cur'[Tool].id = cur[Tool].id
      BY <1>0, <3>1 DEF Types, Post
    <3> QED BY <1>16, <3>2 DEF ToolSave, CurMoves
  <2>4. ShownMoves(Tool)
    BY <1>0, ToolShows
  <2> QED BY <1>0, <2>1, <2>2, <2>3, <2>4, StillRead
<1>17. ASSUME ToolOpen PROVE ReadInv'
  <2>1. /\ Alone(Tool) /\ pc[Tool] # "record" /\ pc'[Tool] # "record" /\ count' = count
        /\ recs' = recs /\ pc[Tool] # "toolHeader"
    BY <1>0, <1>17 DEF ToolOpen, Opens, Alone, Types
  <2>2. Filled' = Filled
    BY <1>0, <2>1, FilledStays
  <2>3. CurMoves(Tool)
    BY <1>17 DEF ToolOpen, CurMoves
  <2>4. ShownMoves(Tool)
    BY <1>0, ToolShows
  <2> QED BY <1>0, <2>1, <2>2, <2>3, <2>4, StillRead
<1>18. ASSUME ToolRecord PROVE ReadInv'
  <2>1. Alone(Tool) /\ pc[Tool] = "toolRecord" /\ pc'[Tool] = "toolHeader" /\ count' = count
    BY <1>0, <1>18 DEF ToolRecord, Alone, Types
  <2>2. Filled' = Filled /\ Filled <= count /\ Filled \in Nat /\ count \in Nat
    BY <1>0, <2>1, FilledStays, FilledFacts
  <2>3. CurMoves(Tool) /\ ShownMoves(Tool)
    BY <1>0, <1>18, ToolShows DEF ToolRecord, CurMoves
  <2>4. RecsMove(Tool)
    <3>1. \A k \in Numbers : recs'[k] = IF k = count + 1 THEN cur[Tool] ELSE recs[k]
      BY <1>0, <1>18 DEF ToolRecord, Types
    <3>2. \A k \in 1..Filled : k # count + 1 /\ k <= k
      BY <2>2
    <3>3. \A k \in 1..Filled : k \in Numbers
      BY <1>0, FilledFacts
    <3> QED BY <2>1, <2>2, <3>1, <3>2, <3>3 DEF RecsMove
  <2> QED BY <1>0, <2>1, <2>2, <2>3, <2>4, ReadStep
<1>19. ASSUME ToolHeader PROVE ReadInv'
  <2>1. /\ Alone(Tool) /\ pc[Tool] = "toolHeader" /\ pc'[Tool] = "idle"
        /\ cur'[Tool] = NoPost /\ count' = count + 1 /\ recs' = recs
    BY <1>0, <1>19 DEF ToolHeader, Forgets, Alone, Types
  <2>2. pc[Tool] \in Holds
    BY <2>1 DEF Holds, ToolHolds
  <2>3. Filled = count /\ Recording = {}
    BY <1>0, <2>1, <2>2, HolderFacts
  <2>4. Filled \in Nat /\ Filled' = Filled + 1
    <3>1. Recording' = {}
      BY <1>0, <2>1, <2>3 DEF Recording, Alone
    <3> QED BY <1>0, <2>1, <2>3, <3>1, FilledFacts DEF Filled
  <2>5. cur[Tool].id # 0 /\ recs[Filled + 1] = cur[Tool]
    BY <1>0, <2>1, <2>3, CurFacts DEF Stages, ToolStage
  <2>6. CurMoves(Tool) /\ ShownMoves(Tool)
    BY <1>0, <1>19, <2>1, ToolShows, NoPostFacts DEF ToolHeader, CurMoves
  <2>7. RecsMove(Tool)
    <3>1. \A k \in 1..Filled + 1 : (k \in 1..Filled /\ k <= k) \/ k = Filled + 1
      BY <2>4
    <3> QED BY <2>1, <2>4, <2>5, <3>1, NoPostFacts DEF RecsMove
  <2>8. Filled' \in Nat
    BY <2>4
  <2> QED BY <1>0, <2>1, <2>4, <2>6, <2>7, <2>8, ReadStep
<1>20. ASSUME NEW n \in Numbers, ToolCount(n) PROVE ReadInv'
  <2>1. /\ Alone(Tool) /\ pc[Tool] # "record" /\ pc'[Tool] # "record" /\ count' = count
        /\ recs' = recs /\ pc[Tool] # "toolHeader"
    BY <1>0, <1>20 DEF ToolCount, Alone, Types
  <2>2. Filled' = Filled
    BY <1>0, <2>1, FilledStays
  <2>3. CurMoves(Tool)
    BY <1>20 DEF ToolCount, CurMoves
  <2>4. ShownMoves(Tool)
    BY <1>0, ToolShows
  <2> QED BY <1>0, <2>1, <2>2, <2>3, <2>4, StillRead
<1>21. ASSUME ToolDelete PROVE ReadInv'
  <2>1. /\ Alone(Tool) /\ pc[Tool] # "record" /\ pc'[Tool] # "record" /\ count' = count
        /\ recs' = recs /\ pc[Tool] # "toolHeader"
    BY <1>0, <1>21 DEF ToolDelete, Opens, Alone, Types
  <2>2. Filled' = Filled
    BY <1>0, <2>1, FilledStays
  <2>3. CurMoves(Tool)
    BY <1>21 DEF ToolDelete, CurMoves
  <2>4. ShownMoves(Tool)
    BY <1>0, ToolShows
  <2> QED BY <1>0, <2>1, <2>2, <2>3, <2>4, StillRead
<1>22. ASSUME GoesToShift(Tool) PROVE ReadInv'
  <2>1. /\ Alone(Tool) /\ pc[Tool] # "record" /\ pc'[Tool] # "record" /\ count' = count
        /\ recs' = recs /\ pc[Tool] # "toolHeader"
    BY <1>0, <1>22 DEF GoesToShift, Alone, Types
  <2>2. Filled' = Filled
    BY <1>0, <2>1, FilledStays
  <2>3. CurMoves(Tool)
    BY <1>22 DEF GoesToShift, CurMoves
  <2>4. ShownMoves(Tool)
    BY <1>0, ToolShows
  <2> QED BY <1>0, <2>1, <2>2, <2>3, <2>4, StillRead
<1>23. ASSUME ToolShift PROVE ReadInv'
  <2>1. Alone(Tool) /\ pc[Tool] = "toolShift" /\ pc'[Tool] = "idle"
    BY <1>0, <1>23 DEF ToolShift, Alone, Types
  <2>2. count = total[Tool]
    BY <1>23 DEF ToolShift, Unspoiled
  <2>3. PICK v \in 1..count : v = number[Tool]
    BY <1>0, <2>1, <2>2 DEF Stages, ToolStage
  <2>4. /\ count' = count - 1 /\ recs' = Shifted(v, count) /\ cur' = cur /\ posts' = posts
        /\ deleted' = deleted \cup {recs[v].id} /\ posted' = posted
    BY <1>23, <2>2, <2>3 DEF ToolShift
  <2> QED BY <1>0, <2>1, <2>3, <2>4, ShiftReads, ToolShows
<1>24. ASSUME NEW p \in Programs, GiveUp(p) PROVE ReadInv'
  <2>1. /\ Alone(p) /\ pc[p] \in {"open", "toolOpen"} /\ pc'[p] \in {"idle", "resynch"}
        /\ cur'[p] = NoPost /\ count' = count /\ recs' = recs
    BY <1>0, <1>24 DEF GiveUp, Forgets, Returns, Alone, Types
  <2>2. Filled' = Filled
    BY <1>0, <2>1, FilledStays
  <2>3. CurMoves(p)
    BY <1>24, <2>1, NoPostFacts DEF GiveUp, CurMoves
  <2>4. ShownMoves(p)
    BY <1>24, <2>1 DEF GiveUp, ShownMoves, Holds, NodeHolds, ToolHolds
  <2> QED BY <1>0, <2>1, <2>2, <2>3, <2>4, StillRead
<1>25. ASSUME NEW p \in Programs, Dies(p) PROVE ReadInv'
  <2>1. /\ Alone(p) /\ pc'[p] = "idle" /\ cur'[p] = NoPost /\ shown'[p] = NoPost
        /\ count' = count /\ recs' = recs /\ posts' = posts
    BY <1>0, <1>25 DEF Dies, Forgets, Alone, Types
  <2>2. pc[p] # "record"
    BY <1>25 DEF Dies, Unspoiled
  <2>3. Filled' = Filled
    BY <1>0, <2>1, <2>2, FilledStays
  <2>4. CurMoves(p) /\ ShownMoves(p)
    BY <2>1, NoPostFacts DEF CurMoves, ShownMoves
  <2> QED BY <1>0, <2>1, <2>3, <2>4, StillRead, NoPostFacts
<1>26. ASSUME NEW i \in Nodes, ReadText(i) \/ PackRemove(i) PROVE ReadInv'
  <2>1. /\ Alone(i) /\ pc[i] # "record" /\ pc'[i] # "record" /\ count' = count
        /\ recs' = recs /\ pc[i] # "toolHeader"
    BY <1>0, <1>26 DEF ReadText, PackRemove, Alone, Types
  <2>2. Filled' = Filled
    BY <1>0, <2>1, FilledStays
  <2>3. CurMoves(i)
    BY <1>26 DEF ReadText, PackRemove, CurMoves
  <2>4. ShownMoves(i)
    BY <1>0, <1>26 DEF ReadText, PackRemove, ShownMoves, Holds, NodeHolds, ToolHolds, Types
  <2> QED BY <1>0, <2>1, <2>2, <2>3, <2>4, StillRead
<1>27. ASSUME NEW i \in Nodes, RemoveLink(i) \/ RemoveNoLink(i) PROVE GoesToShift(i)
  BY <1>27 DEF RemoveLink, RemoveNoLink
<1>28. ASSUME RemoveLink(Tool) PROVE GoesToShift(Tool)
  BY <1>28 DEF RemoveLink
<1>29. \A i \in Nodes : ~SaveNothing(i)
  BY SaveNothingNot
<1> QED
  BY <1>0, <1>1, <1>2, <1>3, <1>4, <1>5, <1>6, <1>7, <1>8, <1>9, <1>10, <1>11, <1>12, <1>13, <1>14,
     <1>15, <1>16, <1>17, <1>18, <1>19, <1>20, <1>21, <1>22, <1>23, <1>24, <1>25, <1>26, <1>27,
     <1>28, <1>29
  DEF Next, Node, Wwivutil, Crash, ToolDies

\* Only a crash counts as one.
LEMMA CrashesCounted ==
  ASSUME crashes \in Nat, Next
  PROVE  crashes' \in Nat
<1>1. ASSUME NEW i \in Nodes, Node(i) PROVE crashes' = crashes
  BY <1>1 DEF Node, Read, ReadText, SaveFile, SaveNothing, NewText, NumberPost, OpenToPost,
     RemoveLink, RemoveNoLink, GoesToShift, ShiftDown, WriteCount, WriteRecord, CloseSub,
     ResynchShown, DeleteShown, OpenToPack, PackCopy, PackRemove, PackRename, bounds
<1>2. ASSUME Wwivutil PROVE crashes' = crashes
  BY <1>2 DEF Wwivutil, ToolNumber, ToolSave, ToolOpen, ToolRecord, ToolHeader, ToolCount,
     ToolDelete, RemoveLink, GoesToShift, ToolShift, ToolDies, bounds
<1>3. ASSUME NEW p \in Programs, GiveUp(p) PROVE crashes' = crashes
  BY <1>3 DEF GiveUp, bounds
<1>4. ASSUME NEW p \in Programs, Crash(p) PROVE crashes' = crashes + 1
  BY <1>4 DEF Crash
<1> QED BY <1>1, <1>2, <1>3, <1>4 DEF Next

RInv == Inv /\ crashes \in Nat /\ (Unspoiled => ReadInv)

LEMMA ReadInvariance == Spec => []RInv
<1>1. Init => RInv
  <2> SUFFICES ASSUME Init PROVE ReadInv
    BY InitInv DEF RInv, Init
  <2>1. RecordsInv
    BY NoPostFacts, ProgramsFacts DEF Init, RecordsInv
  <2>2. \A i \in Nodes : ReaderAt(i)
    BY NoPostFacts, ProgramsFacts DEF Init, ReaderAt
  <2> QED BY <2>1, <2>2 DEF ReadInv
<1>2. RInv /\ [Next]_vars => RInv'
  <2> SUFFICES ASSUME RInv, [Next]_vars PROVE RInv'
    OBVIOUS
  <2>1. Inv'
    BY NextInv DEF RInv
  <2>2. CASE UNCHANGED vars
    <3>1. UNCHANGED <<count, recs, pc, cur, shown, total, posts, spoiled>>
      BY <2>2 DEF vars, files, bounds, ghosts
    <3>2. Filled' = Filled /\ Unspoiled' = Unspoiled
      BY <3>1 DEF Filled, Recording, Unspoiled
    <3>3. RecordsInv' = RecordsInv /\ \A i : ReaderAt(i)' = ReaderAt(i)
      BY <3>1, <3>2 DEF RecordsInv, ReaderAt
    <3>4. crashes' = crashes
      BY <2>2 DEF vars, bounds
    <3> QED BY <2>1, <3>2, <3>3, <3>4 DEF RInv, ReadInv
  <2>3. CASE Next
    <3>0. crashes' \in Nat
      BY <2>3, CrashesCounted DEF RInv
    <3> SUFFICES ASSUME Unspoiled' PROVE ReadInv'
      BY <2>1, <3>0 DEF RInv
    <3>1. Unspoiled
      BY <2>3, SpoiledStays
    <3>2. ControlInv /\ IdInv /\ TextInv /\ ControlInv' /\ ReadInv
      BY <2>1, <3>1 DEF RInv, Inv
    <3> QED BY <2>3, <3>1, <3>2, NextReads
  <2> QED BY <2>2, <2>3
<1> QED BY <1>1, <1>2, PTL DEF Spec

\* After a reply resynch brings a node back to the post it had shown, if that is
\* still in the list and the records it looks at are in the order of their
\* Q-scan numbers: however many posts were added and deleted meanwhile, by
\* whomever.
THEOREM RepliesReturn == Spec => ReplyReturns
<1>1. RInv /\ [Next]_vars =>
        [\A i \in Nodes : (/\ pc[i] = "resynch" /\ pc'[i] = "idle" /\ crashes' = crashes
                           /\ shown[i] \in Listed /\ InOrder(total[i]) /\ spoiled = {})
           => GetPost(number'[i], total[i]).id = shown[i].id]_vars
  <2> SUFFICES ASSUME RInv, Next, NEW i \in Nodes, pc[i] = "resynch", pc'[i] = "idle",
                      crashes' = crashes, shown[i] \in Listed, InOrder(total[i]), spoiled = {}
               PROVE  GetPost(number'[i], total[i]).id = shown[i].id
    OBVIOUS
  <2>1. ControlInv /\ IdInv /\ ReadInv
    BY DEF RInv, Inv, Unspoiled
  <2>2. /\ Types /\ Stages /\ i \in Programs /\ i # Tool
        /\ number[i] \in 0..MaxPosts /\ total[i] \in 0..MaxPosts
    BY <2>1, ProgramsFacts DEF ControlInv, Types
  <2>3. ResynchShown(i)
    <3>1. ASSUME NEW j \in Nodes, Node(j) PROVE ResynchShown(i)
      <4>1. j = i
        BY <2>2, <3>1 DEF Node, Read, ReadText, SaveFile, SaveNothing, NewText, NumberPost,
           OpenToPost, RemoveLink, RemoveNoLink, GoesToShift, ShiftDown, WriteCount, WriteRecord,
           CloseSub, Returns, ResynchShown, DeleteShown, OpenToPack, PackCopy, PackRemove,
           PackRename, Goes, Types
      <4> QED BY <3>1, <4>1 DEF Node, Read, ReadText, SaveFile, SaveNothing, NewText, NumberPost,
           OpenToPost, RemoveLink, RemoveNoLink, GoesToShift, ShiftDown, WriteCount, WriteRecord,
           CloseSub, DeleteShown, OpenToPack, PackCopy, PackRemove, PackRename
    <3>2. ~Wwivutil
      BY <2>2 DEF Wwivutil, ToolNumber, ToolSave, ToolOpen, ToolRecord, ToolHeader, ToolCount,
         ToolDelete, RemoveLink, GoesToShift, ToolShift, ToolDies, Dies, Goes, Types
    <3>3. ASSUME NEW p \in Programs PROVE ~GiveUp(p)
      BY <2>2 DEF GiveUp, Returns, Goes, Types
    <3>4. ASSUME NEW p \in Programs PROVE ~Crash(p)
      <4>1. crashes' # crashes + 1
        <5>1. crashes \in Nat
          BY DEF RInv
        <5> QED BY <5>1
      <4> QED BY <4>1 DEF Crash
    <3> QED BY <3>1, <3>2, <3>3, <3>4 DEF Next
  <2>4. number'[i] = Resynch(number[i], shown[i], total[i])
    BY <2>2, <2>3 DEF ResynchShown, Types
  <2>5. PICK k \in 1..count : shown[i] = recs[k]
    BY DEF Listed
  <2>6. Filled = count
    BY <2>2, <2>3, FilledFacts DEF ResynchShown
  <2>7. shown[i].id # 0
    <3>1. shown[i].id \in 1..posts /\ posts \in 0..MaxPosts
      BY <2>1, <2>2, <2>5, <2>6 DEF IdInv, Types
    <3> QED BY <3>1, BoundAssumption
  <2>8. k <= total[i]
    <3>1. ReaderAt(i)
      BY <2>1 DEF ReadInv
    <3>2. pc[i] \notin Holds
      BY DEF Holds, NodeHolds, ToolHolds
    <3> QED BY <2>5, <2>6, <2>7, <3>1, <3>2 DEF ReaderAt
  <2>9. k \in 1..total[i]
    BY <2>2, <2>8, BoundAssumption DEF Types
  <2>10. PICK p, m, last, n :
           p = shown[i] /\ m = number'[i] /\ last = total[i] /\ n = number[i]
    OBVIOUS
  <2> QED BY <2>2, <2>4, <2>5, <2>7, <2>9, <2>10, ResynchFinds
<1> QED BY <1>1, ReadInvariance, PTL DEF Spec, ReplyReturns
=============================================================================
