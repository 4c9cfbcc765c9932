------------------------- MODULE SourceAnalysisProofs -------------------------
(***************************************************************************)
(* What the two analyses of Python sources find in any source.             *)
(*                                                                         *)
(* The pipeline on any corpus of parsed files: the extractor visits every  *)
(* statement once and puts operations down to objects of their own scope,  *)
(* follows calls to a handler however long their chain is, the encoder's   *)
(* verdicts are what the numbers of contenders say, a gap is reported      *)
(* exactly if two contend, and the report shows uses that fit the kind of  *)
(* the object.                                                             *)
(*                                                                         *)
(* The corpus study in any world: its figures are of one run, what is read *)
(* only is not written, the split errs on the safe side and the slices add *)
(* up.                                                                     *)
(***************************************************************************)
EXTENDS Pipeline, CorpusBuild, FiniteSetTheorems, WellFoundedInduction, TLAPS

(***************************************************************************)
(* Numbers, sets and sequences.                                            *)
(***************************************************************************)
LEMMA LeastIs ==
  ASSUME NEW S, S \subseteq Nat, S # {}
  PROVE  Min(S) \in S /\ \A y \in S : Min(S) <= y
<1> DEFINE R == {s \in Nat \X Nat : s[1] < s[2]}
<1>1. IsWellFoundedOn(R, Nat)
  BY NatLessThanWellFounded DEF OpToRel
<1> HIDE DEF R
<1>2. PICK x \in S : \A y \in S : ~(<<y, x>> \in R)
  BY <1>1, WFMin
<1>3. \A y \in S : ~(y < x)
  BY <1>2 DEF R
<1>4. x \in Nat /\ \A y \in S : y \in Nat
  OBVIOUS
<1>5. \A y \in S : x <= y
  BY <1>3, <1>4
<1> QED
  BY <1>5 DEF Min

LEMMA GreatestIs ==
  ASSUME NEW S, S \subseteq Nat, S # {}, NEW n \in Nat, \A y \in S : y <= n
  PROVE  Max(S) \in S /\ \A y \in S : y <= Max(S)
<1> DEFINE U == {m \in Nat : \A y \in S : y <= m}
           m == Min(U)
<1>1. n \in U /\ U \subseteq Nat
  OBVIOUS
<1>2. m \in U /\ \A k \in U : m <= k
  BY <1>1, LeastIs
<1>3. m \in S
  <2>1. SUFFICES ASSUME m \notin S PROVE FALSE
    OBVIOUS
  <2>2. m \in Nat /\ \A y \in S : y <= m
    BY <1>2
  <2> HIDE DEF m
  <2>3. \A y \in S : y <= m - 1 /\ m - 1 \in Nat
    BY <2>1, <2>2
  <2>4. m - 1 \in U
    BY <2>3
  <2> QED
    BY <1>2, <2>2, <2>4
<1>4. \A y \in S : m >= y
  BY <1>2
<1> QED
  BY <1>3, <1>4 DEF Max

\* A sequence, of whatever it holds.
List(s) == s \in Seq(ToSet(s))

LEMMA ListFacts ==
  ASSUME NEW s, List(s)
  PROVE  /\ Len(s) \in Nat /\ DOMAIN s = 1..Len(s)
         /\ \A i \in 1..Len(s) : s[i] \in ToSet(s)
         /\ \A x \in ToSet(s) : \E i \in 1..Len(s) : x = s[i]
BY DEF List, ToSet

LEMMA IsList ==
  ASSUME NEW S, NEW s \in Seq(S)
  PROVE  List(s) /\ ToSet(s) \subseteq S
<1>1. /\ Len(s) \in Nat /\ s \in [1..Len(s) -> S] /\ DOMAIN s = 1..Len(s)
  OBVIOUS
<1>2. ToSet(s) \subseteq S
  BY <1>1 DEF ToSet
<1>3. \A i \in 1..Len(s) : s[i] \in ToSet(s)
  BY <1>1 DEF ToSet
<1>4. s \in [1..Len(s) -> ToSet(s)]
  BY <1>1, <1>3
<1>5. s \in Seq(ToSet(s))
  BY <1>1, <1>4
<1> QED
  BY <1>2, <1>5 DEF List

LEMMA ShortLists ==
  /\ List(<<>>) /\ ToSet(<<>>) = {}
  /\ \A x : List(<<x>>) /\ ToSet(<<x>>) = {x}
<1>1. List(<<>>) /\ ToSet(<<>>) = {}
  BY DEF List, ToSet
<1>2. ASSUME NEW x PROVE List(<<x>>) /\ ToSet(<<x>>) = {x}
  <2>1. ToSet(<<x>>) = {x}
    BY DEF ToSet
  <2>2. <<x>> \in Seq({x})
    OBVIOUS
  <2> QED
    BY <2>1, <2>2 DEF List
<1> QED
  BY <1>1, <1>2

LEMMA ListAppend ==
  ASSUME NEW s, List(s), NEW x
  PROVE  /\ List(Append(s, x))
         /\ ToSet(Append(s, x)) = ToSet(s) \cup {x}
         /\ Len(Append(s, x)) = Len(s) + 1
         /\ \A i \in 1..Len(s) : Append(s, x)[i] = s[i]
         /\ Append(s, x)[Len(s) + 1] = x
<1> DEFINE S == ToSet(s) \cup {x}
           t == Append(s, x)
<1>1. s \in Seq(S) /\ x \in S
  BY DEF List
<1>2. /\ t \in Seq(S) /\ Len(t) = Len(s) + 1
      /\ \A i \in 1..Len(s) : t[i] = s[i]
      /\ t[Len(s) + 1] = x
      /\ DOMAIN t = 1..(Len(s) + 1) /\ DOMAIN s = 1..Len(s) /\ Len(s) \in Nat
  BY <1>1
<1>3. S \subseteq ToSet(t)
  BY <1>2 DEF ToSet
<1> HIDE DEF S, t
<1>4. List(t) /\ ToSet(t) \subseteq S
  BY <1>2, IsList
<1> QED
  BY <1>2, <1>3, <1>4 DEF S, t

LEMMA ListJoin ==
  ASSUME NEW s, NEW t, List(s), List(t)
  PROVE  /\ List(s \o t) /\ ToSet(s \o t) = ToSet(s) \cup ToSet(t)
         /\ Len(s \o t) = Len(s) + Len(t)
<1> DEFINE S == ToSet(s) \cup ToSet(t)
           r == s \o t
<1>1. s \in Seq(S) /\ t \in Seq(S)
  BY DEF List
<1>2. /\ r \in Seq(S) /\ Len(r) = Len(s) + Len(t)
      /\ Len(s) \in Nat /\ Len(t) \in Nat
      /\ DOMAIN s = 1..Len(s) /\ DOMAIN t = 1..Len(t) /\ DOMAIN r = 1..(Len(s) + Len(t))
      /\ \A i \in 1..Len(s) : r[i] = s[i]
      /\ \A i \in 1..Len(t) : r[Len(s) + i] = t[i]
  BY <1>1
<1>3. ToSet(s) \subseteq ToSet(r)
  BY <1>2 DEF ToSet
<1>4. ToSet(t) \subseteq ToSet(r)
  <2>1. \A i \in 1..Len(t) : Len(s) + i \in 1..(Len(s) + Len(t))
    BY <1>2
  <2> QED
    BY <1>2, <2>1 DEF ToSet
<1> HIDE DEF S, r
<1>5. List(r) /\ ToSet(r) \subseteq S
  BY <1>2, IsList
<1> QED
  BY <1>2, <1>3, <1>4, <1>5 DEF S, r

LEMMA ListFront ==
  ASSUME NEW s, List(s), s # <<>>
  PROVE  /\ List(Front(s)) /\ Len(Front(s)) = Len(s) - 1
         /\ Len(s) \in Nat \ {0}
         /\ \A i \in 1..Len(s) - 1 : Front(s)[i] = s[i]
<1> DEFINE t == Front(s)
           n == Len(s)
<1>1. s \in Seq(ToSet(s)) /\ n \in Nat \ {0}
  BY DEF List
<1>2. \A i \in 1..n - 1 : s[i] \in ToSet(s)
  BY <1>1
<1>3. t = [i \in 1..n - 1 |-> s[i]]
  BY <1>1 DEF Front
<1>4. t \in Seq(ToSet(s)) /\ Len(t) = n - 1
  BY <1>1, <1>2, <1>3
<1> HIDE DEF t
<1>5. List(t)
  BY <1>4, IsList
<1> QED
  BY <1>1, <1>3, <1>4, <1>5 DEF t

LEMMA LastWords ==
  ASSUME NEW f, List(f), f # None
  PROVE  /\ Last(f) \in ToSet(f)
         /\ Len(f) # 1 => Last(Front(f)) \in ToSet(f)
<1>1. Len(f) \in Nat \ {0} /\ \A i \in 1..Len(f) : f[i] \in ToSet(f)
  BY ListFacts, ListFront DEF None
<1>2. Last(f) \in ToSet(f)
  BY <1>1 DEF Last
<1>3. ASSUME Len(f) # 1 PROVE Last(Front(f)) \in ToSet(f)
  <2> PICK n, t : n = Len(f) - 1 /\ t = Front(f)
    OBVIOUS
  <2>1. n \in 1..n /\ n \in 1..Len(f) /\ n = Len(f) - 1
    BY <1>1, <1>3
  <2>2. Len(t) = n /\ t[n] = f[n]
    BY <2>1, ListFront DEF None
  <2> QED
    BY <1>1, <2>1, <2>2 DEF Last
<1> QED
  BY <1>2, <1>3

LEMMA FiniteDomain ==
  ASSUME NEW s, List(s), NEW T, T \subseteq DOMAIN s
  PROVE  IsFiniteSet(T) /\ T \subseteq Nat
<1>1. DOMAIN s = 1..Len(s) /\ Len(s) \in Nat
  BY ListFacts
<1>2. IsFiniteSet(1..Len(s)) /\ T \in SUBSET (1..Len(s))
  BY <1>1, FS_Interval
<1> QED
  BY <1>2, FS_Subset

(* What a finite set is mapped to is finite. *)
LEMMA FiniteImage ==
  ASSUME NEW S, IsFiniteSet(S), NEW f, f = [x \in S |-> f[x]]
  PROVE  IsFiniteSet({f[x] : x \in S})
<1> DEFINE T == {f[x] : x \in S}
<1>1. f \in [S -> T] /\ \A t \in T : \E x \in S : f[x] = t
  OBVIOUS
<1>2. f \in Surjection(S, T)
  BY <1>1 DEF Surjection
<1> QED
  BY <1>2, FS_Surjection

(* The members of a finite set, by other names.                            *)
LEMMA FiniteFamily ==
  ASSUME NEW S, IsFiniteSet(S), NEW f, f = [x \in S |-> f[x]], \A x \in S : IsFiniteSet(f[x])
  PROVE  IsFiniteSet(UNION {f[x] : x \in S})
<1> DEFINE T == {f[x] : x \in S}
<1>1. IsFiniteSet(T)
  BY FiniteImage
<1>2. \A t \in T : IsFiniteSet(t)
  OBVIOUS
<1> HIDE DEF T
<1>3. IsFiniteSet(UNION T)
  BY <1>1, <1>2, FS_UNION
<1> QED BY <1>3 DEF T

LEMMA Renamed ==
  ASSUME NEW S, IsFiniteSet(S), NEW T, NEW f \in [S -> T],
         \A x, y \in S : f[x] = f[y] => x = y, \A t \in T : \E x \in S : f[x] = t
  PROVE  Cardinality(T) = Cardinality(S)
<1>1. f \in Bijection(S, T)
  BY DEF Bijection, Injection, Surjection, IsInjective
<1>2. ExistsBijection(S, T)
  BY <1>1 DEF ExistsBijection
<1> QED BY <1>2, FS_Bijection

LEMMA DisjointUnion ==
  ASSUME NEW S, IsFiniteSet(S), NEW T, IsFiniteSet(T), S \cap T = {}
  PROVE  IsFiniteSet(S \cup T) /\ Cardinality(S \cup T) = Cardinality(S) + Cardinality(T)
<1>1. Cardinality(S) \in Nat /\ Cardinality(T) \in Nat
  BY FS_CardinalityType
<1>2. /\ IsFiniteSet(S \cup T)
      /\ Cardinality(S \cup T) = Cardinality(S) + Cardinality(T) - Cardinality({})
  BY FS_Union
<1>3. Cardinality({}) = 0
  BY FS_EmptySet
<1> QED BY <1>1, <1>2, <1>3

(* Among the subsets of a finite set that are in U one is minimal.         *)
LEMMA MinimalSet ==
  ASSUME NEW S, IsFiniteSet(S), NEW U \in SUBSET SUBSET S, U # {}
  PROVE  \E s \in U : \A r \in s : s \ {r} \notin U
<1> DEFINE sizes == {Cardinality(s) : s \in U}
<1>1. ASSUME NEW s \in SUBSET S PROVE IsFiniteSet(s) /\ Cardinality(s) \in Nat
  BY FS_Subset, FS_CardinalityType
<1>2. \A s \in U : Cardinality(s) \in sizes
  OBVIOUS
<1>3. \A n \in sizes : \E s \in U : n = Cardinality(s)
  OBVIOUS
<1> HIDE DEF sizes
<1>4. sizes \subseteq Nat /\ sizes # {}
  BY <1>1, <1>2, <1>3
<1>5. Min(sizes) \in sizes /\ \A n \in sizes : Min(sizes) <= n
  BY <1>4, LeastIs
<1>6. PICK s \in U : Min(sizes) = Cardinality(s)
  BY <1>3, <1>5
<1>7. \A t \in U : Cardinality(s) <= Cardinality(t)
  BY <1>2, <1>5, <1>6
<1>8. ASSUME NEW r \in s PROVE s \ {r} \notin U
  <2>1. IsFiniteSet(s) /\ Cardinality(s) \in Nat
    BY <1>1
  <2>2. Cardinality(s \ {r}) = Cardinality(s) - 1
    BY <2>1, FS_RemoveElement
  <2>3. ~(Cardinality(s) <= Cardinality(s \ {r}))
    BY <2>1, <2>2
  <2> QED BY <1>7, <2>3
<1> QED BY <1>8
-----------------------------------------------------------------------------
(***************************************************************************)
(* The tree of a parsed file.                                              *)
(***************************************************************************)
LEMMA TreeFacts ==
  ASSUME NEW c, WellFormed(c)
  PROVE  /\ List(c) /\ Len(c) \in Nat /\ DOMAIN c = 1..Len(c)
         /\ \A i \in 1..Len(c) : c[i].depth \in Nat
         /\ \A i \in 1..Len(c) :
              DepthAfter(c, i - 1) = c[i].depth + (IF c[i].k = "end" THEN 1 ELSE 0)
         /\ DepthAfter(c, Len(c)) = 0
         /\ Funcs(c) \subseteq 1..Len(c)
         /\ \A d \in Funcs(c) : c[d].k = "def" /\ IsBlock(c, d) /\ c[d].name \in FuncNames(c)
<1>1. List(c) /\ Len(c) \in Nat /\ DOMAIN c = 1..Len(c)
  BY ListFacts DEF WellFormed, List
<1>2. \A d \in Funcs(c) : c[d].k = "def" /\ IsBlock(c, d) /\ c[d].name \in FuncNames(c)
  BY DEF Funcs, FuncNames, IsBlock, Blocks
<1> QED
  BY <1>1, <1>2 DEF WellFormed, Funcs

(* What is inside of something inside.                                     *)
LEMMA InsideInside ==
  ASSUME NEW c, WellFormed(c), NEW u \in 1..Len(c), NEW v \in Inside(c, u),
         NEW w \in Inside(c, v)
  PROVE  w \in Inside(c, u)
<1>1. /\ Len(c) \in Nat /\ \A i \in 1..Len(c) : c[i].depth \in Nat
  BY TreeFacts
<1>2. /\ v \in u + 1..Len(c) /\ \A j \in u + 1..v : c[j].depth > c[u].depth
      /\ w \in v + 1..Len(c) /\ \A j \in v + 1..w : c[j].depth > c[v].depth
  BY DEF Inside
<1>3. c[v].depth > c[u].depth /\ v \in 1..Len(c)
  BY <1>1, <1>2
<1>4. \A j \in u + 1..w : j \in u + 1..v \/ (j \in v + 1..w /\ j \in 1..Len(c))
  BY <1>1, <1>2
<1>5. \A j \in u + 1..w : c[j].depth > c[u].depth
  BY <1>1, <1>2, <1>3, <1>4
<1> QED
  BY <1>1, <1>2, <1>5 DEF Inside

(* Of two that are around the same, one is inside of the other.            *)
LEMMA AroundNest ==
  ASSUME NEW c, WellFormed(c), NEW u \in 1..Len(c), NEW v \in 1..Len(c), u < v,
         NEW w \in Inside(c, u), w \in Inside(c, v)
  PROVE  v \in Inside(c, u)
<1>1. /\ w \in u + 1..Len(c) /\ \A j \in u + 1..w : c[j].depth > c[u].depth
      /\ w \in v + 1..Len(c) /\ Len(c) \in Nat
  BY TreeFacts DEF Inside
<1>2. v \in u + 1..Len(c) /\ \A j \in u + 1..v : j \in u + 1..w
  BY <1>1
<1> QED
  BY <1>1, <1>2 DEF Inside

(* The end of a block is inside of what the block is inside of.            *)
LEMMA AroundEnd ==
  ASSUME NEW c, WellFormed(c), NEW b \in 1..Len(c), NEW e \in b + 1..Len(c),
         c[e].depth = c[b].depth, \A l \in b + 1..e - 1 : c[l].depth > c[b].depth
  PROVE  Around(c, e) = Around(c, b)
<1>1. Len(c) \in Nat /\ \A i \in 1..Len(c) : c[i].depth \in Nat
  BY TreeFacts
<1>2. ASSUME NEW a \in Around(c, e) PROVE a \in Around(c, b)
  <2>1. /\ a \in 1..e - 1 /\ IsBlock(c, a) /\ \A j \in a + 1..e : c[j].depth > c[a].depth
    BY <1>2 DEF Around
  <2>2. c[e].depth > c[a].depth
    BY <2>1, <1>1
  <2>3. ~(a \in b + 1..e - 1)
    BY <1>1, <2>2
  <2>4. a # b
    BY <1>1, <2>2
  <2>5. a \in 1..b - 1 /\ \A j \in a + 1..b : j \in a + 1..e
    BY <1>1, <2>1, <2>3, <2>4
  <2> QED
    BY <2>1, <2>5 DEF Around
<1>3. ASSUME NEW a \in Around(c, b) PROVE a \in Around(c, e)
  <2>1. /\ a \in 1..b - 1 /\ IsBlock(c, a) /\ \A j \in a + 1..b : c[j].depth > c[a].depth
    BY <1>3 DEF Around
  <2>2. c[b].depth > c[a].depth /\ a \in 1..Len(c)
    BY <2>1, <1>1
  <2>3. ASSUME NEW j \in a + 1..e PROVE c[j].depth > c[a].depth
    <3>1. CASE j \in a + 1..b
      BY <2>1, <3>1
    <3>2. CASE j \in b + 1..e - 1
      <4>1. c[j].depth > c[b].depth /\ j \in 1..Len(c)
        BY <3>2
      <4> QED
        BY <1>1, <2>2, <4>1
    <3>3. CASE j = e
      BY <2>2, <3>3
    <3> QED
      BY <1>1, <2>1, <3>1, <3>2, <3>3
  <2>4. a \in 1..e - 1
    BY <1>1, <2>1
  <2> QED
    BY <2>1, <2>3, <2>4 DEF Around
<1> QED
  BY <1>2, <1>3

(* The innermost function.                                                 *)
LEMMA InnermostDef ==
  ASSUME NEW c, WellFormed(c), NEW i \in 1..Len(c),
         NEW d \in Funcs(c), d \in Around(c, i)
  PROVE  /\ DefAround(c, i) \in Funcs(c) /\ DefAround(c, i) \in Around(c, i)
         /\ \A b \in Funcs(c) : b \in Around(c, i) => b <= DefAround(c, i)
<1> DEFINE D == {b \in Around(c, i) : c[b].k \in {"def"}}
<1>1. Len(c) \in Nat /\ DOMAIN c = 1..Len(c) /\ \A b \in Funcs(c) : c[b].k = "def"
  BY TreeFacts
<1>2. Around(c, i) \subseteq 1..i - 1
  BY DEF Around
<1>3. D \cup {0} \subseteq Nat /\ D \cup {0} # {} /\ i \in Nat /\ \A y \in D \cup {0} : y <= i
  BY <1>1, <1>2
<1>4. /\ Max(D \cup {0}) \in D \cup {0} /\ \A y \in D \cup {0} : y <= Max(D \cup {0})
  BY <1>3, GreatestIs
<1>5. d \in D /\ d \in Nat /\ d >= 1
  BY <1>1, <1>2
<1>6. DefAround(c, i) = Max(D \cup {0})
  BY DEF DefAround, Innermost
<1>7. Max(D \cup {0}) \in D
  <2> HIDE DEF D
  <2>1. d <= Max(D \cup {0})
    BY <1>4, <1>5
  <2> QED
    BY <1>4, <1>5, <2>1
<1>8. \A b \in D : b \in Funcs(c)
  BY <1>1, <1>2 DEF Funcs
<1>9. \A b \in Funcs(c) : b \in Around(c, i) => b \in D
  BY <1>1
<1> QED
  BY <1>4, <1>6, <1>7, <1>8, <1>9

LEMMA ScopeIsList ==
  ASSUME NEW c, WellFormed(c), NEW i \in 1..Len(c)
  PROVE  /\ \A kind : List(NamesAround(c, i, kind))
         /\ List(ClassScope(c, i)) /\ List(FunctionScope(c, i))
<1>1. Len(c) \in Nat
  BY TreeFacts
<1>2. ASSUME NEW kind PROVE List(NamesAround(c, i, kind))
  <2> DEFINE B == {b \in Around(c, i) : c[b].k = kind}
             nth(j) == CHOOSE b \in B : Cardinality({a \in B : a <= b}) = j
             s == [j \in 1..Cardinality(B) |-> c[nth(j)].name]
             S == {c[nth(j)].name : j \in 1..Cardinality(B)}
  <2>1. B \in SUBSET (1..i - 1) /\ i - 1 \in Int
    BY DEF Around
  <2>2. IsFiniteSet(1..i - 1)
    BY <2>1, FS_Interval
  <2>3. IsFiniteSet(B)
    BY <2>1, <2>2, FS_Subset
  <2>4. Cardinality(B) \in Nat
    BY <2>3, FS_CardinalityType
  <2> HIDE DEF B
  <2>5. s \in [1..Cardinality(B) -> S]
    OBVIOUS
  <2> HIDE DEF s, S
  <2>6. s \in Seq(S)
    BY <2>4, <2>5
  <2>7. NamesAround(c, i, kind) = s
    BY DEF NamesAround, s, B
  <2> QED
    BY <2>6, <2>7, IsList
<1>3. List(None)
  BY DEF List, None
<1>4. List(ClassScope(c, i) \o NamesAround(c, i, "def"))
  BY <1>2, ListJoin DEF ClassScope
<1> QED
  BY <1>2, <1>3, <1>4 DEF ClassScope, FunctionScope
-----------------------------------------------------------------------------
(***************************************************************************)
(* The inductive invariant, in parts.  The stack of the visitor holds the  *)
(* blocks that are open at its node, from the function it was called on.   *)
(***************************************************************************)
Root == frames[1].block

Open(b) == IsBlock(code, b) /\ \A l \in b + 1..node - 1 : code[l].depth > code[b].depth

Stack ==
  /\ List(frames)
  /\ frames # <<>> =>
       /\ node \in 1..Len(code)
       /\ Root \in Funcs(code)
       /\ \A j \in 1..Len(frames) :
            /\ frames[j].block \in Root..node - 1
            /\ Open(frames[j].block)
            /\ code[frames[j].block].depth = code[Root].depth + j - 1
       /\ \A j, k \in 1..Len(frames) : j < k => frames[j].block < frames[k].block
       /\ \A b \in Root..node - 1 :
            Open(b) => \E j \in 1..Len(frames) : frames[j].block = b
       /\ DepthAfter(code, node - 1) = code[Root].depth + Len(frames)

\* Only an async with has acquired something, and that is its own function's.
Locks ==
  \A j \in 1..Len(frames) :
    LET f == frames[j]
    IN  f.lock # None =>
          /\ code[f.block].k = "async_with"
          /\ f.lock \in DOMAIN Symbols(code)
          /\ OwnObject(f.lock, DefAround(code, f.block))

\* A function is visited after those around it, and with those in it.
Covered ==
  /\ visited \subseteq Funcs(code)
  /\ frames # <<>> => Root \in visited
  /\ \A v \in visited, d \in Funcs(code) : v \in Inside(code, d) => d \in visited
  /\ \A v \in visited, d \in Funcs(code) : d \in Inside(code, v) =>
       d \in visited \/ (frames # <<>> /\ d \in Inside(code, Root) /\ d >= node)

\* An operation is in a function that was visited, behind the visitor's node.
Placed(op) ==
  /\ op.line \in 1..Len(code)
  /\ \E v \in visited : op.line \in Inside(code, v)
  /\ frames # <<>> /\ op.line \in Inside(code, Root) => op.line < node

Scoped(op, name) ==
  LET d == DefAround(code, op.line)
  IN  /\ d \in Funcs(code) /\ code[d].name = name
      /\ op.obj # None => /\ op.obj \in DOMAIN Symbols(code)
                          /\ op.kind # "GENERIC_AWAIT"
                          /\ OwnObject(op.obj, d)

Ops ==
  /\ program.ops = [name \in FuncNames(code) |-> program.ops[name]]
  /\ \A name \in FuncNames(code) :
       /\ List(program.ops[name])
       /\ \A i \in 1..Len(program.ops[name]) :
            Placed(program.ops[name][i]) /\ Scoped(program.ops[name][i], name)

Fields == {"sync", "ops", "sites", "mult", "assumed", "collisions"}

Shape ==
  /\ program = [x \in Fields |-> program[x]]
  /\ program.sync \subseteq DOMAIN Symbols(code)
  /\ List(program.sites)

Visiting == WellFormed(code) /\ Stack /\ Locks /\ Covered /\ Shape /\ Ops /\ EachCallOnce
-----------------------------------------------------------------------------
(***************************************************************************)
(* Where the visitor is.                                                   *)
(***************************************************************************)
LEMMA StackFacts ==
  ASSUME WellFormed(code), Stack, frames # <<>>
  PROVE  /\ Len(frames) \in Nat \ {0} /\ Root \in 1..Len(code) /\ Root < node
         /\ node \in 1..Len(code) /\ Len(code) \in Nat
         /\ \A i \in 1..Len(code) : code[i].depth \in Nat
         /\ code[node].depth + (IF code[node].k = "end" THEN 1 ELSE 0)
              = code[Root].depth + Len(frames)
         /\ \A l \in Root + 1..node - 1 : code[l].depth > code[Root].depth
         /\ Last(frames) = frames[Len(frames)]
<1>1. /\ Len(code) \in Nat /\ Funcs(code) \subseteq 1..Len(code)
      /\ \A i \in 1..Len(code) : code[i].depth \in Nat
      /\ \A i \in 1..Len(code) :
           DepthAfter(code, i - 1) = code[i].depth + (IF code[i].k = "end" THEN 1 ELSE 0)
  BY TreeFacts
<1>2. Len(frames) \in Nat \ {0}
  BY DEF Stack, List
<1>3. 1 \in 1..Len(frames)
  BY <1>2
<1>4. Root \in Root..node - 1 /\ Open(Root)
  BY <1>3 DEF Stack, Root
<1> QED
  BY <1>1, <1>2, <1>4 DEF Stack, Open, Last

(* Unless it is at the end of that function, the visitor is inside of it.  *)
LEMMA NodeInRoot ==
  ASSUME WellFormed(code), Stack, frames # <<>>, code[node].k # "end" \/ Len(frames) > 1
  PROVE  node \in Inside(code, Root)
<1>1. code[node].depth > code[Root].depth
  BY StackFacts
<1>2. \A l \in Root + 1..node : code[l].depth > code[Root].depth
  BY <1>1, StackFacts
<1> QED
  BY <1>2, StackFacts DEF Inside

(* The blocks around the node, up to that function.                        *)
LEMMA AroundNode ==
  ASSUME WellFormed(code), Stack, frames # <<>>, code[node].k # "end"
  PROVE  \A b \in Root..node - 1 :
           b \in Around(code, node) <=> \E j \in 1..Len(frames) : frames[j].block = b
<1>1. ASSUME NEW j \in 1..Len(frames)
      PROVE  frames[j].block \in Around(code, node)
  <2> DEFINE b == frames[j].block
  <2>1. b \in Root..node - 1 /\ Open(b) /\ code[b].depth = code[Root].depth + j - 1
    BY DEF Stack
  <2> HIDE DEF b
  <2>2. code[node].depth > code[b].depth
    BY <2>1, StackFacts, SMTT(40)
  <2>3. \A l \in b + 1..node : code[l].depth > code[b].depth
    BY <2>1, <2>2, StackFacts DEF Open
  <2>4. b \in 1..node - 1 /\ IsBlock(code, b)
    BY <2>1, StackFacts DEF Open
  <2> QED
    BY <2>3, <2>4 DEF Around, b
<1>2. ASSUME NEW b \in Root..node - 1, b \in Around(code, node) PROVE Open(b)
  <2>1. IsBlock(code, b) /\ \A l \in b + 1..node : code[l].depth > code[b].depth
    BY <1>2 DEF Around
  <2>2. \A l \in b + 1..node - 1 : l \in b + 1..node
    BY StackFacts
  <2> QED
    BY <2>1, <2>2 DEF Open
<1> QED
  BY <1>1, <1>2 DEF Stack

(* At the end of a block, that block is the last of the stack.             *)
LEMMA EndOfLast ==
  ASSUME WellFormed(code), Stack, frames # <<>>, code[node].k = "end"
  PROVE  LET b == Last(frames).block
         IN  /\ b \in Root..node - 1 /\ b \in 1..Len(code) /\ node \in b + 1..Len(code)
             /\ code[node].depth = code[b].depth
             /\ \A l \in b + 1..node - 1 : code[l].depth > code[b].depth
             /\ Around(code, node) = Around(code, b)
<1> PICK b : b = Last(frames).block
  OBVIOUS
<1>1. /\ b \in Root..node - 1 /\ Open(b)
      /\ code[b].depth = code[Root].depth + Len(frames) - 1
  <2>1. Last(frames) = frames[Len(frames)] /\ Len(frames) \in 1..Len(frames)
    BY StackFacts
  <2> QED
    BY <2>1 DEF Stack
<1>2. b \in 1..Len(code) /\ node \in b + 1..Len(code) /\ b \in Root..node - 1
  BY <1>1, StackFacts, SMTT(40)
<1>3. code[node].depth = code[b].depth
  <2>1. code[node].depth + 1 = code[Root].depth + Len(frames)
    BY StackFacts
  <2>2. /\ code[node].depth \in Nat /\ code[b].depth \in Nat /\ code[Root].depth \in Nat
        /\ Len(frames) \in Nat
    BY <1>2, StackFacts
  <2> QED
    BY <1>1, <2>1, <2>2, SMTT(40)
<1>4. \A l \in b + 1..node - 1 : code[l].depth > code[b].depth
  BY <1>1 DEF Open
<1>5. Around(code, node) = Around(code, b)
  BY <1>2, <1>3, <1>4, AroundEnd
<1> QED
  BY <1>2, <1>3, <1>4, <1>5

(* The current function is one of the stack, and the innermost around the  *)
(* node.                                                                   *)
LEMMA CurrentIsDef ==
  ASSUME WellFormed(code), Stack, frames # <<>>
  PROVE  /\ CurrentDef \in Funcs(code) /\ CurrentDef \in Root..node - 1
         /\ \E j \in 1..Len(frames) : frames[j].block = CurrentDef
         /\ \A d \in Funcs(code) :
              (\E j \in 1..Len(frames) : frames[j].block = d) => d <= CurrentDef
<1> DEFINE J == {j \in DOMAIN frames : code[frames[j].block].k = "def"}
<1>1. DOMAIN frames = 1..Len(frames) /\ Len(frames) \in Nat \ {0}
  BY StackFacts, ListFacts DEF Stack
<1>2. J \subseteq Nat /\ \A y \in J : y <= Len(frames)
  BY <1>1
<1>3. Root \in Funcs(code) /\ \A d \in Funcs(code) : code[d].k = "def"
  BY TreeFacts DEF Stack
<1>4. 1 \in J
  BY <1>1, <1>3 DEF Root
<1>5. Max(J) \in J /\ \A y \in J : y <= Max(J)
  BY <1>1, <1>2, <1>4, GreatestIs
<1> DEFINE m == Max(J)
<1>6. CurrentDef = frames[m].block
  BY DEF CurrentDef
<1> HIDE DEF m
<1>7. m \in 1..Len(frames) /\ code[frames[m].block].k = "def"
  BY <1>1, <1>5 DEF m
<1>8. CurrentDef \in Root..node - 1
  BY <1>6, <1>7 DEF Stack
<1>9. CurrentDef \in Funcs(code)
  <2>1. CurrentDef \in 1..Len(code)
    BY <1>8, StackFacts
  <2> QED
    BY <1>6, <1>7, <2>1, TreeFacts DEF Funcs
<1>10. ASSUME NEW d \in Funcs(code), NEW j \in 1..Len(frames), frames[j].block = d
       PROVE  d <= CurrentDef
  <2>1. j \in J
    BY <1>1, <1>3, <1>10
  <2>2. j <= m
    BY <1>5, <2>1 DEF m
  <2>3. j = m \/ frames[j].block < frames[m].block
    BY <1>7, <2>2 DEF Stack
  <2>4. d \in Int /\ CurrentDef \in Int
    BY <1>3, <1>8, TreeFacts
  <2> QED
    BY <1>6, <1>10, <2>3, <2>4
<1> QED
  BY <1>6, <1>7, <1>8, <1>9, <1>10

LEMMA DefOfNode ==
  ASSUME WellFormed(code), Stack, frames # <<>>,
         code[node].k # "end" \/ code[Last(frames).block].k # "def"
  PROVE  DefAround(code, node) = CurrentDef
<1> PICK d : d = CurrentDef
  OBVIOUS
<1>1. /\ d \in Funcs(code) /\ d \in Root..node - 1 /\ code[d].k = "def"
      /\ \A e \in Funcs(code) : (\E j \in 1..Len(frames) : frames[j].block = e) => e <= d
  BY CurrentIsDef, TreeFacts
<1>2. PICK j \in 1..Len(frames) : frames[j].block = d
  BY CurrentIsDef
<1>3. d \in Around(code, node)
  <2>1. CASE code[node].k # "end"
    BY <1>1, <1>2, <2>1, AroundNode
  <2>2. CASE code[node].k = "end"
    <3> PICK b : b = Last(frames).block
      OBVIOUS
    <3>1. /\ b \in Root..node - 1 /\ Around(code, node) = Around(code, b)
      BY <2>2, EndOfLast
    <3>2. code[b].k # "def" /\ b = frames[Len(frames)].block
      BY <2>2, StackFacts
    <3>3. j # Len(frames) /\ j < Len(frames) /\ Len(frames) \in 1..Len(frames)
      BY <1>1, <1>2, <3>2, StackFacts, SMTT(40)
    <3>4. d < b
      BY <1>2, <3>2, <3>3 DEF Stack
    <3>5. Open(d)
      BY <1>2 DEF Stack
    <3>6. d \in 1..b - 1
      BY <1>1, <3>1, <3>4, StackFacts
    <3>7. \A l \in d + 1..b : l \in d + 1..node - 1
      BY <1>1, <3>1, StackFacts
    <3> QED
      BY <3>1, <3>5, <3>6, <3>7 DEF Open, Around
  <2> QED
    BY <2>1, <2>2
<1> PICK D : D = DefAround(code, node)
  OBVIOUS
<1>4. D \in Funcs(code) /\ D \in Around(code, node) /\ d <= D
  BY <1>1, <1>3, StackFacts, InnermostDef
<1>5. D \in 1..node - 1 /\ \A l \in D + 1..node : code[l].depth > code[D].depth
  BY <1>4 DEF Around
<1>6. D \in Root..node - 1 /\ \A l \in D + 1..node - 1 : l \in D + 1..node
  BY <1>1, <1>4, <1>5, StackFacts
<1>7. IsBlock(code, D)
  BY <1>4, TreeFacts
<1>8. Open(D)
  BY <1>5, <1>6, <1>7 DEF Open
<1>9. \E k \in 1..Len(frames) : frames[k].block = D
  BY <1>6, <1>8 DEF Stack
<1>10. D <= d
  BY <1>1, <1>4, <1>9
<1> QED
  BY <1>1, <1>4, <1>5, <1>10

(***************************************************************************)
(* What a name is resolved to is an object of the function it is in.       *)
(***************************************************************************)
LEMMA PrefixesOf ==
  ASSUME NEW s, List(s), NEW k \in 1..Len(s)
  PROVE  IsPrefix(SubSeq(s, 1, k), s)
<1> DEFINE t == SubSeq(s, 1, k)
<1>1. s \in Seq(ToSet(s)) /\ Len(s) \in Nat
  BY DEF List
<1>2. t \in Seq(ToSet(s)) /\ Len(t) = k
  BY <1>1
<1> HIDE DEF t
<1>3. SubSeq(t, 1, k) = t
  BY <1>2
<1> QED
  BY <1>1, <1>2, <1>3 DEF IsPrefix, t

LEMMA LookupsAreOwn ==
  ASSUME WellFormed(code), Stack, frames # <<>>, NEW name
  PROVE  /\ List(Lookups(name))
         /\ \A key \in ToSet(Lookups(name)) : OwnObject(key, CurrentDef) /\ key[3] = Last(name)
<1> DEFINE short == Last(name)
           outer == FunctionScope(code, CurrentDef)
           scope == Append(outer, CurrentCoro)
           cls == ClassScope(code, CurrentDef)
           functions == [j \in 1..Len(scope) |->
                           <<"function", SubSeq(scope, 1, Len(scope) + 1 - j), short>>]
           first == IF OwnAttr(name) /\ cls # None THEN <<<<"class", cls, short>>>> ELSE <<>>
           last == <<<<"module", None, short>>>>
<1>1. Lookups(name) = first \o functions \o last
  BY DEF Lookups
<1>2. List(outer)
  BY CurrentIsDef, TreeFacts, ScopeIsList
<1>3. List(scope) /\ Len(scope) \in Nat
  BY <1>2, ListAppend, ListFacts
<1>4. List(functions) /\ \A key \in ToSet(functions) : OwnObject(key, CurrentDef) /\ key[3] = short
  <2> DEFINE S == {<<"function", SubSeq(scope, 1, k), short>> : k \in 1..Len(scope)}
  <2> HIDE DEF scope, short
  <2>1. \A j \in 1..Len(scope) : Len(scope) + 1 - j \in 1..Len(scope)
    BY <1>3
  <2>2. ASSUME NEW j \in 1..Len(scope)
        PROVE  functions[j] \in S
    <3>1. functions[j] = <<"function", SubSeq(scope, 1, Len(scope) + 1 - j), short>>
      OBVIOUS
    <3> QED
      BY <2>1, <3>1
  <2>3. functions \in [1..Len(scope) -> S]
    BY <2>2
  <2>4. functions \in Seq(S)
    <3> HIDE DEF functions, S
    <3> QED
      BY <1>3, <2>3
  <2>5. \A k \in 1..Len(scope) : IsPrefix(SubSeq(scope, 1, k), scope)
    BY <1>3, PrefixesOf
  <2>6. \A key \in S : OwnObject(key, CurrentDef) /\ key[3] = short
    <3>1. scope = Append(FunctionScope(code, CurrentDef), code[CurrentDef].name)
      BY DEF scope, CurrentCoro
    <3>2. ASSUME NEW k \in 1..Len(scope)
          PROVE  OwnObject(<<"function", SubSeq(scope, 1, k), short>>, CurrentDef)
      BY <2>5, <3>1 DEF OwnObject
    <3> QED
      BY <3>2
  <2> QED
    BY <2>4, <2>6, IsList
<1>5. List(first) /\ \A key \in ToSet(first) : OwnObject(key, CurrentDef) /\ key[3] = short
  <2> PICK key : key = <<"class", cls, short>>
    OBVIOUS
  <2>1. OwnObject(key, CurrentDef) /\ key[3] = short
    BY DEF OwnObject
  <2>2. first = <<key>> \/ first = <<>>
    OBVIOUS
  <2> HIDE DEF first
  <2> QED
    BY <2>1, <2>2, ShortLists
<1>6. List(last) /\ \A key \in ToSet(last) : OwnObject(key, CurrentDef) /\ key[3] = short
  <2> PICK key : key = <<"module", None, short>>
    OBVIOUS
  <2>1. OwnObject(key, CurrentDef) /\ key[3] = short
    BY DEF OwnObject
  <2>2. last = <<key>>
    OBVIOUS
  <2> HIDE DEF last
  <2> QED
    BY <2>1, <2>2, ShortLists
<1> HIDE DEF first, functions, last
<1>7. List(first \o functions) /\ ToSet(first \o functions) = ToSet(first) \cup ToSet(functions)
  BY <1>4, <1>5, ListJoin
<1>8. /\ List(first \o functions \o last)
      /\ ToSet(first \o functions \o last) = ToSet(first \o functions) \cup ToSet(last)
  BY <1>6, <1>7, ListJoin
<1> QED
  BY <1>1, <1>4, <1>5, <1>6, <1>7, <1>8

LEMMA ResolvedIsOwn ==
  ASSUME WellFormed(code), Stack, frames # <<>>, NEW name, ResolveSync(name) # None
  PROVE  /\ ResolveSync(name) \in DOMAIN Symbols(code)
         /\ OwnObject(ResolveSync(name), CurrentDef)
         /\ ResolveSync(name)[3] = Last(name)
<1> PICK keys : keys = Lookups(name)
  OBVIOUS
<1> PICK found : found = {j \in DOMAIN keys : keys[j] \in DOMAIN Symbols(code)}
  OBVIOUS
<1>1. List(keys) /\ \A key \in ToSet(keys) : OwnObject(key, CurrentDef) /\ key[3] = Last(name)
  BY LookupsAreOwn
<1>2. found # {} /\ ResolveSync(name) = keys[Min(found)]
  BY DEF ResolveSync
<1>3. DOMAIN keys = 1..Len(keys) /\ Len(keys) \in Nat
  BY <1>1, ListFacts
<1>4. found \subseteq Nat
  BY <1>3
<1>5. Min(found) \in found
  BY <1>2, <1>4, LeastIs
<1>6. Min(found) \in DOMAIN keys /\ keys[Min(found)] \in DOMAIN Symbols(code)
  BY <1>5
<1>7. keys[Min(found)] \in ToSet(keys)
  BY <1>6 DEF ToSet
<1> QED
  BY <1>1, <1>2, <1>6, <1>7
-----------------------------------------------------------------------------
(***************************************************************************)
(* The stack after a step of the visitor.                                  *)
(***************************************************************************)
LEMMA EnterStack ==
  ASSUME WellFormed(code), code' = code, NEW d \in Funcs(code), NEW lock,
         frames' = <<[block |-> d, lock |-> lock]>>, node' = d + 1
  PROVE  Stack' /\ Root' = d /\ Len(frames)' = 1 /\ frames'[1] = [block |-> d, lock |-> lock]
<1>1. /\ Len(code) \in Nat /\ d \in 1..Len(code) /\ code[d].depth \in Nat
      /\ IsBlock(code, d) /\ DepthAfter(code, Len(code)) = 0
  BY TreeFacts
<1>2. DepthAfter(code, d) = code[d].depth + 1
  BY <1>1 DEF DepthAfter
<1>3. d # Len(code) /\ node' \in 1..Len(code) /\ node' - 1 = d
  BY <1>1, <1>2
<1>4. List(frames') /\ Len(frames') = 1 /\ frames'[1].block = d
  BY ShortLists
<1>5. Root' = d
  BY <1>4 DEF Root
<1>6. \A b \in d..node' - 1 : b = d
  BY <1>1, <1>3
<1>7. Open(d)'
  BY <1>1, <1>3 DEF Open, IsBlock
<1> QED
  BY <1>1, <1>2, <1>3, <1>4, <1>5, <1>6, <1>7 DEF Stack

(* What stays open behind the node.                                        *)
LEMMA StaysOpen ==
  ASSUME WellFormed(code), Stack, frames # <<>>, code' = code, node' = node + 1,
         NEW b \in Root..node - 1
  PROVE  Open(b)' <=> Open(b) /\ code[node].depth > code[b].depth
<1>1. \A l : l \in b + 1..node' - 1 <=> l \in b + 1..node - 1 \/ l = node
  BY StackFacts, SMTT(40)
<1> QED
  BY <1>1 DEF Open, IsBlock

LEMMA OpenAtNode ==
  ASSUME WellFormed(code), Stack, frames # <<>>, code' = code, node' = node + 1,
         NEW n, n = node
  PROVE  /\ Open(n)' <=> IsBlock(code, n)
         /\ node' - 1 = n
         /\ \A b : b \in Root..node' - 1 <=> b \in Root..node - 1 \/ b = n
         /\ DepthAfter(code, n) > 0 => node' \in 1..Len(code)
<1>1. DepthAfter(code, Len(code)) = 0
  BY TreeFacts
<1>2. node' - 1 = n /\ Root \in 1..Len(code) /\ Root < n /\ n \in 1..Len(code) /\ Len(code) \in Nat
  BY StackFacts
<1>3. Open(n)' <=> IsBlock(code, n)
  BY <1>2 DEF Open, IsBlock
<1>4. \A b : b \in Root..n <=> b \in Root..n - 1 \/ b = n
  BY <1>2
<1>5. DepthAfter(code, n) > 0 => node' \in 1..Len(code)
  <2>1. DepthAfter(code, n) > 0 => n # Len(code)
    BY <1>1
  <2> QED
    BY <1>2, <2>1
<1> QED
  BY <1>2, <1>3, <1>4, <1>5

LEMMA PushStack ==
  ASSUME WellFormed(code), Stack, frames # <<>>, IsBlock(code, node), NEW lock,
         code' = code, node' = node + 1,
         frames' = Append(frames, [block |-> node, lock |-> lock])
  PROVE  /\ Stack' /\ frames' # <<>> /\ Root' = Root
         /\ Len(frames)' = Len(frames) + 1
         /\ \A j \in 1..Len(frames) : frames'[j] = frames[j]
         /\ frames'[Len(frames) + 1] = [block |-> node, lock |-> lock]
<1> PICK m, n : m = Len(frames) /\ n = node
  OBVIOUS
<1>1. /\ m \in Nat \ {0} /\ Root \in 1..Len(code) /\ Root < node /\ node \in 1..Len(code)
      /\ code[node].depth \in Nat /\ code[Root].depth \in Nat
  BY StackFacts
<1>2. /\ List(frames') /\ Len(frames') = m + 1
      /\ \A j \in 1..m : frames'[j] = frames[j]
      /\ frames'[m + 1] = [block |-> node, lock |-> lock]
  BY ListAppend DEF Stack
<1>3. code[node].k # "end" /\ code[node].depth = code[Root].depth + m
  <2>1. code[node].k # "end"
    BY DEF IsBlock, Blocks
  <2> QED
    BY <1>1, <2>1, StackFacts
<1>4. DepthAfter(code, node) = code[Root].depth + m + 1
  BY <1>1, <1>3 DEF DepthAfter
<1>5. node' \in 1..Len(code) /\ Open(n)' /\ node' - 1 = n
  BY <1>1, <1>4, OpenAtNode
<1>6. Root' = Root /\ frames' # <<>>
  BY <1>1, <1>2 DEF Root
<1>7. ASSUME NEW j \in 1..m
      PROVE  /\ frames[j].block \in Root..node - 1
             /\ Open(frames[j].block)'
             /\ code[frames[j].block].depth = code[Root].depth + j - 1
  <2> PICK b : b = frames[j].block
    OBVIOUS
  <2>1. b \in Root..node - 1 /\ Open(b) /\ code[b].depth = code[Root].depth + j - 1
    BY DEF Stack
  <2>2. code[node].depth > code[b].depth
    BY <1>1, <1>3, <2>1
  <2>3. Open(b)'
    BY <2>1, <2>2, StaysOpen
  <2> QED
    BY <2>1, <2>3
<1>8. \A j \in 1..m + 1 :
        (/\ frames[j].block \in Root..node - 1
         /\ Open(frames[j].block)
         /\ code[frames[j].block].depth = code[Root].depth + j - 1)'
  <2>1. ASSUME NEW j \in 1..m
        PROVE  (/\ frames[j].block \in Root..node - 1
                /\ Open(frames[j].block)
                /\ code[frames[j].block].depth = code[Root].depth + j - 1)'
    <3> PICK b : b = frames[j].block
      OBVIOUS
    <3>1. /\ b \in Root..node - 1 /\ Open(b)' /\ code[b].depth = code[Root].depth + j - 1
          /\ (frames[j].block)' = b
      BY <1>2, <1>7
    <3>2. b \in Root'..node' - 1 /\ (code[b].depth = code[Root].depth + j - 1)'
      BY <1>1, <1>5, <1>6, <3>1
    <3> QED
      BY <3>1, <3>2
  <2>2. (/\ frames[m + 1].block \in Root..node - 1
         /\ Open(frames[m + 1].block)
         /\ code[frames[m + 1].block].depth = code[Root].depth + (m + 1) - 1)'
    <3>1. (frames[m + 1].block)' = n
      BY <1>2
    <3>2. /\ n \in Root'..node' - 1 /\ code'[n].depth = code'[Root'].depth + (m + 1) - 1
      BY <1>1, <1>3, <1>5, <1>6
    <3> QED
      BY <1>5, <3>1, <3>2
  <2>3. \A j \in 1..m + 1 : j \in 1..m \/ j = m + 1
    BY <1>1
  <2> QED
    BY <2>1, <2>2, <2>3
<1>9. ASSUME NEW j \in 1..m + 1, NEW k \in 1..m + 1, j < k
      PROVE  frames'[j].block < frames'[k].block
  <2>1. j \in 1..m
    BY <1>1, <1>9
  <2>2. CASE k \in 1..m
    BY <1>2, <1>9, <2>1, <2>2 DEF Stack
  <2>3. CASE k = m + 1
    <3>1. frames[j].block \in Root..node - 1
      BY <1>7, <2>1
    <3> QED
      BY <1>1, <1>2, <2>1, <2>3, <3>1, SMTT(40)
  <2> QED
    BY <1>1, <2>2, <2>3
<1>10. ASSUME NEW b \in Root..node' - 1, Open(b)'
       PROVE  \E j \in 1..m + 1 : frames'[j].block = b
  <2>1. CASE b = n
    BY <1>1, <1>2, <2>1
  <2>2. CASE b \in Root..node - 1
    <3>1. Open(b)
      BY <1>10, <2>2, StaysOpen
    <3>2. PICK j \in 1..m : frames[j].block = b
      BY <2>2, <3>1 DEF Stack
    <3> QED
      BY <1>1, <1>2, <3>2
  <2> QED
    BY <2>1, <2>2, OpenAtNode
<1>11. DepthAfter(code, node' - 1) = code[Root].depth + (m + 1)
  <2>1. DepthAfter(code, node' - 1) = DepthAfter(code, node)
    BY <1>5
  <2>2. \A x \in Nat : x + m + 1 = x + (m + 1)
    BY <1>1
  <2> QED
    BY <1>1, <1>4, <2>1, <2>2
<1>12. \A j, k \in 1..m + 1 : j < k => frames'[j].block < frames'[k].block
  BY <1>9
<1>13. \A b \in Root'..node' - 1 : Open(b)' => \E j \in 1..m + 1 : frames'[j].block = b
  BY <1>6, <1>10
<1>14. Root' \in Funcs(code')
  BY <1>6 DEF Stack
<1>15. DepthAfter(code', node' - 1) = code'[Root'].depth + (m + 1)
  BY <1>6, <1>11
<1>16. Stack'
  BY <1>2, <1>5, <1>6, <1>8, <1>12, <1>13, <1>14, <1>15 DEF Stack
<1> QED
  BY <1>2, <1>6, <1>16

LEMMA StayStack ==
  ASSUME WellFormed(code), Stack, frames # <<>>, ~IsBlock(code, node), code[node].k # "end",
         code' = code, node' = node + 1, frames' = frames
  PROVE  Stack' /\ Root' = Root
<1> PICK m, n : m = Len(frames) /\ n = node
  OBVIOUS
<1>1. /\ m \in Nat \ {0} /\ Root \in 1..Len(code) /\ Root < n /\ n \in 1..Len(code)
      /\ code[n].depth \in Nat /\ code[Root].depth \in Nat
      /\ code[n].depth = code[Root].depth + m
  BY StackFacts
<1>2. DepthAfter(code, n) = code[Root].depth + m
  BY <1>1 DEF DepthAfter
<1>3. node' \in 1..Len(code) /\ ~Open(n)' /\ node' - 1 = n
  BY <1>1, <1>2, OpenAtNode
<1>4. Root' = Root
  BY DEF Root
<1>5. ASSUME NEW j \in 1..m
      PROVE  (/\ frames[j].block \in Root..node - 1
              /\ Open(frames[j].block)
              /\ code[frames[j].block].depth = code[Root].depth + j - 1)'
  <2> PICK b : b = frames[j].block
    OBVIOUS
  <2>1. b \in Root..node - 1 /\ Open(b) /\ code[b].depth = code[Root].depth + j - 1
    BY DEF Stack
  <2>2. code[node].depth > code[b].depth
    BY <1>1, <2>1
  <2>3. Open(b)' /\ (frames[j].block)' = b /\ b \in Root'..node' - 1
    BY <1>1, <1>3, <1>4, <2>1, <2>2, StaysOpen, SMTT(40)
  <2>4. (code[b].depth = code[Root].depth + j - 1)'
    BY <1>4, <2>1
  <2> QED
    BY <2>3, <2>4
<1>6. ASSUME NEW b \in Root'..node' - 1, Open(b)'
      PROVE  \E j \in 1..m : frames'[j].block = b
  <2>1. b \in Root..node - 1
    BY <1>3, <1>4, <1>6, OpenAtNode
  <2> QED
    BY <1>6, <2>1, StaysOpen DEF Stack
<1>7. DepthAfter(code', node' - 1) = code'[Root'].depth + m
  BY <1>2, <1>3, <1>4
<1>8. /\ Root' \in Funcs(code') /\ List(frames') /\ m = Len(frames')
      /\ \A j, k \in 1..m : j < k => frames'[j].block < frames'[k].block
      /\ node' \in 1..Len(code')
  BY <1>3, <1>4 DEF Stack
<1>9. Stack'
  BY <1>5, <1>6, <1>7, <1>8 DEF Stack
<1> QED
  BY <1>4, <1>9

(* The end of the last block; that of the function ends the visit.         *)
LEMMA PopStack ==
  ASSUME WellFormed(code), Stack, frames # <<>>, code[node].k = "end",
         code' = code, node' = node + 1, frames' = Front(frames)
  PROVE  /\ Stack' /\ Len(frames)' = Len(frames) - 1
         /\ frames' # <<>> <=> Len(frames) > 1
         /\ frames' # <<>> => Root' = Root
         /\ \A j \in 1..Len(frames) - 1 : frames'[j] = frames[j]
<1> PICK m, n : m = Len(frames) /\ n = node
  OBVIOUS
<1>1. /\ m \in Nat \ {0} /\ Root \in 1..Len(code) /\ Root < n /\ n \in 1..Len(code)
      /\ code[n].depth \in Nat /\ code[Root].depth \in Nat
      /\ code[n].depth + 1 = code[Root].depth + m
  BY StackFacts
<1>2. /\ List(frames') /\ Len(frames') = m - 1
      /\ \A j \in 1..m - 1 : frames'[j] = frames[j]
  BY ListFront DEF Stack
<1>3. frames' # <<>> <=> m > 1
  BY <1>1, <1>2 DEF List
<1>4. CASE m = 1
  BY <1>2, <1>3, <1>4 DEF Stack
<1>5. CASE m > 1
  <2>1. DepthAfter(code, n) = code[Root].depth + (m - 1)
    <3>1. ~IsBlock(code, n)
      BY DEF IsBlock, Blocks
    <3>2. DepthAfter(code, n) = code[n].depth
      BY <1>1, <3>1 DEF DepthAfter
    <3>3. \A x, y \in Nat : x + 1 = y + m => x = y + (m - 1)
      BY <1>1
    <3> QED
      BY <1>1, <3>2, <3>3
  <2>2. node' \in 1..Len(code) /\ ~Open(n)' /\ node' - 1 = n
    <3>1. ~IsBlock(code, n)
      BY DEF IsBlock, Blocks
    <3>2. DepthAfter(code, n) > 0
      BY <1>1, <1>5, <2>1
    <3> QED
      BY <3>1, <3>2, OpenAtNode
  <2>3. Root' = Root
    BY <1>1, <1>2, <1>5 DEF Root
  <2>4. ASSUME NEW j \in 1..m - 1
        PROVE  (/\ frames[j].block \in Root..node - 1
                /\ Open(frames[j].block)
                /\ code[frames[j].block].depth = code[Root].depth + j - 1)'
    <3> PICK b : b = frames[j].block
      OBVIOUS
    <3>1. j \in 1..m
      BY <1>1
    <3>2. b \in Root..node - 1 /\ Open(b) /\ code[b].depth = code[Root].depth + j - 1
      BY <3>1 DEF Stack
    <3>3. code[node].depth > code[b].depth
      <4>1. \A x, y \in Nat : x + 1 = y + m => x > y + j - 1
        BY <1>1
      <4> QED
        BY <1>1, <3>2, <4>1
    <3>4. Open(b)'
      BY <3>2, <3>3, StaysOpen
    <3>5. (frames[j].block)' = b
      BY <1>2
    <3>6. b \in Root'..node' - 1
      BY <1>1, <2>2, <2>3, <3>2, SMTT(40)
    <3>7. (code[b].depth = code[Root].depth + j - 1)'
      BY <2>3, <3>2
    <3> QED
      BY <3>4, <3>5, <3>6, <3>7
  <2>5. ASSUME NEW b \in Root'..node' - 1, Open(b)'
        PROVE  \E j \in 1..m - 1 : frames'[j].block = b
    <3>1. b \in Root..node - 1
      BY <2>2, <2>3, <2>5, OpenAtNode
    <3>2. Open(b) /\ code[node].depth > code[b].depth
      BY <2>5, <3>1, StaysOpen
    <3>3. PICK j \in 1..m : frames[j].block = b
      BY <3>1, <3>2 DEF Stack
    <3>4. code[b].depth = code[Root].depth + j - 1
      BY <3>3 DEF Stack
    <3>5. j \in 1..m - 1
      BY <1>1, <3>2, <3>4, SMTT(40)
    <3> QED
      BY <1>2, <3>3, <3>5
  <2>6. DepthAfter(code', node' - 1) = code'[Root'].depth + (m - 1)
    BY <2>1, <2>2, <2>3
  <2>7. \A j, k \in 1..m - 1 : j < k => frames'[j].block < frames'[k].block
    <3>1. \A j \in 1..m - 1 : j \in 1..m
      BY <1>1
    <3>2. \A j, k \in 1..m : j < k => frames[j].block < frames[k].block
      BY DEF Stack
    <3> QED
      BY <1>2, <3>1, <3>2
  <2>8. Root' \in Funcs(code')
    BY <2>3 DEF Stack
  <2>9. Stack'
    BY <1>2, <2>2, <2>4, <2>5, <2>6, <2>7, <2>8 DEF Stack
  <2> QED
    BY <1>2, <1>3, <2>3, <2>9
<1> QED
  BY <1>1, <1>4, <1>5
-----------------------------------------------------------------------------
(***************************************************************************)
(* What a step of the visitor keeps.                                       *)
(***************************************************************************)
LEMMA OwnObjectKept ==
  ASSUME code' = code
  PROVE  \A obj, d : OwnObject(obj, d)' <=> OwnObject(obj, d)
BY DEF OwnObject

\* A step of a visit: it goes on to the next node.
Steps ==
  /\ frames # <<>> /\ code' = code /\ node' = node + 1
  /\ frames' # <<>> => Root' = Root
  /\ frames' = <<>> => code[node].depth = code[Root].depth

LEMMA CoveredKept ==
  ASSUME WellFormed(code), Stack, Covered, Steps, visited' = visited, code[node].k # "def"
  PROVE  Covered'
<1>1. /\ frames # <<>> /\ code' = code /\ node' = node + 1
      /\ frames' # <<>> => Root' = Root
      /\ node \in 1..Len(code) /\ Root \in 1..Len(code) /\ Root < node /\ Len(code) \in Nat
      /\ \A i \in 1..Len(code) : code[i].depth \in Nat
  BY StackFacts DEF Steps
<1>2. ASSUME NEW v \in visited, NEW d \in Funcs(code), d \in Inside(code, v), d \notin visited
      PROVE  frames' # <<>> /\ d \in Inside(code, Root) /\ d >= node'
  <2>1. d \in Inside(code, Root) /\ d >= node
    BY <1>2 DEF Covered
  <2>2. d \in 1..Len(code) /\ code[d].k = "def"
    BY TreeFacts
  <2>3. d # node
    BY <2>2
  <2>4. node \in Root + 1..d
    BY <1>1, <2>1, <2>2
  <2>5. code[node].depth > code[Root].depth
    BY <2>1, <2>4 DEF Inside
  <2>6. frames' # <<>>
    BY <1>1, <2>5 DEF Steps
  <2> QED
    BY <1>1, <2>1, <2>2, <2>3, <2>6
<1>3. /\ visited' \subseteq Funcs(code')
      /\ frames' # <<>> => Root' \in visited'
      /\ \A v \in visited', d \in Funcs(code') : v \in Inside(code', d) => d \in visited'
  BY <1>1 DEF Covered
<1>4. \A v \in visited', d \in Funcs(code') : d \in Inside(code', v) =>
        d \in visited' \/ (frames' # <<>> /\ d \in Inside(code', Root') /\ d >= node')
  BY <1>1, <1>2
<1> QED
  BY <1>3, <1>4 DEF Covered

LEMMA PlacedKept ==
  ASSUME WellFormed(code), Stack, Steps, visited \subseteq visited', NEW op, Placed(op)
  PROVE  Placed(op)'
<1>1. op.line \in 1..Len(code) /\ node \in Nat /\ node' = node + 1 /\ code' = code
  BY StackFacts DEF Placed, Steps
<1>2. \E v \in visited' : op.line \in Inside(code', v)
  BY <1>1 DEF Placed
<1>3. frames' # <<>> /\ op.line \in Inside(code', Root') => op.line < node'
  <2>1. frames' # <<>> /\ op.line \in Inside(code', Root') => op.line < node
    BY <1>1 DEF Placed, Steps
  <2> QED
    BY <1>1, <2>1
<1> QED
  BY <1>1, <1>2, <1>3 DEF Placed

LEMMA ScopedKept ==
  ASSUME code' = code, NEW op, NEW name, Scoped(op, name)
  PROVE  Scoped(op, name)'
<1>1. DefAround(code, op.line)' = DefAround(code, op.line)
  OBVIOUS
<1> QED
  BY <1>1, OwnObjectKept DEF Scoped

(* A step that adds no operation.                                          *)
LEMMA OpsKept ==
  ASSUME WellFormed(code), Stack, Steps, Ops, EachCallOnce, visited \subseteq visited',
         program'.ops = program.ops
  PROVE  Ops' /\ EachCallOnce'
<1>1. code' = code
  BY DEF Steps
<1>2. ASSUME NEW name \in FuncNames(code'), NEW i \in 1..Len(program.ops[name])
      PROVE  Placed(program.ops[name][i])' /\ Scoped(program.ops[name][i], name)'
  <2> PICK op : op = program.ops[name][i]
    OBVIOUS
  <2>1. Placed(op) /\ Scoped(op, name)
    BY <1>1 DEF Ops
  <2>2. Placed(op)' /\ Scoped(op, name)'
    BY <1>1, <2>1, PlacedKept, ScopedKept
  <2>3. (program.ops[name][i])' = op
    OBVIOUS
  <2> QED
    BY <2>2, <2>3
<1>3. Ops'
  <2>1. /\ program'.ops = [name \in FuncNames(code') |-> program'.ops[name]]
        /\ \A name \in FuncNames(code') : List(program'.ops[name])
    BY <1>1 DEF Ops
  <2>2. \A name \in FuncNames(code') : \A i \in 1..Len(program'.ops[name]) :
          Placed(program.ops[name][i])' /\ Scoped(program.ops[name][i], name)'
    BY <1>2
  <2> QED
    BY <2>1, <2>2 DEF Ops
<1>4. EachCallOnce'
  BY DEF EachCallOnce
<1> QED
  BY <1>3, <1>4

(* A step that adds the operation of its node: nothing was recorded there  *)
(* before.                                                                 *)
LEMMA OpsEmitted ==
  ASSUME WellFormed(code), Stack, Steps, Covered, Ops, EachCallOnce, visited' = visited,
         \/ code[node].k # "end"
         \/ Len(frames) > 1 /\ code[Last(frames).block].k # "def",
         NEW op, op.line = node,
         op.obj # None => /\ op.obj \in DOMAIN Symbols(code)
                          /\ op.kind # "GENERIC_AWAIT"
                          /\ OwnObject(op.obj, CurrentDef),
         program'.ops = [program.ops EXCEPT ![CurrentCoro] = Append(@, op)]
  PROVE  Ops' /\ EachCallOnce'
<1> PICK g : g = CurrentCoro
  OBVIOUS
<1> PICK ops : ops = program.ops
  OBVIOUS
<1> PICK new : new = program'.ops
  OBVIOUS
<1>1. /\ code' = code /\ node' = node + 1 /\ frames # <<>>
      /\ node \in 1..Len(code) /\ Len(code) \in Nat
      /\ node \in Inside(code, Root) /\ Root \in visited
      /\ frames' # <<>> => Root' = Root
  BY NodeInRoot, StackFacts DEF Steps, Covered
<1>2. /\ CurrentDef \in Funcs(code) /\ DefAround(code, node) = CurrentDef
      /\ g = code[CurrentDef].name /\ g \in FuncNames(code)
  BY <1>1, CurrentIsDef, DefOfNode DEF CurrentCoro, FuncNames
<1>3. Placed(op)' /\ Scoped(op, g)'
  <2>1. Placed(op)'
    <3>1. op.line \in 1..Len(code') /\ op.line < node' /\ op.line \in Inside(code', Root)
      BY <1>1
    <3> QED
      BY <1>1, <3>1 DEF Placed
  <2>2. Scoped(op, g)
    BY <1>2 DEF Scoped
  <2> QED
    BY <1>1, <2>1, <2>2, ScopedKept
<1>4. /\ ops = [name \in FuncNames(code) |-> ops[name]]
      /\ \A name \in FuncNames(code) : List(ops[name]) /\ DOMAIN ops[name] = 1..Len(ops[name])
      /\ \A name \in FuncNames(code) : \A i \in 1..Len(ops[name]) :
           Placed(ops[name][i]) /\ Scoped(ops[name][i], name)
  BY ListFacts DEF Ops
<1>5. /\ new = [name \in FuncNames(code) |-> new[name]]
      /\ \A name \in FuncNames(code) : name # g => new[name] = ops[name]
      /\ new[g] = Append(ops[g], op)
  BY <1>2, <1>4
<1>6. /\ List(new[g]) /\ Len(new[g]) = Len(ops[g]) + 1 /\ Len(ops[g]) \in Nat
      /\ DOMAIN new[g] = 1..Len(ops[g]) + 1
      /\ \A i \in 1..Len(ops[g]) : new[g][i] = ops[g][i]
      /\ new[g][Len(ops[g]) + 1] = op
  <2>1. List(ops[g])
    BY <1>2, <1>4
  <2>2. List(new[g]) /\ Len(new[g]) = Len(ops[g]) + 1
    BY <1>5, <2>1, ListAppend
  <2>3. Len(ops[g]) \in Nat /\ DOMAIN new[g] = 1..Len(new[g])
    BY <2>1, <2>2, ListFacts
  <2> QED
    BY <1>5, <2>1, <2>2, <2>3, ListAppend
\* What is in the program now was there before, or is the new one.
<1>7. ASSUME NEW name \in FuncNames(code), NEW i \in 1..Len(new[name])
      PROVE  \/ i \in 1..Len(ops[name]) /\ new[name][i] = ops[name][i]
             \/ name = g /\ i = Len(ops[g]) + 1 /\ new[name][i] = op
  <2>1. CASE name # g
    BY <1>5, <1>7, <2>1
  <2>2. CASE name = g
    BY <1>6, <1>7, <2>2
  <2> QED
    BY <2>1, <2>2
<1>8. ASSUME NEW name \in FuncNames(code), NEW i \in 1..Len(new[name])
      PROVE  (Placed(program.ops[name][i]) /\ Scoped(program.ops[name][i], name))'
  <2> PICK o : o = new[name][i]
    OBVIOUS
  <2>1. CASE name = g /\ o = op
    BY <1>3, <2>1
  <2>2. CASE i \in 1..Len(ops[name]) /\ o = ops[name][i]
    BY <1>1, <1>4, <2>2, PlacedKept, ScopedKept
  <2>3. Placed(o)' /\ Scoped(o, name)'
    BY <1>7, <2>1, <2>2
  <2>4. (program.ops[name][i])' = o
    OBVIOUS
  <2> QED
    BY <2>3, <2>4
<1>9. Ops'
  <2>1. /\ program'.ops = [name \in FuncNames(code') |-> program'.ops[name]]
        /\ \A name \in FuncNames(code') : List(program'.ops[name])
    BY <1>1, <1>4, <1>5, <1>6
  <2>2. \A name \in FuncNames(code') : \A i \in 1..Len(program'.ops[name]) :
          (Placed(program.ops[name][i]) /\ Scoped(program.ops[name][i], name))'
    BY <1>1, <1>8
  <2> QED
    BY <2>1, <2>2 DEF Ops
<1>10. \A name \in FuncNames(code) : \A i \in 1..Len(ops[name]) : ops[name][i].line # node
  BY <1>1, <1>4 DEF Placed
<1>11. \A f, h \in FuncNames(code) : \A i \in 1..Len(ops[f]), j \in 1..Len(ops[h]) :
         ops[f][i].line = ops[h][j].line => f = h /\ i = j
  BY <1>4 DEF EachCallOnce
<1>12. ASSUME NEW f \in FuncNames(code), NEW h \in FuncNames(code),
              NEW i \in 1..Len(new[f]), NEW j \in 1..Len(new[h]),
              new[f][i].line = new[h][j].line
       PROVE  f = h /\ i = j
  <2>1. CASE i \in 1..Len(ops[f]) /\ new[f][i] = ops[f][i]
    <3>1. new[h][j] # op
      BY <1>10, <1>12, <2>1
    <3>2. j \in 1..Len(ops[h]) /\ new[h][j] = ops[h][j]
      BY <1>7, <3>1
    <3> QED
      BY <1>11, <1>12, <2>1, <3>2
  <2>2. CASE f = g /\ i = Len(ops[g]) + 1 /\ new[f][i] = op
    <3>1. ~(j \in 1..Len(ops[h]) /\ new[h][j] = ops[h][j])
      BY <1>10, <1>12, <2>2
    <3> QED
      BY <1>7, <2>2, <3>1
  <2> QED
    BY <1>7, <2>1, <2>2
<1>13. DOMAIN new = FuncNames(code) /\ \A f \in FuncNames(code) : DOMAIN new[f] = 1..Len(new[f])
  BY <1>4, <1>5, <1>6
<1>14. \A f, h \in DOMAIN new : \A i \in DOMAIN new[f], j \in DOMAIN new[h] :
         new[f][i].line = new[h][j].line => f = h /\ i = j
  <2> SUFFICES ASSUME NEW f \in DOMAIN new, NEW h \in DOMAIN new,
                      NEW i \in DOMAIN new[f], NEW j \in DOMAIN new[h],
                      new[f][i].line = new[h][j].line
               PROVE  f = h /\ i = j
    OBVIOUS
  <2>1. f \in FuncNames(code) /\ h \in FuncNames(code)
    BY <1>13
  <2>2. i \in 1..Len(new[f]) /\ j \in 1..Len(new[h])
    BY <1>13, <2>1
  <2> QED
    BY <1>12, <2>1, <2>2
<1>15. EachCallOnce'
  BY <1>14 DEF EachCallOnce
<1> QED
  BY <1>9, <1>15

(***************************************************************************)
(* What the steps do to the program.                                       *)
(***************************************************************************)
IsProgram(p) == p = [x \in Fields |-> p[x]]

LEMMA WithSyncParts ==
  ASSUME NEW p, IsProgram(p), NEW obj
  PROVE  LET q == WithSync(p, obj)
         IN  /\ IsProgram(q)
             /\ q.ops = p.ops /\ q.sites = p.sites /\ q.mult = p.mult /\ q.assumed = p.assumed
             /\ q.sync = IF obj = None THEN p.sync ELSE p.sync \cup {obj}
<1>1. DOMAIN p = Fields
  BY DEF IsProgram
<1> QED
  BY <1>1 DEF WithSync, IsProgram, Fields

LEMMA EmitParts ==
  ASSUME NEW p, IsProgram(p), NEW kind, NEW obj, NEW note
  PROVE  LET q == Emit(p, kind, obj, note)
         IN  /\ IsProgram(q)
             /\ q.sync = p.sync /\ q.sites = p.sites /\ q.mult = p.mult /\ q.assumed = p.assumed
             /\ q.ops = [p.ops EXCEPT ![CurrentCoro] =
                  Append(@, [kind |-> kind, obj |-> obj, line |-> node, note |-> note])]
<1>1. DOMAIN p = Fields
  BY DEF IsProgram
<1> QED
  BY <1>1 DEF Emit, IsProgram, Fields

LEMMA WithSiteParts ==
  ASSUME NEW p, IsProgram(p), NEW i, NEW handled, List(p.sites)
  PROVE  LET q == WithSite(p, i, handled)
         IN  /\ IsProgram(q)
             /\ q.sync = p.sync /\ q.ops = p.ops /\ q.mult = p.mult /\ q.assumed = p.assumed
             /\ List(q.sites)
<1>1. DOMAIN p = Fields
  BY DEF IsProgram
<1> PICK site : site = [coro |-> CurrentCoro, line |-> i, handled |-> handled,
                        callee |-> WaitForCallee(code, CurrentDef, i)]
  OBVIOUS
<1>2. WithSite(p, i, handled) = [p EXCEPT !.sites = Append(@, site)]
  BY DEF WithSite
<1>3. List(Append(p.sites, site))
  BY ListAppend
<1> QED
  BY <1>1, <1>2, <1>3 DEF IsProgram, Fields

(***************************************************************************)
(* What was acquired stays that of the stack.                              *)
(***************************************************************************)
LEMMA LocksPushed ==
  ASSUME WellFormed(code), Stack, Locks, frames # <<>>, IsBlock(code, node), NEW lock,
         code' = code, node' = node + 1,
         frames' = Append(frames, [block |-> node, lock |-> lock]),
         lock # None => /\ code[node].k = "async_with"
                        /\ lock \in DOMAIN Symbols(code)
                        /\ OwnObject(lock, DefAround(code, node))
  PROVE  Locks'
<1> PICK m, n : m = Len(frames) /\ n = node
  OBVIOUS
<1>1. /\ Len(frames') = m + 1 /\ \A j \in 1..m : frames'[j] = frames[j]
      /\ frames'[m + 1] = [block |-> n, lock |-> lock] /\ m \in Nat
  BY PushStack, StackFacts
<1>2. ASSUME NEW j \in 1..m + 1, frames'[j].lock # None
      PROVE  /\ code'[frames'[j].block].k = "async_with"
             /\ frames'[j].lock \in DOMAIN Symbols(code')
             /\ OwnObject(frames[j].lock, DefAround(code, frames[j].block))'
  <2> PICK f : f = frames'[j]
    OBVIOUS
  <2>1. /\ code[f.block].k = "async_with" /\ f.lock \in DOMAIN Symbols(code)
        /\ OwnObject(f.lock, DefAround(code, f.block))
    <3>1. CASE j \in 1..m
      BY <1>1, <1>2, <3>1 DEF Locks
    <3>2. CASE j = m + 1
      BY <1>1, <1>2, <3>2
    <3> QED
      BY <1>1, <3>1, <3>2
  <2>2. OwnObject(f.lock, DefAround(code, f.block))'
    BY <2>1, OwnObjectKept
  <2>3. (frames[j].lock)' = f.lock /\ (frames[j].block)' = f.block
    OBVIOUS
  <2> QED
    BY <2>1, <2>2, <2>3
<1> QED
  BY <1>1, <1>2 DEF Locks

LEMMA LocksLeft ==
  ASSUME Locks, code' = code, Len(frames') \in Nat, Len(frames') <= Len(frames),
         Len(frames) \in Nat, \A j \in 1..Len(frames') : frames'[j] = frames[j]
  PROVE  Locks'
<1>1. ASSUME NEW j \in 1..Len(frames'), frames'[j].lock # None
      PROVE  /\ code'[frames'[j].block].k = "async_with"
             /\ frames'[j].lock \in DOMAIN Symbols(code')
             /\ OwnObject(frames[j].lock, DefAround(code, frames[j].block))'
  <2> PICK f : f = frames'[j]
    OBVIOUS
  <2>1. /\ code[f.block].k = "async_with" /\ f.lock \in DOMAIN Symbols(code)
        /\ OwnObject(f.lock, DefAround(code, f.block))
    BY <1>1 DEF Locks
  <2>2. OwnObject(f.lock, DefAround(code, f.block))'
    BY <2>1, OwnObjectKept
  <2>3. (frames[j].lock)' = f.lock /\ (frames[j].block)' = f.block
    OBVIOUS
  <2> QED
    BY <2>1, <2>2, <2>3
<1> QED
  BY <1>1 DEF Locks

(* A block is entered: nothing is known of it but its lock.                *)
LEMMA PushSteps ==
  ASSUME WellFormed(code), Stack, frames # <<>>, IsBlock(code, node), NEW lock,
         code' = code, node' = node + 1,
         frames' = Append(frames, [block |-> node, lock |-> lock])
  PROVE  Steps
BY PushStack DEF Steps

LEMMA StaySteps ==
  ASSUME WellFormed(code), Stack, frames # <<>>, ~IsBlock(code, node), code[node].k # "end",
         code' = code, node' = node + 1, frames' = frames
  PROVE  Steps
BY StayStack DEF Steps

LEMMA PopSteps ==
  ASSUME WellFormed(code), Stack, frames # <<>>, code[node].k = "end",
         code' = code, node' = node + 1, frames' = Front(frames)
  PROVE  Steps
<1>1. /\ frames' # <<>> <=> Len(frames) > 1
      /\ frames' # <<>> => Root' = Root
  BY PopStack
<1>2. ASSUME frames' = <<>> PROVE code[node].depth = code[Root].depth
  <2>1. Len(frames) = 1
    <3> PICK m : m = Len(frames)
      OBVIOUS
    <3>1. m \in Nat \ {0}
      BY StackFacts
    <3>2. ~(m > 1)
      BY <1>1, <1>2
    <3> QED
      BY <3>1, <3>2
  <2>2. Last(frames).block = Root
    BY <2>1, StackFacts DEF Root
  <2> QED
    BY <2>2, EndOfLast
<1> QED
  BY <1>1, <1>2 DEF Steps
-----------------------------------------------------------------------------
(***************************************************************************)
(* The visitor's steps.                                                    *)
(***************************************************************************)
\* What a step leaves of what the file said.
Untouched ==
  code' = code /\ program'.mult = program.mult /\ program'.assumed = program.assumed

(* A step inside of a function, from what it does to each part.            *)
LEMMA StepKeeps ==
  ASSUME Visiting, Steps, Stack', Locks', Covered', visited \subseteq visited',
         Ops' /\ EachCallOnce', IsProgram(program'), program'.sync \subseteq DOMAIN Symbols(code),
         List(program'.sites), program'.mult = program.mult, program'.assumed = program.assumed
  PROVE  Visiting' /\ Untouched
BY DEF Visiting, Untouched, Steps, Shape, IsProgram

LEMMA CoveredDef ==
  ASSUME WellFormed(code), Stack, Covered, Steps, frames' # <<>>, code[node].k = "def",
         visited' = visited \cup {node}
  PROVE  Covered'
<1> PICK n, r : n = node /\ r = Root
  OBVIOUS
<1>1. /\ code' = code /\ node' = n + 1 /\ Root' = r /\ frames # <<>>
      /\ n \in 1..Len(code) /\ r \in 1..Len(code) /\ r < n /\ Len(code) \in Nat
      /\ r \in Funcs(code) /\ r \in visited
  <2>1. code' = code /\ node' = n + 1 /\ Root' = r /\ frames # <<>>
    BY DEF Steps
  <2>2. /\ node \in 1..Len(code) /\ Root \in 1..Len(code) /\ Root < node /\ Len(code) \in Nat
    BY <2>1, StackFacts
  <2>3. r \in Funcs(code) /\ r \in visited
    BY <2>1 DEF Stack, Covered
  <2> QED
    BY <2>1, <2>2, <2>3
<1>2. n \in Inside(code, r)
  BY <1>1, NodeInRoot
<1>3. n \in Funcs(code) /\ \A d \in Funcs(code) : d \in 1..Len(code)
  BY <1>1, TreeFacts DEF Funcs
<1>4. ASSUME NEW d \in Funcs(code), n \in Inside(code, d), d # r
      PROVE  d \in visited
  <2>1. d \in 1..n - 1
    <3>1. n \in d + 1..Len(code) /\ d \in 1..Len(code)
      BY <1>3, <1>4 DEF Inside
    <3> QED
      BY <1>1, <3>1
  <2>2. CASE d < r
    <3>1. r \in Inside(code, d)
      BY <1>1, <1>2, <1>3, <1>4, <2>2, AroundNest
    <3> QED
      BY <1>1, <1>4, <3>1 DEF Covered
  <2>3. CASE r < d
    <3>1. d \in Inside(code, r)
      BY <1>1, <1>2, <1>3, <1>4, <2>3, AroundNest
    <3>2. d \in visited \/ d >= node
      BY <1>1, <1>4, <3>1 DEF Covered
    <3> QED
      BY <1>1, <2>1, <3>2
  <2> QED
    BY <1>1, <1>4, <2>1, <2>2, <2>3
<1>5. ASSUME NEW d \in Funcs(code), d \in Inside(code, n)
      PROVE  d \in Inside(code, r) /\ d >= n + 1
  <2>1. d \in n + 1..Len(code)
    BY <1>5 DEF Inside
  <2>2. d \in Inside(code, r)
    BY <1>1, <1>2, <1>5, InsideInside
  <2> QED
    BY <1>1, <2>1, <2>2
<1>6. ASSUME NEW v \in visited, NEW d \in Funcs(code), d \in Inside(code, v)
      PROVE  d \in visited' \/ (d \in Inside(code, r) /\ d >= n + 1)
  <2>1. d \in visited \/ (d \in Inside(code, r) /\ d >= n)
    BY <1>1, <1>6 DEF Covered
  <2>2. d \in 1..Len(code)
    BY <1>3
  <2> QED
    BY <1>1, <2>1, <2>2
<1>7. visited' \subseteq Funcs(code') /\ Root' \in visited'
  BY <1>1, <1>3 DEF Covered
<1>8. \A v \in visited', d \in Funcs(code') : v \in Inside(code', d) => d \in visited'
  BY <1>1, <1>4 DEF Covered
<1>9. \A v \in visited', d \in Funcs(code') : d \in Inside(code', v) =>
        d \in visited' \/ (frames' # <<>> /\ d \in Inside(code', Root') /\ d >= node')
  BY <1>1, <1>5, <1>6
<1> QED
  BY <1>7, <1>8, <1>9 DEF Covered

LEMMA VisitFunctionDefKeeps ==
  ASSUME Visiting, VisitFunctionDef
  PROVE  Visiting' /\ Untouched
<1>1. /\ frames # <<>> /\ code[node].k = "def" /\ code' = code /\ node' = node + 1
      /\ frames' = Append(frames, [block |-> node, lock |-> None])
      /\ visited' = visited \cup {node} /\ program' = program
  BY DEF VisitFunctionDef, At, EnterFunction
<1>2. WellFormed(code) /\ Stack /\ Locks /\ Covered /\ Ops /\ EachCallOnce /\ Shape
  BY DEF Visiting
<1>3. IsBlock(code, node)
  BY <1>1 DEF IsBlock, Blocks
<1>4. Stack' /\ Steps /\ frames' # <<>>
  BY <1>1, <1>2, <1>3, PushStack, PushSteps
<1>5. Locks'
  BY <1>1, <1>2, <1>3, LocksPushed
<1>6. Covered'
  BY <1>1, <1>2, <1>4, CoveredDef
<1>7. Ops' /\ EachCallOnce'
  BY <1>1, <1>2, <1>4, OpsKept
<1>8. visited \subseteq visited'
  BY <1>1
<1> QED
  BY <1>1, <1>2, <1>4, <1>5, <1>6, <1>7, <1>8, StepKeeps DEF Shape, IsProgram

(* Steps that record at most a wait_for site.                              *)
LEMMA QuietKeeps ==
  ASSUME Visiting, Steps, Stack', Locks', visited' = visited, code[node].k # "def",
         \/ program' = program
         \/ \E i, handled : program' = WithSite(program, i, handled)
  PROVE  Visiting' /\ Untouched
<1>1. WellFormed(code) /\ Stack /\ Locks /\ Covered /\ Ops /\ EachCallOnce /\ Shape
  BY DEF Visiting
<1>2. /\ IsProgram(program') /\ program'.sync = program.sync /\ program'.ops = program.ops
      /\ program'.mult = program.mult /\ program'.assumed = program.assumed
      /\ List(program'.sites)
  <2>1. CASE program' = program
    BY <1>1, <2>1 DEF Shape, IsProgram
  <2>2. CASE \E i, handled : program' = WithSite(program, i, handled)
    <3>1. PICK i, handled : program' = WithSite(program, i, handled)
      BY <2>2
    <3>2. IsProgram(program) /\ List(program.sites)
      BY <1>1 DEF Shape, IsProgram
    <3>3. PICK q : q = WithSite(program, i, handled)
      OBVIOUS
    <3>4. /\ IsProgram(q) /\ q.sync = program.sync /\ q.ops = program.ops
          /\ q.mult = program.mult /\ q.assumed = program.assumed /\ List(q.sites)
      BY <3>2, <3>3, WithSiteParts
    <3> QED
      BY <3>1, <3>3, <3>4
  <2> QED
    BY <2>1, <2>2
<1>3. Covered'
  BY <1>1, CoveredKept
<1>4. Ops' /\ EachCallOnce'
  BY <1>1, <1>2, OpsKept
<1>5. program'.sync \subseteq DOMAIN Symbols(code) /\ visited \subseteq visited'
  BY <1>1, <1>2 DEF Shape
<1> QED
  BY <1>2, <1>3, <1>4, <1>5, StepKeeps

LEMMA VisitWithKeeps ==
  ASSUME Visiting, VisitWith \/ VisitTry
  PROVE  Visiting' /\ Untouched
<1>1. /\ frames # <<>> /\ code[node].k \in {"suppress", "try"} /\ code' = code
      /\ node' = node + 1 /\ visited' = visited
      /\ frames' = Append(frames, [block |-> node, lock |-> None])
      /\ \/ program' = program
         \/ \E i, handled : program' = WithSite(program, i, handled)
  BY DEF VisitWith, VisitTry, At, Push
<1>2. WellFormed(code) /\ Stack /\ Locks
  BY DEF Visiting
<1>3. IsBlock(code, node) /\ code[node].k # "def"
  BY <1>1 DEF IsBlock, Blocks
<1>4. Stack' /\ Steps
  BY <1>1, <1>2, <1>3, PushStack, PushSteps
<1>5. Locks'
  BY <1>1, <1>2, <1>3, LocksPushed
<1> QED
  BY <1>1, <1>3, <1>4, <1>5, QuietKeeps

LEMMA VisitOtherKeeps ==
  ASSUME Visiting, VisitOther
  PROVE  Visiting' /\ Untouched
<1>1. /\ frames # <<>> /\ code' = code
      /\ code[node].k \in {"class", "for", "while", "if", "with", "except", "finally"}
      /\ node' = node + 1 /\ visited' = visited /\ program' = program
  BY DEF VisitOther
<1>2. WellFormed(code) /\ Stack /\ Locks
  BY DEF Visiting
<1>3. CASE code[node].k = "finally"
  <2>1. frames' = frames /\ ~IsBlock(code, node) /\ code[node].k # "end" /\ code[node].k # "def"
    BY <1>3 DEF VisitOther, IsBlock, Blocks
  <2>2. Stack' /\ Steps
    BY <1>1, <1>2, <2>1, StayStack, StaySteps
  <2>3. Locks'
    <3>1. Len(frames) \in Nat
      BY <1>1, <1>2, StackFacts
    <3> QED
      BY <1>1, <1>2, <2>1, <3>1, LocksLeft
  <2> QED
    BY <1>1, <2>1, <2>2, <2>3, QuietKeeps
<1>4. CASE code[node].k # "finally"
  <2>1. /\ frames' = Append(frames, [block |-> node, lock |-> None])
        /\ IsBlock(code, node) /\ code[node].k # "def"
    BY <1>1, <1>4 DEF VisitOther, Push, IsBlock, Blocks
  <2>2. Stack' /\ Steps
    BY <1>1, <1>2, <2>1, PushStack, PushSteps
  <2>3. Locks'
    BY <1>1, <1>2, <2>1, LocksPushed
  <2> QED
    BY <1>1, <2>1, <2>2, <2>3, QuietKeeps
<1> QED
  BY <1>3, <1>4

(* A step that adds an object of the current function, and perhaps an      *)
(* operation on it.                                                        *)
LEMMA OperationKeeps ==
  ASSUME Visiting, Steps, Stack', Locks', visited' = visited, code[node].k \notin {"def", "end"},
         NEW obj, obj # None => obj \in DOMAIN Symbols(code) /\ OwnObject(obj, CurrentDef),
         \/ program' = WithSync(program, obj)
         \/ \E kind, note : /\ obj # None => kind # "GENERIC_AWAIT"
                            /\ program' = Emit(WithSync(program, obj), kind, obj, note)
  PROVE  Visiting' /\ Untouched
<1>1. /\ WellFormed(code) /\ Stack /\ Locks /\ Covered /\ Ops /\ EachCallOnce /\ Shape
      /\ IsProgram(program) /\ program.sync \subseteq DOMAIN Symbols(code) /\ List(program.sites)
  BY DEF Visiting, Shape, IsProgram
<1> PICK q : q = WithSync(program, obj)
  OBVIOUS
<1>2. /\ IsProgram(q) /\ q.ops = program.ops /\ q.sites = program.sites
      /\ q.mult = program.mult /\ q.assumed = program.assumed
      /\ q.sync = IF obj = None THEN program.sync ELSE program.sync \cup {obj}
  BY <1>1, WithSyncParts
<1>3. q.sync \subseteq DOMAIN Symbols(code)
  BY <1>1, <1>2
<1>4. Covered' /\ visited \subseteq visited'
  BY <1>1, CoveredKept
<1>5. CASE program' = q
  <2>1. Ops' /\ EachCallOnce'
    BY <1>1, <1>2, <1>4, <1>5, OpsKept
  <2> QED
    BY <1>1, <1>2, <1>3, <1>4, <1>5, <2>1, StepKeeps
<1>6. CASE \E kind, note : /\ obj # None => kind # "GENERIC_AWAIT"
                           /\ program' = Emit(q, kind, obj, note)
  <2>1. PICK kind, note : /\ obj # None => kind # "GENERIC_AWAIT"
                          /\ program' = Emit(q, kind, obj, note)
    BY <1>6
  <2> PICK op : op = [kind |-> kind, obj |-> obj, line |-> node, note |-> note]
    OBVIOUS
  <2> PICK r : r = Emit(q, kind, obj, note)
    OBVIOUS
  <2>2. /\ IsProgram(r) /\ r.sync = q.sync /\ r.sites = q.sites /\ r.mult = q.mult
        /\ r.assumed = q.assumed
        /\ r.ops = [q.ops EXCEPT ![CurrentCoro] = Append(@, op)]
    BY <1>2, EmitParts
  <2>3. Ops' /\ EachCallOnce'
    <3>1. /\ op.line = node /\ code[node].k # "end"
          /\ op.obj # None => /\ op.obj \in DOMAIN Symbols(code)
                              /\ op.kind # "GENERIC_AWAIT"
                              /\ OwnObject(op.obj, CurrentDef)
      BY <2>1
    <3>2. program'.ops = [program.ops EXCEPT ![CurrentCoro] = Append(@, op)]
      BY <1>2, <2>1, <2>2
    <3> QED
      BY <1>1, <3>1, <3>2, OpsEmitted
  <2> QED
    BY <1>1, <1>2, <1>3, <1>4, <2>1, <2>2, <2>3, StepKeeps
<1> QED
  BY <1>5, <1>6

LEMMA VisitAsyncWithKeeps ==
  ASSUME Visiting, VisitAsyncWith
  PROVE  Visiting' /\ Untouched
<1> PICK obj : obj = ResolveSync(code[node].obj)
  OBVIOUS
<1> PICK lock : lock = IF obj # None /\ Symbols(code)[obj] = "LOCK" THEN obj ELSE None
  OBVIOUS
<1>1. /\ frames # <<>> /\ code[node].k = "async_with" /\ code' = code
      /\ node' = node + 1 /\ visited' = visited
      /\ frames' = Append(frames, [block |-> node, lock |-> lock])
      /\ program' = IF lock = None THEN WithSync(program, obj)
                    ELSE Emit(WithSync(program, obj), "ACQUIRE", lock, None)
  BY DEF VisitAsyncWith, At, Push
<1>2. WellFormed(code) /\ Stack /\ Locks
  BY DEF Visiting
<1>3. IsBlock(code, node) /\ code[node].k \notin {"def", "end"}
  BY <1>1 DEF IsBlock, Blocks
<1>4. obj # None => obj \in DOMAIN Symbols(code) /\ OwnObject(obj, CurrentDef)
  BY <1>1, <1>2, ResolvedIsOwn
<1>5. Stack' /\ Steps
  BY <1>1, <1>2, <1>3, PushStack, PushSteps
<1>6. lock # None => lock = obj
  OBVIOUS
<1>7. Locks'
  <2>1. DefAround(code, node) = CurrentDef
    BY <1>1, <1>2, <1>3, DefOfNode
  <2> QED
    BY <1>1, <1>2, <1>3, <1>4, <1>6, <2>1, LocksPushed
<1>8. \/ program' = WithSync(program, obj)
      \/ \E kind, note : /\ obj # None => kind # "GENERIC_AWAIT"
                         /\ program' = Emit(WithSync(program, obj), kind, obj, note)
  <2>1. "ACQUIRE" # "GENERIC_AWAIT"
    OBVIOUS
  <2> QED
    BY <1>1, <1>6, <2>1
<1> QED
  BY <1>1, <1>3, <1>4, <1>5, <1>7, <1>8, OperationKeeps

LEMMA HandleCallExprKeeps ==
  ASSUME Visiting, HandleCallExpr
  PROVE  Visiting' /\ Untouched
<1>1. /\ frames # <<>> /\ code[node].k = "call" /\ code' = code
      /\ node' = node + 1 /\ visited' = visited /\ frames' = frames
  BY DEF HandleCallExpr, At
<1>2. WellFormed(code) /\ Stack /\ Locks
  BY DEF Visiting
<1>3. ~IsBlock(code, node) /\ code[node].k \notin {"def", "end"}
  BY <1>1 DEF IsBlock, Blocks
<1>4. Stack' /\ Steps
  BY <1>1, <1>2, <1>3, StayStack, StaySteps
<1>5. Locks'
  <2>1. Len(frames) \in Nat
    BY <1>1, <1>2, StackFacts
  <2> QED
    BY <1>1, <1>2, <2>1, LocksLeft
<1>6. CASE program' = program \/ \E i, handled : program' = WithSite(program, i, handled)
  BY <1>1, <1>3, <1>4, <1>5, <1>6, QuietKeeps
<1>7. CASE program' = AfterCall(program)
  <2> PICK t : t = code[node]
    OBVIOUS
  <2> PICK obj : obj = IF Len(t.f) = 1 THEN None ELSE ResolveSync(Front(t.f))
    OBVIOUS
  <2> PICK op : op = IF obj = None THEN "none"
                     ELSE OpOf(Symbols(code)[obj], Last(t.f), code[CurrentDef].async)
    OBVIOUS
  <2>1. obj # None => obj \in DOMAIN Symbols(code) /\ OwnObject(obj, CurrentDef)
    BY <1>1, <1>2, ResolvedIsOwn
  <2>2. program' = IF obj = None
                   THEN IF t.await THEN Emit(program, "GENERIC_AWAIT", None, Last(t.f))
                        ELSE program
                   ELSE IF op = "none" THEN WithSync(program, obj)
                   ELSE Emit(WithSync(program, obj), op, obj, None)
    BY <1>7 DEF AfterCall
  <2>3. CASE obj = None
    <3>1. WithSync(program, obj) = program
      BY <2>3 DEF WithSync
    <3>2. \/ program' = WithSync(program, obj)
          \/ \E kind, note : /\ obj # None => kind # "GENERIC_AWAIT"
                             /\ program' = Emit(WithSync(program, obj), kind, obj, note)
      BY <2>2, <2>3, <3>1
    <3> QED
      BY <1>1, <1>3, <1>4, <1>5, <2>1, <3>2, OperationKeeps
  <2>4. CASE obj # None
    <3>1. op # "GENERIC_AWAIT"
      BY <2>4 DEF OpOf
    <3>2. \/ program' = WithSync(program, obj)
          \/ \E kind, note : /\ obj # None => kind # "GENERIC_AWAIT"
                             /\ program' = Emit(WithSync(program, obj), kind, obj, note)
      BY <2>2, <2>4, <3>1
    <3> QED
      BY <1>1, <1>3, <1>4, <1>5, <2>1, <3>2, OperationKeeps
  <2> QED
    BY <2>3, <2>4
<1> QED
  BY <1>6, <1>7 DEF HandleCallExpr

LEMMA LeaveBlockKeeps ==
  ASSUME Visiting, LeaveBlock
  PROVE  Visiting' /\ Untouched
<1> PICK lock, b, m : lock = Last(frames).lock /\ b = Last(frames).block /\ m = Len(frames)
  OBVIOUS
<1>1. /\ frames # <<>> /\ code[node].k = "end" /\ code' = code
      /\ node' = node + 1 /\ visited' = visited /\ frames' = Front(frames)
      /\ program' = IF lock = None THEN program ELSE Emit(program, "RELEASE", lock, None)
  BY DEF LeaveBlock, At
<1>2. /\ WellFormed(code) /\ Stack /\ Locks /\ Covered /\ Ops /\ EachCallOnce /\ Shape
      /\ IsProgram(program) /\ program.sync \subseteq DOMAIN Symbols(code) /\ List(program.sites)
  BY DEF Visiting, Shape, IsProgram
<1>3. Stack' /\ Steps
  BY <1>1, <1>2, PopStack, PopSteps
<1>4. m \in Nat \ {0} /\ Last(frames) = frames[m]
  BY <1>1, <1>2, StackFacts
<1>5. Locks'
  <2>1. Len(frames') = m - 1 /\ \A j \in 1..m - 1 : frames'[j] = frames[j]
    BY <1>1, <1>2, PopStack
  <2>2. m - 1 \in Nat /\ m - 1 <= m
    BY <1>4
  <2> QED
    BY <1>1, <1>2, <1>4, <2>1, <2>2, LocksLeft
<1>6. CASE lock = None
  BY <1>1, <1>3, <1>5, <1>6, QuietKeeps
<1>7. CASE lock # None
  <2>1. /\ code[b].k = "async_with" /\ lock \in DOMAIN Symbols(code)
        /\ OwnObject(lock, DefAround(code, b))
    <3>1. m \in 1..Len(frames) /\ frames[m].lock = lock /\ frames[m].block = b
      BY <1>4
    <3> QED
      BY <1>2, <1>7, <3>1 DEF Locks
  <2>2. m > 1
    <3>1. code[Root].k = "def"
      BY <1>1, <1>2, TreeFacts DEF Stack
    <3>2. m # 1
      BY <1>4, <2>1, <3>1 DEF Root
    <3> QED
      BY <1>4, <3>2
  <2>3. OwnObject(lock, CurrentDef)
    <3>1. Around(code, node) = Around(code, b)
      BY <1>1, <1>2, EndOfLast
    <3>2. DefAround(code, node) = DefAround(code, b)
      BY <3>1 DEF DefAround, Innermost
    <3>3. DefAround(code, node) = CurrentDef
      BY <1>1, <1>2, <2>1, DefOfNode
    <3> QED
      BY <2>1, <3>2, <3>3
  <2> PICK op : op = [kind |-> "RELEASE", obj |-> lock, line |-> node, note |-> None]
    OBVIOUS
  <2> PICK r : r = Emit(program, "RELEASE", lock, None)
    OBVIOUS
  <2>4. /\ IsProgram(r) /\ r.sync = program.sync /\ r.sites = program.sites
        /\ r.mult = program.mult /\ r.assumed = program.assumed
        /\ r.ops = [program.ops EXCEPT ![CurrentCoro] = Append(@, op)]
    BY <1>2, EmitParts
  <2>5. Ops' /\ EachCallOnce'
    <3>1. /\ op.line = node /\ op.obj \in DOMAIN Symbols(code)
          /\ op.kind # "GENERIC_AWAIT" /\ OwnObject(op.obj, CurrentDef)
      BY <2>1, <2>3
    <3>2. program'.ops = [program.ops EXCEPT ![CurrentCoro] = Append(@, op)]
      BY <1>1, <1>7, <2>4
    <3>3. Len(frames) > 1 /\ code[Last(frames).block].k # "def"
      BY <2>1, <2>2
    <3> QED
      BY <1>1, <1>2, <1>3, <3>1, <3>2, <3>3, OpsEmitted
  <2>6. Covered' /\ visited \subseteq visited'
    BY <1>1, <1>2, <1>3, CoveredKept
  <2> QED
    BY <1>1, <1>2, <1>3, <1>5, <1>7, <2>4, <2>5, <2>6, StepKeeps
<1> QED
  BY <1>6, <1>7

(* The visit of the next function: none of its operations is recorded yet, *)
(* and the functions around it are all visited.                            *)
LEMMA VisitNextFunctionKeeps ==
  ASSUME Visiting, VisitNextFunction
  PROVE  Visiting' /\ Untouched
<1>1. frames = <<>> /\ code' = code /\ program' = program
  BY DEF VisitNextFunction
<1>2. /\ WellFormed(code) /\ Stack /\ Locks /\ Covered /\ Ops /\ EachCallOnce /\ Shape
  BY DEF Visiting
<1>3. PICK d \in Funcs(code) \ visited :
        /\ \A e \in Funcs(code) \ visited : e # d => WalkedBefore(code, d, e)
        /\ visited' = visited \cup {d} /\ node' = d + 1
        /\ frames' = Append(frames, [block |-> d, lock |-> None])
  BY DEF VisitNextFunction, EnterFunction
<1>4. frames' = <<[block |-> d, lock |-> None]>>
  BY <1>1, <1>3
<1>5. Stack' /\ Root' = d /\ Len(frames') = 1 /\ frames'[1] = [block |-> d, lock |-> None]
  BY <1>1, <1>2, <1>3, <1>4, EnterStack
<1>6. Locks'
  <2>1. \A j \in 1..Len(frames') : frames'[j].lock = None
    BY <1>5
  <2> QED
    BY <2>1 DEF Locks
<1>7. /\ Len(code) \in Nat /\ \A e \in Funcs(code) : e \in 1..Len(code)
      /\ \A e \in 1..Len(code) : code[e].depth \in Nat
      /\ visited \subseteq Funcs(code)
  BY <1>2, TreeFacts DEF Covered
<1>8. ASSUME NEW e \in Funcs(code), d \in Inside(code, e)
      PROVE  e \in visited
  <2>1. /\ d \in e + 1..Len(code) /\ code[d].depth > code[e].depth
    BY <1>3, <1>7, <1>8 DEF Inside
  <2>2. ~WalkedBefore(code, d, e) /\ e # d
    <3>1. code[d].depth \in Nat /\ code[e].depth \in Nat /\ e \in Nat /\ d \in Nat
      BY <1>3, <1>7
    <3> QED
      BY <2>1, <3>1 DEF WalkedBefore
  <2> QED
    BY <1>3, <2>2
<1>9. ASSUME NEW e \in Funcs(code), e \in Inside(code, d)
      PROVE  e >= d + 1
  BY <1>3, <1>7, <1>9 DEF Inside
<1>10. Covered'
  <2>1. visited' \subseteq Funcs(code') /\ Root' \in visited'
    BY <1>1, <1>3, <1>5, <1>7
  <2>2. \A v \in visited', e \in Funcs(code') : v \in Inside(code', e) => e \in visited'
    BY <1>1, <1>2, <1>3, <1>8 DEF Covered
  <2>3. \A v \in visited', e \in Funcs(code') : e \in Inside(code', v) =>
          e \in visited' \/ (frames' # <<>> /\ e \in Inside(code', Root') /\ e >= node')
    BY <1>1, <1>2, <1>3, <1>4, <1>5, <1>9 DEF Covered
  <2> QED
    BY <2>1, <2>2, <2>3 DEF Covered
<1>11. ASSUME NEW op, Placed(op)
       PROVE  Placed(op)' /\ op.line \notin Inside(code, d)
  <2>1. PICK v \in visited : op.line \in Inside(code, v)
    BY <1>11 DEF Placed
  <2>2. op.line \in 1..Len(code) /\ v \in Funcs(code) /\ v # d
    BY <1>3, <1>7, <1>11 DEF Placed
  <2>3. op.line \notin Inside(code, d)
    <3>1. SUFFICES ASSUME op.line \in Inside(code, d) PROVE FALSE
      OBVIOUS
    <3>2. CASE v < d
      <4>1. d \in Inside(code, v)
        BY <1>2, <1>3, <1>7, <2>1, <2>2, <3>1, <3>2, AroundNest
      <4> QED
        BY <1>1, <1>2, <1>3, <4>1 DEF Covered
    <3>3. CASE d < v
      <4>1. v \in Inside(code, d)
        BY <1>2, <1>3, <1>7, <2>1, <2>2, <3>1, <3>3, AroundNest
      <4> QED
        BY <1>2, <1>3, <4>1 DEF Covered
    <3> QED
      BY <1>3, <1>7, <2>2, <3>2, <3>3
  <2>4. Placed(op)'
    <3>1. \E w \in visited' : op.line \in Inside(code', w)
      BY <1>1, <1>3, <2>1
    <3>2. op.line \notin Inside(code', Root')
      BY <1>1, <1>5, <2>3
    <3> QED
      BY <1>1, <2>2, <3>1, <3>2 DEF Placed
  <2> QED
    BY <2>3, <2>4
<1>12. Ops'
  <2>1. ASSUME NEW name \in FuncNames(code'), NEW i \in 1..Len(program.ops[name])
        PROVE  Placed(program.ops[name][i])' /\ Scoped(program.ops[name][i], name)'
    <3> PICK op : op = program.ops[name][i]
      OBVIOUS
    <3>1. Placed(op) /\ Scoped(op, name)
      BY <1>1, <1>2, <2>1 DEF Ops
    <3>2. Placed(op)' /\ Scoped(op, name)'
      BY <1>1, <1>11, <3>1, ScopedKept
    <3>3. (program.ops[name][i])' = op
      BY <1>1
    <3> QED
      BY <3>2, <3>3
  <2>2. /\ program'.ops = [name \in FuncNames(code') |-> program'.ops[name]]
        /\ \A name \in FuncNames(code') : List(program'.ops[name])
    BY <1>1, <1>2 DEF Ops
  <2>3. \A name \in FuncNames(code') : \A i \in 1..Len(program'.ops[name]) :
          Placed(program.ops[name][i])' /\ Scoped(program.ops[name][i], name)'
    BY <1>1, <2>1
  <2> QED
    BY <2>2, <2>3 DEF Ops
<1>13. EachCallOnce' /\ Shape' /\ WellFormed(code')
  <2>1. EachCallOnce'
    BY <1>1, <1>2 DEF EachCallOnce
  <2>2. Shape' /\ WellFormed(code')
    BY <1>1, <1>2 DEF Shape
  <2> QED
    BY <2>1, <2>2
<1> QED
  BY <1>1, <1>5, <1>6, <1>10, <1>12, <1>13 DEF Visiting, Untouched

LEMMA VisitKeeps ==
  ASSUME Visiting, Visit
  PROVE  Visiting' /\ Untouched
BY VisitNextFunctionKeeps, VisitFunctionDefKeeps, VisitAsyncWithKeeps, VisitWithKeeps,
   HandleCallExprKeeps, LeaveBlockKeeps, VisitOtherKeeps DEF Visit

(***************************************************************************)
(* Before and after the visits.                                            *)
(***************************************************************************)
\* What a file says of how often its coroutines are spawned is as it says it.
Unassumed == program.mult = SpawnTargets(code) /\ program.assumed = {}

LEMMA BeginExtractVisits ==
  ASSUME NEW c, WellFormed(c), code' = c, frames' = <<>>, visited' = {},
         program' = EmptyProgram(c)
  PROVE  Visiting' /\ Unassumed'
<1>1. /\ program'.ops = [name \in FuncNames(c) |-> <<>>] /\ program'.sync = {}
      /\ program'.sites = <<>> /\ program'.mult = SpawnTargets(c) /\ program'.assumed = {}
      /\ program' = [x \in Fields |-> program'[x]]
  BY DEF EmptyProgram, Fields
<1>2. List(<<>>) /\ \A i \in 1..Len(<<>>) : FALSE
  BY ShortLists
<1>3. Ops'
  <2>1. \A name \in FuncNames(code') : program'.ops[name] = <<>>
    BY <1>1
  <2> QED
    BY <1>1, <1>2, <2>1 DEF Ops
<1>4. EachCallOnce'
  BY <1>1 DEF EachCallOnce
<1>5. Stack' /\ Locks' /\ Covered'
  BY <1>2 DEF Stack, Locks, Covered
<1>6. Shape'
  BY <1>1, <1>2 DEF Shape
<1> QED
  BY <1>1, <1>3, <1>4, <1>5, <1>6 DEF Visiting, Unassumed

LEMMA EmptyVisits ==
  ASSUME WellFormed(code), frames = <<>>, visited = {}, program = EmptyProgram(code)
  PROVE  Visiting /\ Unassumed
<1>1. /\ program.ops = [name \in FuncNames(code) |-> <<>>] /\ program.sync = {}
      /\ program.sites = <<>> /\ program.mult = SpawnTargets(code) /\ program.assumed = {}
      /\ program = [x \in Fields |-> program[x]]
  BY DEF EmptyProgram, Fields
<1>2. List(<<>>) /\ \A i \in 1..Len(<<>>) : FALSE
  BY ShortLists
<1>3. Ops
  <2>1. \A name \in FuncNames(code) : program.ops[name] = <<>>
    BY <1>1
  <2> QED
    BY <1>1, <1>2, <2>1 DEF Ops
<1>4. EachCallOnce
  BY <1>1 DEF EachCallOnce
<1>5. Stack /\ Locks /\ Covered
  BY <1>2 DEF Stack, Locks, Covered
<1>6. Shape
  BY <1>1, <1>2 DEF Shape
<1> QED
  BY <1>1, <1>3, <1>4, <1>5, <1>6 DEF Visiting, Unassumed

(* After the visits neither the visitor nor the operations change.         *)
LEMMA VisitedStays ==
  ASSUME Visiting, code' = code, node' = node, frames' = frames, visited' = visited,
         IsProgram(program'), program'.sync = program.sync, program'.ops = program.ops,
         List(program'.sites)
  PROVE  Visiting'
<1>1. Stack' /\ Locks' /\ Covered'
  <2>1. Stack'
    BY DEF Visiting, Stack, Root, Open
  <2>2. Locks'
    BY OwnObjectKept DEF Visiting, Locks
  <2>3. Covered'
    BY DEF Visiting, Covered, Root
  <2> QED
    BY <2>1, <2>2, <2>3
<1>2. EachCallOnce'
  BY DEF Visiting, EachCallOnce
<1>3. Ops'
  <2>1. ASSUME NEW op, NEW name, Placed(op), Scoped(op, name)
        PROVE  Placed(op)' /\ Scoped(op, name)'
    BY <2>1, ScopedKept DEF Placed, Root
  <2>2. ASSUME NEW name \in FuncNames(code'), NEW i \in 1..Len(program'.ops[name])
        PROVE  Placed(program.ops[name][i])' /\ Scoped(program.ops[name][i], name)'
    <3> PICK op : op = program.ops[name][i]
      OBVIOUS
    <3>1. Placed(op) /\ Scoped(op, name)
      BY <2>2 DEF Visiting, Ops
    <3>2. Placed(op)' /\ Scoped(op, name)'
      BY <2>1, <3>1
    <3>3. (program.ops[name][i])' = op
      OBVIOUS
    <3> QED
      BY <3>2, <3>3
  <2>3. /\ program'.ops = [name \in FuncNames(code') |-> program'.ops[name]]
        /\ \A name \in FuncNames(code') : List(program'.ops[name])
    BY DEF Visiting, Ops
  <2> QED
    BY <2>2, <2>3 DEF Ops
<1>4. Shape' /\ WellFormed(code')
  BY DEF Visiting, Shape, IsProgram
<1> QED
  BY <1>1, <1>2, <1>3, <1>4 DEF Visiting

LEMMA EndExtractKeeps ==
  ASSUME Visiting, EndExtract
  PROVE  /\ Visiting' /\ Untouched
         /\ program'.collisions = CoroNameCollisions(code, program) /\ program'.ops = program.ops
<1> PICK sites, clashes : /\ sites = Resolved(code, program.sites)
                          /\ clashes = CoroNameCollisions(code, program)
  OBVIOUS
<1>1. /\ code' = code /\ node' = node /\ frames' = frames /\ visited' = visited
      /\ program' = [program EXCEPT !.sites = sites, !.collisions = clashes]
  BY DEF EndExtract
<1>2. IsProgram(program) /\ List(program.sites)
  BY DEF Visiting, Shape, IsProgram
<1>3. /\ IsProgram(program') /\ program'.sync = program.sync /\ program'.ops = program.ops
      /\ program'.mult = program.mult /\ program'.assumed = program.assumed
      /\ program'.sites = sites /\ program'.collisions = clashes
  <2>1. DOMAIN program = Fields
    BY <1>2 DEF IsProgram
  <2> QED
    BY <1>1, <2>1 DEF IsProgram, Fields
<1>4. List(sites)
  <2> PICK n : n = Len(program.sites)
    OBVIOUS
  <2> DEFINE f(j) == [program.sites[j] EXCEPT !.handled =
                        @ \/ (program.sites[j].callee # None
                              /\ ResolveChain(code, Head(program.sites[j].callee)))]
             S == {f(j) : j \in 1..n}
  <2>1. n \in Nat /\ DOMAIN program.sites = 1..n
    BY <1>2, ListFacts
  <2>2. sites = [j \in 1..n |-> f(j)]
    BY <2>1 DEF Resolved
  <2> HIDE DEF f
  <2>3. sites \in [1..n -> S]
    BY <2>2
  <2>4. sites \in Seq(S)
    BY <2>1, <2>3
  <2> QED
    BY <2>4, IsList
<1> QED
  BY <1>1, <1>3, <1>4, VisitedStays DEF Untouched
-----------------------------------------------------------------------------
(***************************************************************************)
(* The sweep.                                                              *)
(***************************************************************************)
Stages == {"idle", "extract", "extracted", "ready", "inspected"}

Types ==
  /\ corpus \in Corpora
  /\ done \in 0..Len(corpus)
  /\ stage \in Stages
  /\ stage \in {"extract", "extracted", "ready"} => done < Len(corpus)
  /\ List(csv)
  /\ \A row \in ToSet(csv) : \E j \in 1..done : row.path = corpus[j].path

\* How often a coroutine is taken to be spawned: as the source says or, where that
\* says less than two, as was assumed.
FoundOrAssumed(c, p) ==
  LET found == SpawnTargets(c)
  IN  /\ p.mult = [name \in DOMAIN found \cup p.assumed |->
                     IF name \in p.assumed THEN 2 ELSE found[name]]
      /\ \A name \in DOMAIN found : found[name] >= 2 => name \notin p.assumed

\* The reports of names that are in several classes.
Clashes ==
  \A name \in FuncNames(code) :
    /\ Cardinality({ClassScope(code, d) : d \in {e \in Funcs(code) : code[e].name = name}}) > 1
    /\ \E i \in DOMAIN program.ops[name] : program.ops[name][i].kind # "GENERIC_AWAIT"
    => name \in program.collisions

\* The rows of the last file are of its objects, with what the encoder says of them.
RowsCounted ==
  stage = "idle" /\ done > 0 =>
    \A row \in ToSet(csv) : row.path = LastDone.path /\ row.type # "wait_for" =>
      /\ row.name \in DOMAIN Symbols(code) /\ row.type = KindOf(row.name)
      /\ row.gap = Gap(KindOf(row.name), Waiters(row.name), Releases(row.name))

PInv ==
  /\ Types /\ Visiting /\ WellCalled(code) /\ RowsCounted /\ AssumedIsApart
  /\ FoundOrAssumed(code, program)
  /\ stage \in {"extract", "extracted"} => Unassumed
  /\ stage = "extracted" => Clashes

LEMMA CorpusFacts ==
  ASSUME NEW files \in Corpora
  PROVE  /\ List(files) /\ Len(files) \in Nat
         /\ \A j \in 1..Len(files) : WellFormed(files[j].code) /\ WellCalled(files[j].code)
         /\ \A i, j \in 1..Len(files) : files[i].path = files[j].path => i = j
<1>1. List(files)
  BY CorporaAssumption DEF List
<1>2. Len(files) \in Nat /\ DOMAIN files = 1..Len(files)
  BY <1>1, ListFacts
<1>3. \A j \in DOMAIN files : WellFormed(files[j].code) /\ WellCalled(files[j].code)
  BY CorporaAssumption
<1>4. \A i, j \in DOMAIN files : files[i].path = files[j].path => i = j
  BY CorporaAssumption
<1> QED
  BY <1>1, <1>2, <1>3, <1>4

LEMMA NothingAssumed ==
  ASSUME NEW c, NEW p, p.mult = SpawnTargets(c), p.assumed = {}
  PROVE  FoundOrAssumed(c, p)
<1> PICK found : found = SpawnTargets(c)
  OBVIOUS
<1>1. found = [name \in DOMAIN found |-> found[name]]
  BY DEF SpawnTargets
<1>2. DOMAIN found \cup p.assumed = DOMAIN found
  OBVIOUS
<1>3. p.mult = [name \in DOMAIN found \cup p.assumed |->
                  IF name \in p.assumed THEN 2 ELSE found[name]]
  BY <1>1, <1>2
<1> QED
  BY <1>3 DEF FoundOrAssumed

LEMMA InitPInv ==
  ASSUME Init
  PROVE  PInv
<1>1. /\ corpus \in Corpora /\ done = 0 /\ stage = "idle" /\ csv = <<>> /\ code = <<>>
      /\ frames = <<>> /\ visited = {} /\ program = EmptyProgram(code)
  BY DEF Init
<1>2. List(<<>>) /\ ToSet(<<>>) = {} /\ Len(code) = 0 /\ DOMAIN code = {}
  BY <1>1, ShortLists
<1>3. Types
  BY <1>1, <1>2, CorpusFacts DEF Types, Stages
<1>4. WellFormed(code) /\ WellCalled(code)
  <2>1. code \in Seq(ToSet(code))
    BY <1>1, <1>2 DEF List
  <2>2. DepthAfter(code, Len(code)) = 0
    BY <1>2 DEF DepthAfter
  <2> QED
    BY <1>2, <2>1, <2>2 DEF WellFormed, WellCalled
<1>5. Visiting /\ Unassumed
  BY <1>1, <1>4, EmptyVisits
<1>6. FoundOrAssumed(code, program)
  BY <1>5, NothingAssumed DEF Unassumed
<1>7. RowsCounted /\ AssumedIsApart
  BY <1>1 DEF RowsCounted, AssumedIsApart
<1> QED
  BY <1>1, <1>3, <1>4, <1>5, <1>6, <1>7 DEF PInv

LEMMA NextFilePInv ==
  ASSUME PInv, NextFile
  PROVE  PInv'
<1> PICK c : c = corpus[done + 1].code
  OBVIOUS
<1>1. /\ stage = "idle" /\ done < Len(corpus) /\ stage' = "extract"
      /\ corpus' = corpus /\ done' = done /\ csv' = csv
      /\ code' = c /\ frames' = <<>> /\ visited' = {} /\ program' = EmptyProgram(c)
  BY DEF NextFile, BeginExtract, sweepVars
<1>2. Types /\ corpus \in Corpora /\ done \in 0..Len(corpus)
  BY DEF PInv, Types
<1>3. WellFormed(c) /\ WellCalled(c)
  <2>1. Len(corpus) \in Nat
    BY <1>2, CorpusFacts
  <2>2. done + 1 \in 1..Len(corpus)
    BY <1>1, <1>2, <2>1
  <2> QED
    BY <1>2, <2>2, CorpusFacts
<1>4. Visiting' /\ Unassumed'
  BY <1>1, <1>3, BeginExtractVisits
<1>5. FoundOrAssumed(code', program')
  BY <1>4, NothingAssumed DEF Unassumed
<1>6. Types'
  BY <1>1, <1>2 DEF Types, Stages
<1>7. RowsCounted' /\ AssumedIsApart'
  BY <1>1 DEF RowsCounted, AssumedIsApart
<1> QED
  BY <1>1, <1>3, <1>4, <1>5, <1>6, <1>7 DEF PInv

LEMMA VisitFilePInv ==
  ASSUME PInv, VisitFile
  PROVE  PInv'
<1>1. /\ stage = "extract" /\ stage' = "extract" /\ corpus' = corpus /\ done' = done
      /\ csv' = csv /\ Visit
  BY DEF VisitFile, sweepVars
<1>2. Visiting /\ Unassumed /\ WellCalled(code)
  BY <1>1 DEF PInv
<1>3. Visiting' /\ Untouched
  BY <1>1, <1>2, VisitKeeps
<1>4. Unassumed' /\ code' = code
  BY <1>2, <1>3 DEF Unassumed, Untouched
<1>5. FoundOrAssumed(code', program')
  BY <1>4, NothingAssumed DEF Unassumed
<1>6. Types'
  BY <1>1 DEF PInv, Types
<1>7. RowsCounted' /\ AssumedIsApart'
  BY <1>1 DEF RowsCounted, AssumedIsApart
<1> QED
  BY <1>1, <1>2, <1>3, <1>4, <1>5, <1>6, <1>7 DEF PInv

LEMMA ExtractedPInv ==
  ASSUME PInv, Extracted
  PROVE  PInv'
<1>1. /\ stage = "extract" /\ stage' = "extracted" /\ corpus' = corpus /\ done' = done
      /\ csv' = csv /\ EndExtract
  BY DEF Extracted, sweepVars
<1>2. Visiting /\ Unassumed /\ WellCalled(code)
  BY <1>1 DEF PInv
<1>3. /\ Visiting' /\ Untouched
      /\ program'.collisions = CoroNameCollisions(code, program) /\ program'.ops = program.ops
  BY <1>1, <1>2, EndExtractKeeps
<1>4. Unassumed' /\ code' = code
  BY <1>2, <1>3 DEF Unassumed, Untouched
<1>5. FoundOrAssumed(code', program')
  BY <1>4, NothingAssumed DEF Unassumed
<1>6. Types'
  BY <1>1 DEF PInv, Types, Stages
<1>7. RowsCounted' /\ AssumedIsApart'
  BY <1>1 DEF RowsCounted, AssumedIsApart
<1>8. Clashes'
  BY <1>3, <1>4 DEF Clashes, CoroNameCollisions
<1> QED
  BY <1>1, <1>2, <1>3, <1>4, <1>5, <1>6, <1>7, <1>8 DEF PInv

(***************************************************************************)
(* The rows of a file.                                                     *)
(***************************************************************************)
LEMMA KindIs ==
  ASSUME NEW c, WellFormed(c), NEW obj \in DOMAIN Symbols(c)
  PROVE  Symbols(c)[obj] \in {"LOCK", "QUEUE", "EVENT"}
<1> DEFINE made == {i \in DOMAIN c : /\ IsCall(c, i) /\ ~c[i].await /\ Recordable(c[i].to)
                                     /\ IsRecognizedConstructor(c[i].f)}
           mine == {i \in made : TargetKey(c, i) = obj}
<1>1. /\ obj \in {TargetKey(c, i) : i \in made}
      /\ Symbols(c)[obj] = CONSTRUCTOR_KIND[Last(c[Max(mine)].f)]
  BY DEF Symbols
<1>2. mine # {}
  BY <1>1
<1>3. /\ Len(c) \in Nat /\ DOMAIN c = 1..Len(c)
  BY TreeFacts
<1>4. \A i \in mine : i \in DOMAIN c /\ IsRecognizedConstructor(c[i].f)
  OBVIOUS
<1> HIDE DEF mine
<1>5. Max(mine) \in mine
  <2>1. mine \subseteq Nat /\ \A y \in mine : y <= Len(c)
    BY <1>3, <1>4
  <2> QED
    BY <1>2, <1>3, <2>1, GreatestIs
<1>6. Last(c[Max(mine)].f) \in DOMAIN CONSTRUCTOR_KIND
  BY <1>4, <1>5 DEF IsRecognizedConstructor
<1>7. \A name \in DOMAIN CONSTRUCTOR_KIND :
        CONSTRUCTOR_KIND[name] \in {"LOCK", "QUEUE", "EVENT"}
  BY DEF CONSTRUCTOR_KIND
<1> QED
  BY <1>1, <1>6, <1>7

LEMMA SymbolsFinite ==
  ASSUME NEW c, WellFormed(c)
  PROVE  IsFiniteSet(DOMAIN Symbols(c))
<1> DEFINE made == {i \in DOMAIN c : /\ IsCall(c, i) /\ ~c[i].await /\ Recordable(c[i].to)
                                     /\ IsRecognizedConstructor(c[i].f)}
<1>1. DOMAIN Symbols(c) = {TargetKey(c, i) : i \in made}
  BY DEF Symbols
<1>2. IsFiniteSet(made)
  BY TreeFacts, FiniteDomain
<1> HIDE DEF made
<1> PICK f : f = [i \in made |-> TargetKey(c, i)]
  OBVIOUS
<1>3. f = [i \in made |-> f[i]]
  OBVIOUS
<1>4. IsFiniteSet({f[i] : i \in made})
  BY <1>2, <1>3, FiniteImage
<1>5. {f[i] : i \in made} = {TargetKey(c, i) : i \in made}
  OBVIOUS
<1> QED
  BY <1>1, <1>4, <1>5

LEMMA ListedOnce ==
  ASSUME NEW S, IsFiniteSet(S)
  PROVE  LET n == Cardinality(S)
             s == SetToSeq(S)
         IN  /\ n \in Nat
             /\ \A j \in 1..n : s[j] \in S
             /\ \A j, k \in 1..n : s[j] = s[k] => j = k
             /\ \A x \in S : \E j \in 1..n : s[j] = x
<1> PICK n, s : n = Cardinality(S) /\ s = SetToSeq(S)
  OBVIOUS
<1>1. n \in Nat /\ ExistsBijection(1..n, S)
  BY FS_CardinalityType
<1>2. PICK f : f \in Bijection(1..n, S)
  BY <1>1 DEF ExistsBijection
<1>3. f \in [1..n -> S] /\ IsInjective(f)
  BY <1>2 DEF Bijection, Injection, IsInjective
<1>4. s \in [1..n -> S] /\ IsInjective(s)
  BY <1>3 DEF SetToSeq
<1>5. s \in Injection(1..n, S)
  BY <1>4 DEF Injection, IsInjective
<1>6. IsFiniteSet(1..n) /\ Cardinality(1..n) = n
  BY <1>1, FS_Interval
<1>7. s \in Surjection(1..n, S)
  BY <1>5, <1>6, FS_Injection
<1> QED BY <1>1, <1>4, <1>5, <1>7 DEF Surjection, Injection, IsInjective

LEMMA RowsAre ==
  ASSUME Visiting
  PROVE  /\ List(Rows)
         /\ \A row \in ToSet(Rows) :
              \/ \E obj \in program.sync : row = ObjectRow(obj)
              \/ row.type = "wait_for" /\ row.path = CurrentPath /\ ~row.gap
<1> PICK n : n = Cardinality(program.sync)
  OBVIOUS
<1> PICK objs : objs = SetToSeq(program.sync)
  OBVIOUS
<1> PICK sites : sites = program.sites
  OBVIOUS
<1>1. n \in Nat /\ \A j \in 1..n : objs[j] \in program.sync
  <2>1. WellFormed(code) /\ program.sync \in SUBSET DOMAIN Symbols(code)
    BY DEF Visiting, Shape
  <2>2. IsFiniteSet(program.sync)
    BY <2>1, SymbolsFinite, FS_Subset
  <2> QED
    BY <2>2, ListedOnce
<1>2. List(sites) /\ Len(sites) \in Nat /\ DOMAIN sites = 1..Len(sites)
  BY ListFacts DEF Visiting, Shape
<1> DEFINE S == {ObjectRow(obj) : obj \in program.sync}
           s == [j \in 1..n |-> ObjectRow(objs[j])]
           T == {WaitForRow(sites[j]) : j \in 1..Len(sites)}
           t == [j \in 1..Len(sites) |-> WaitForRow(sites[j])]
<1>3. s \in Seq(S)
  <2>1. s \in [1..n -> S]
    BY <1>1
  <2> HIDE DEF s, S
  <2> QED
    BY <1>1, <2>1
<1>4. t \in Seq(T)
  <2>1. t \in [1..Len(sites) -> T]
    BY <1>2
  <2> HIDE DEF t, T
  <2> QED
    BY <1>2, <2>1
<1>5. Rows = s \o t
  BY <1>2 DEF Rows
<1>6. \A row \in T : row.type = "wait_for" /\ row.path = CurrentPath /\ ~row.gap
  BY DEF WaitForRow
<1>7. \A row \in S : \E obj \in program.sync : row = ObjectRow(obj)
  OBVIOUS
<1> HIDE DEF s, t, S, T
<1>8. List(s) /\ ToSet(s) \subseteq S /\ List(t) /\ ToSet(t) \subseteq T
  BY <1>3, <1>4, IsList
<1>9. List(s \o t) /\ ToSet(s \o t) = ToSet(s) \cup ToSet(t)
  BY <1>8, ListJoin
<1> QED
  BY <1>5, <1>6, <1>7, <1>8, <1>9

(* No row is of a file that comes later.                                   *)
LEMMA OlderRows ==
  ASSUME Types, done < Len(corpus), NEW row \in ToSet(csv)
  PROVE  row.path # corpus[done + 1].path
<1>1. PICK j \in 1..done : row.path = corpus[j].path
  BY DEF Types
<1>2. corpus \in Corpora /\ done \in 0..Len(corpus) /\ Len(corpus) \in Nat
  BY CorpusFacts DEF Types
<1>3. j \in 1..Len(corpus) /\ done + 1 \in 1..Len(corpus) /\ j # done + 1
  BY <1>2
<1> QED
  BY <1>1, <1>2, <1>3, CorpusFacts

LEMMA CheckRaisesPInv ==
  ASSUME PInv, CheckRaises
  PROVE  PInv'
<1>1. /\ stage = "ready" /\ stage' = "idle" /\ corpus' = corpus /\ done' = done + 1
      /\ csv' = csv /\ code' = code /\ node' = node /\ frames' = frames /\ visited' = visited
      /\ program' = program
  BY DEF CheckRaises, extractVars
<1>2. /\ Types /\ Visiting /\ WellCalled(code) /\ FoundOrAssumed(code, program)
      /\ done < Len(corpus) /\ done \in 0..Len(corpus) /\ corpus \in Corpora
      /\ Len(corpus) \in Nat
  BY <1>1, CorpusFacts DEF PInv, Types
<1>3. Visiting'
  BY <1>1, <1>2, VisitedStays DEF Visiting, Shape, IsProgram
<1>4. Types'
  <2>1. done' \in 0..Len(corpus')
    BY <1>1, <1>2
  <2>2. \A j \in 1..done : j \in 1..done'
    BY <1>1, <1>2
  <2> QED
    BY <1>1, <1>2, <2>1, <2>2 DEF Types, Stages
<1>5. RowsCounted'
  <2>1. LastDone' = corpus[done + 1]
    BY <1>1 DEF LastDone
  <2> QED
    BY <1>1, <1>2, <2>1, OlderRows DEF RowsCounted
<1>6. AssumedIsApart'
  BY <1>1 DEF AssumedIsApart
<1> QED
  BY <1>1, <1>2, <1>3, <1>4, <1>5, <1>6 DEF PInv

LEMMA CheckAndExportPInv ==
  ASSUME PInv, CheckAndExport
  PROVE  PInv'
<1>1. /\ stage = "ready" /\ stage' = "idle" /\ corpus' = corpus /\ done' = done + 1
      /\ csv' = csv \o Rows /\ code' = code /\ node' = node /\ frames' = frames
      /\ visited' = visited /\ program' = program
  BY DEF CheckAndExport, extractVars
<1>2. /\ Types /\ Visiting /\ WellCalled(code) /\ FoundOrAssumed(code, program)
      /\ done < Len(corpus) /\ done \in 0..Len(corpus) /\ corpus \in Corpora
      /\ Len(corpus) \in Nat
  BY <1>1, CorpusFacts DEF PInv, Types
<1>3. Visiting'
  BY <1>1, <1>2, VisitedStays DEF Visiting, Shape, IsProgram
<1>4. /\ List(csv) /\ List(csv') /\ ToSet(csv') = ToSet(csv) \cup ToSet(Rows)
  BY <1>1, <1>2, RowsAre, ListJoin DEF Types
<1>5. \A row \in ToSet(Rows) : row.path = corpus[done + 1].path
  BY <1>2, RowsAre DEF ObjectRow, CurrentPath
<1>6. Types'
  <2>1. done' \in 0..Len(corpus') /\ done + 1 \in 1..done'
    BY <1>1, <1>2
  <2>2. \A j \in 1..done : j \in 1..done'
    BY <1>1, <1>2
  <2>3. \A row \in ToSet(csv') : \E j \in 1..done' : row.path = corpus'[j].path
    BY <1>1, <1>2, <1>4, <1>5, <2>1, <2>2 DEF Types
  <2> QED
    BY <1>1, <1>2, <1>4, <2>1, <2>3 DEF Types, Stages
<1>7. RowsCounted'
  <2>1. LastDone' = corpus[done + 1]
    BY <1>1 DEF LastDone
  <2>2. ASSUME NEW row \in ToSet(csv'), row.path = corpus[done + 1].path, row.type # "wait_for"
        PROVE  /\ row.name \in DOMAIN Symbols(code) /\ row.type = KindOf(row.name)
               /\ row.gap = Gap(KindOf(row.name), Waiters(row.name), Releases(row.name))
    <3>1. row \in ToSet(Rows)
      BY <1>2, <1>4, <2>2, OlderRows
    <3>2. PICK obj \in program.sync : row = ObjectRow(obj)
      BY <1>2, <2>2, <3>1, RowsAre
    <3>3. /\ row.name = obj /\ row.type = KindOf(obj)
          /\ row.gap = Gap(KindOf(obj), Waiters(obj), Releases(obj))
      BY <3>2 DEF ObjectRow
    <3>4. obj \in DOMAIN Symbols(code)
      BY <1>2 DEF Visiting, Shape
    <3> QED
      BY <3>3, <3>4
  <2>3. \A obj : /\ KindOf(obj)' = KindOf(obj) /\ Waiters(obj)' = Waiters(obj)
                 /\ Releases(obj)' = Releases(obj)
    BY <1>1 DEF KindOf, Waiters, Releases
  <2> QED
    BY <1>1, <2>1, <2>2, <2>3 DEF RowsCounted
<1>8. AssumedIsApart'
  BY <1>1 DEF AssumedIsApart
<1> QED
  BY <1>1, <1>2, <1>3, <1>6, <1>7, <1>8 DEF PInv

(***************************************************************************)
(* The search of the assumption: the two recursive functions, unrolled.    *)
(***************************************************************************)
\* What is found from a coroutine, given what is found from those it calls.
FoundFrom(p, f, name) ==
  IF TouchesSync(p, name) THEN {name} ELSE UNION {f[callee] : callee \in CalleesOf(p, name)}

Descends(p, found) ==
  /\ found[6] = [name \in DOMAIN p.ops |-> {}]
  /\ \A hops \in 0..5 :
       found[hops] = [name \in DOMAIN p.ops |-> FoundFrom(p, found[hops + 1], name)]

LEMMA DescendantsAre ==
  ASSUME NEW p
  PROVE  \E found : Descendants5(p) = found[0] /\ Descends(p, found)
<1> PICK D : D = DOMAIN p.ops
  OBVIOUS
<1> DEFINE Step(g) == [name \in D |-> FoundFrom(p, g, name)]
           At5(f, hops, name) ==
             CASE hops > 5 -> {}
               [] hops <= 5 /\ TouchesSync(p, name) -> {name}
               [] OTHER -> UNION {f[hops + 1][callee] : callee \in CalleesOf(p, name)}
           Body(f, hops) == [name \in D |-> At5(f, hops, name)]
           found == CHOOSE f : f = [hops \in 0..6 |-> Body(f, hops)]
<1> PICK f6 : f6 = [name \in D |-> {}]
  OBVIOUS
<1> PICK f5 : f5 = Step(f6)
  OBVIOUS
<1> PICK f4 : f4 = Step(f5)
  OBVIOUS
<1> PICK f3 : f3 = Step(f4)
  OBVIOUS
<1> PICK f2 : f2 = Step(f3)
  OBVIOUS
<1> PICK f1 : f1 = Step(f2)
  OBVIOUS
<1> PICK f0 : f0 = Step(f1)
  OBVIOUS
<1> PICK g : g = [hops \in 0..6 |->
                    IF hops = 6 THEN f6 ELSE IF hops = 5 THEN f5 ELSE IF hops = 4 THEN f4
                    ELSE IF hops = 3 THEN f3 ELSE IF hops = 2 THEN f2
                    ELSE IF hops = 1 THEN f1 ELSE f0]
  OBVIOUS
<1>1. ASSUME NEW f, NEW hops \in 0..5 PROVE Body(f, hops) = Step(f[hops + 1])
  <2>1. ~(hops > 5) /\ hops <= 5
    OBVIOUS
  <2>2. ASSUME NEW name PROVE At5(f, hops, name) = FoundFrom(p, f[hops + 1], name)
    BY <2>1 DEF FoundFrom
  <2> HIDE DEF At5
  <2> QED
    BY <2>2
<1>2. ASSUME NEW f PROVE Body(f, 6) = [name \in D |-> {}]
  <2>1. ASSUME NEW name PROVE At5(f, 6, name) = {}
    OBVIOUS
  <2> HIDE DEF At5
  <2> QED
    BY <2>1
<1> HIDE DEF Step, Body, At5
<1>3. /\ g[6] = f6 /\ g[5] = f5 /\ g[4] = f4 /\ g[3] = f3 /\ g[2] = f2 /\ g[1] = f1 /\ g[0] = f0
  OBVIOUS
<1>4. \A hops \in 0..5 : g[hops] = Step(g[hops + 1])
  <2>1. \A hops \in 0..5 : hops = 0 \/ hops = 1 \/ hops = 2 \/ hops = 3 \/ hops = 4 \/ hops = 5
    OBVIOUS
  <2>2. /\ g[5] = Step(g[5 + 1]) /\ g[4] = Step(g[4 + 1]) /\ g[3] = Step(g[3 + 1])
        /\ g[2] = Step(g[2 + 1]) /\ g[1] = Step(g[1 + 1]) /\ g[0] = Step(g[0 + 1])
    BY <1>3
  <2> QED
    BY <2>1, <2>2
<1>5. \A hops \in 0..6 : g[hops] = Body(g, hops)
  <2>1. ASSUME NEW hops \in 0..5 PROVE g[hops] = Body(g, hops)
    <3>1. Body(g, hops) = Step(g[hops + 1])
      BY <1>1
    <3>2. g[hops] = Step(g[hops + 1])
      BY <1>4
    <3> QED
      BY <3>1, <3>2
  <2>2. g[6] = Body(g, 6)
    BY <1>2, <1>3
  <2>3. \A hops \in 0..6 : hops \in 0..5 \/ hops = 6
    OBVIOUS
  <2> QED
    BY <2>1, <2>2, <2>3
<1>6. g = [hops \in 0..6 |-> Body(g, hops)]
  BY <1>5
<1>7. found = [hops \in 0..6 |-> Body(found, hops)]
  BY <1>6
<1>8. Descendants5(p) = found[0]
  BY DEF Descendants5, Body, At5, MAX_HOPS
<1> HIDE DEF found
<1>9. found[6] = Body(found, 6) /\ \A hops \in 0..5 : found[hops] = Body(found, hops)
  BY <1>7
<1>10. /\ found[6] = [name \in D |-> {}]
       /\ \A hops \in 0..5 : found[hops] = Step(found[hops + 1])
  BY <1>1, <1>2, <1>9
<1> PICK h : h = found
  OBVIOUS
<1>11. \A hops \in 0..5 : h[hops] = [name \in DOMAIN p.ops |-> FoundFrom(p, h[hops + 1], name)]
  BY <1>10 DEF Step
<1>12. h[6] = [name \in DOMAIN p.ops |-> {}]
  BY <1>10
<1>13. Descends(p, h)
  BY <1>11, <1>12 DEF Descends
<1> QED
  BY <1>8, <1>13

\* With those that are called there.
AndCalled(p, W) == W \cup UNION {CalleesOf(p, f) : f \in W}

LEMMA CalledByPublicIs ==
  ASSUME NEW c, NEW p
  PROVE  \E within :
           /\ CalledByPublic(c, p) = within[5]
           /\ within[0] = {name \in DOMAIN p.ops : IsPublic(c, name)}
           /\ \A awaits \in 0..4 : within[awaits + 1] = AndCalled(p, within[awaits])
<1> DEFINE Body(w, awaits) ==
             IF awaits = 0 THEN {name \in DOMAIN p.ops : IsPublic(c, name)}
             ELSE w[awaits - 1] \cup UNION {CalleesOf(p, f) : f \in w[awaits - 1]}
           within == CHOOSE w : w = [awaits \in 0..5 |-> Body(w, awaits)]
<1> PICK w0 : w0 = {name \in DOMAIN p.ops : IsPublic(c, name)}
  OBVIOUS
<1> PICK w1 : w1 = AndCalled(p, w0)
  OBVIOUS
<1> PICK w2 : w2 = AndCalled(p, w1)
  OBVIOUS
<1> PICK w3 : w3 = AndCalled(p, w2)
  OBVIOUS
<1> PICK w4 : w4 = AndCalled(p, w3)
  OBVIOUS
<1> PICK w5 : w5 = AndCalled(p, w4)
  OBVIOUS
<1> PICK g : g = [awaits \in 0..5 |->
                    IF awaits = 5 THEN w5 ELSE IF awaits = 4 THEN w4 ELSE IF awaits = 3 THEN w3
                    ELSE IF awaits = 2 THEN w2 ELSE IF awaits = 1 THEN w1 ELSE w0]
  OBVIOUS
<1>1. ASSUME NEW w, NEW awaits \in 1..5 PROVE Body(w, awaits) = AndCalled(p, w[awaits - 1])
  BY <1>1 DEF AndCalled
<1>2. ASSUME NEW w PROVE Body(w, 0) = w0
  OBVIOUS
<1> HIDE DEF Body
<1>3. /\ g[5] = w5 /\ g[4] = w4 /\ g[3] = w3 /\ g[2] = w2 /\ g[1] = w1 /\ g[0] = w0
  OBVIOUS
<1>4. \A awaits \in 1..5 : g[awaits] = AndCalled(p, g[awaits - 1])
  <2>1. \A awaits \in 1..5 : awaits = 1 \/ awaits = 2 \/ awaits = 3 \/ awaits = 4 \/ awaits = 5
    OBVIOUS
  <2>2. /\ g[5] = AndCalled(p, g[5 - 1]) /\ g[4] = AndCalled(p, g[4 - 1]) /\ g[3] = AndCalled(p, g[3 - 1])
        /\ g[2] = AndCalled(p, g[2 - 1]) /\ g[1] = AndCalled(p, g[1 - 1])
    BY <1>3
  <2> QED
    BY <2>1, <2>2
<1>5. \A awaits \in 0..5 : g[awaits] = Body(g, awaits)
  <2>1. \A awaits \in 0..5 : awaits \in 1..5 \/ awaits = 0
    OBVIOUS
  <2>2. g[0] = Body(g, 0)
    BY <1>2, <1>3
  <2> QED
    BY <1>1, <1>4, <2>1, <2>2
<1>6. g = [awaits \in 0..5 |-> Body(g, awaits)]
  BY <1>5
<1>7. within = [awaits \in 0..5 |-> Body(within, awaits)]
  BY <1>6
<1>8. CalledByPublic(c, p) = within[5]
  BY DEF CalledByPublic, Body
<1> HIDE DEF within
<1>9. within[0] = Body(within, 0) /\ \A awaits \in 1..5 : within[awaits] = Body(within, awaits)
  BY <1>7
<1>10. within[0] = w0 /\ \A awaits \in 1..5 : within[awaits] = AndCalled(p, within[awaits - 1])
  BY <1>1, <1>2, <1>9
<1>11. \A awaits \in 0..4 : within[awaits + 1] = AndCalled(p, within[awaits])
  <2>1. \A awaits \in 0..4 : awaits + 1 \in 1..5 /\ (awaits + 1) - 1 = awaits
    OBVIOUS
  <2> QED
    BY <1>10, <2>1
<1> QED
  BY <1>8, <1>10, <1>11

(* What the search finds touches an object, and the calls there are few.   *)
LEMMA FoundWithinFive ==
  ASSUME NEW c, NEW p, NEW q, q.ops = p.ops,
         NEW name \in DOMAIN p.ops, IsPublic(c, name), NEW t \in Descendants5(p)[name]
  PROVE  TouchesSync(q, t) /\ t \in CalledByPublic(c, q)
<1>1. PICK found : Descendants5(p) = found[0] /\ Descends(p, found)
  BY DescendantsAre
<1>2. PICK within :
        /\ CalledByPublic(c, q) = within[5]
        /\ within[0] = {f \in DOMAIN q.ops : IsPublic(c, f)}
        /\ \A awaits \in 0..4 : within[awaits + 1] = AndCalled(q, within[awaits])
  BY CalledByPublicIs
<1>3. \A f : TouchesSync(q, f) <=> TouchesSync(p, f)
  BY DEF TouchesSync, OpsOf
<1>4. \A f : CalleesOf(q, f) = CalleesOf(p, f) /\ CalleesOf(p, f) \subseteq DOMAIN p.ops
  BY DEF CalleesOf, OpsOf
<1>5. \A hops \in 0..5 : within[hops] \subseteq within[5]
  <2>1. \A hops \in 0..4 : within[hops] \subseteq within[hops + 1]
    BY <1>2 DEF AndCalled
  <2>2. /\ within[4] \subseteq within[4 + 1] /\ within[3] \subseteq within[3 + 1]
        /\ within[2] \subseteq within[2 + 1] /\ within[1] \subseteq within[1 + 1]
        /\ within[0] \subseteq within[0 + 1]
    BY <2>1
  <2>3. /\ within[4] \subseteq within[5] /\ within[3] \subseteq within[5]
        /\ within[2] \subseteq within[5] /\ within[1] \subseteq within[5]
        /\ within[0] \subseteq within[5]
    BY <2>2
  <2>4. \A hops \in 0..5 : hops = 0 \/ hops = 1 \/ hops = 2 \/ hops = 3 \/ hops = 4 \/ hops = 5
    OBVIOUS
  <2> QED
    BY <2>3, <2>4
<1> DEFINE Found(hops) ==
             \A f \in DOMAIN p.ops : f \in within[hops] =>
               \A x \in found[hops][f] : TouchesSync(p, x) /\ x \in within[5]
<1>6. Found(5)
  <2>1. ASSUME NEW f \in DOMAIN p.ops, f \in within[5], NEW x \in found[5][f]
        PROVE  TouchesSync(p, x) /\ x \in within[5]
    <3>1. x \in FoundFrom(p, found[5 + 1], f)
      BY <1>1, <2>1 DEF Descends
    <3>2. \A callee \in CalleesOf(p, f) : found[5 + 1][callee] = {}
      BY <1>1, <1>4 DEF Descends
    <3> QED
      BY <2>1, <3>1, <3>2 DEF FoundFrom
  <2> QED
    BY <2>1
<1>7. ASSUME NEW hops \in 0..4, Found(hops + 1) PROVE Found(hops)
  <2>1. ASSUME NEW f \in DOMAIN p.ops, f \in within[hops], NEW x \in found[hops][f]
        PROVE  TouchesSync(p, x) /\ x \in within[5]
    <3>1. hops \in 0..5
      OBVIOUS
    <3>2. x \in FoundFrom(p, found[hops + 1], f)
      BY <1>1, <2>1, <3>1 DEF Descends
    <3>3. CASE TouchesSync(p, f)
      BY <1>5, <2>1, <3>1, <3>2, <3>3 DEF FoundFrom
    <3>4. CASE ~TouchesSync(p, f)
      <4>1. PICK callee \in CalleesOf(p, f) : x \in found[hops + 1][callee]
        BY <2>1, <3>2, <3>4 DEF FoundFrom
      <4>2. callee \in DOMAIN p.ops /\ callee \in within[hops + 1]
        <5>1. callee \in CalleesOf(q, f) /\ callee \in DOMAIN p.ops
          BY <1>4
        <5> QED
          BY <1>2, <2>1, <5>1 DEF AndCalled
      <4> QED
        BY <1>7, <4>1, <4>2
    <3> QED
      BY <3>3, <3>4
  <2> QED
    BY <2>1
<1> HIDE DEF Found
<1>8. Found(0)
  <2>1. Found(4 + 1)
    BY <1>6
  <2>2. Found(3 + 1)
    BY <1>7, <2>1
  <2>3. Found(2 + 1)
    BY <1>7, <2>2
  <2>4. Found(1 + 1)
    BY <1>7, <2>3
  <2>5. Found(0 + 1)
    BY <1>7, <2>4
  <2> QED
    BY <1>7, <2>5
<1>9. name \in within[0] /\ t \in found[0][name]
  BY <1>1, <1>2
<1> QED
  BY <1>2, <1>3, <1>8, <1>9 DEF Found

(***************************************************************************)
(* What is counted.                                                        *)
(***************************************************************************)
LEMMA HasTwo ==
  ASSUME NEW S, IsFiniteSet(S)
  PROVE  /\ Cardinality(S) \in Nat
         /\ Cardinality(S) > 0 <=> S # {}
         /\ Cardinality(S) > 1 <=> \E x, y \in S : x # y
<1> PICK n : n = Cardinality(S)
  OBVIOUS
<1>1. n \in Nat /\ (n = 0 <=> S = {}) /\ (n = 1 <=> \E x : S = {x})
  BY FS_CardinalityType, FS_EmptySet, FS_Singleton
<1>2. ASSUME NEW x \in S, NEW y \in S, x # y PROVE n # 0 /\ n # 1
  BY <1>1, <1>2
<1>3. ASSUME n # 0, n # 1 PROVE \E x, y \in S : x # y
  <2>1. PICK x : x \in S
    BY <1>1, <1>3
  <2>2. S # {x}
    BY <1>1, <1>3
  <2> QED
    BY <2>1, <2>2
<1>4. n > 1 <=> n # 0 /\ n # 1
  BY <1>1
<1> QED
  BY <1>1, <1>2, <1>3, <1>4

\* As many pairs of each x as f says.
Counted(S, f) == UNION {{x} \X (1..f[x]) : x \in S}

LEMMA CountedTwice ==
  ASSUME NEW S, IsFiniteSet(S), NEW f, \A x \in S : f[x] \in Nat
  PROVE  LET n == Cardinality(Counted(S, f))
         IN  /\ n \in Nat
             /\ n > 0 <=> \E x \in S : f[x] > 0
             /\ n > 1 <=> \/ \E x, y \in S : x # y /\ f[x] > 0 /\ f[y] > 0
                          \/ \E x \in S : f[x] > 1
<1> PICK T : T = Counted(S, f)
  OBVIOUS
<1>1. \A z : z \in T <=> \E x \in S : \E k \in 1..f[x] : z = <<x, k>>
  <2>1. ASSUME NEW z, z \in T PROVE \E x \in S : \E k \in 1..f[x] : z = <<x, k>>
    <3>1. PICK x \in S : z \in {x} \X (1..f[x])
      BY <2>1 DEF Counted
    <3> QED
      BY <3>1
  <2>2. ASSUME NEW x \in S, NEW k \in 1..f[x] PROVE <<x, k>> \in T
    <3>1. <<x, k>> \in {x} \X (1..f[x])
      OBVIOUS
    <3> QED
      BY <3>1 DEF Counted
  <2> QED
    BY <2>1, <2>2
<1>2. IsFiniteSet(T)
  <2>1. PICK g : g = [x \in S |-> g[x]] /\ \A x \in S : g[x] = {x} \X (1..f[x])
    <3> PICK h : h = [x \in S |-> {x} \X (1..f[x])]
      OBVIOUS
    <3>1. h = [x \in S |-> h[x]] /\ \A x \in S : h[x] = {x} \X (1..f[x])
      OBVIOUS
    <3> QED
      BY <3>1
  <2>2. IsFiniteSet({g[x] : x \in S})
    BY <2>1, FiniteImage
  <2>3. ASSUME NEW x \in S PROVE IsFiniteSet({x} \X (1..f[x]))
    <3>1. IsFiniteSet({x}) /\ IsFiniteSet(1..f[x])
      <4>1. 1 \in Int /\ f[x] \in Int
        OBVIOUS
      <4> QED
        BY <4>1, FS_Singleton, FS_Interval
    <3> QED
      BY <3>1, FS_Product
  <2>4. \A U \in {g[x] : x \in S} : IsFiniteSet(U)
    BY <2>1, <2>3
  <2>5. T = UNION {g[x] : x \in S}
    BY <2>1 DEF Counted
  <2> QED
    BY <2>2, <2>4, <2>5, FS_UNION
<1> PICK n : n = Cardinality(T)
  OBVIOUS
<1>3. n \in Nat /\ (n > 0 <=> T # {}) /\ (n > 1 <=> \E y, z \in T : y # z)
  BY <1>2, HasTwo
<1>4. \A x \in S : f[x] > 0 <=> <<x, 1>> \in T
  BY <1>1
<1>5. T # {} <=> \E x \in S : f[x] > 0
  <2>1. ASSUME NEW z \in T PROVE \E x \in S : f[x] > 0
    BY <1>1
  <2> QED
    BY <1>4, <2>1
<1>6. (\E y, z \in T : y # z) <=> \/ \E x, y \in S : x # y /\ f[x] > 0 /\ f[y] > 0
                                  \/ \E x \in S : f[x] > 1
  <2>1. ASSUME NEW y \in T, NEW z \in T, y # z
        PROVE  \/ \E u, v \in S : u # v /\ f[u] > 0 /\ f[v] > 0
               \/ \E u \in S : f[u] > 1
    <3>1. PICK u \in S : \E k \in 1..f[u] : y = <<u, k>>
      BY <1>1
    <3>2. PICK v \in S : \E l \in 1..f[v] : z = <<v, l>>
      BY <1>1
    <3> PICK k \in 1..f[u] : y = <<u, k>>
      BY <3>1
    <3> PICK l \in 1..f[v] : z = <<v, l>>
      BY <3>2
    <3>3. f[u] > 0 /\ f[v] > 0
      OBVIOUS
    <3>4. u = v => k # l
      BY <2>1
    <3>5. u = v => f[u] > 1
      BY <3>4
    <3> QED
      BY <3>3, <3>5
  <2>2. ASSUME NEW u \in S, NEW v \in S, u # v, f[u] > 0, f[v] > 0
        PROVE  \E y, z \in T : y # z
    <3>1. <<u, 1>> \in T /\ <<v, 1>> \in T /\ <<u, 1>> # <<v, 1>>
      BY <1>4, <2>2
    <3> QED
      BY <3>1
  <2>3. ASSUME NEW u \in S, f[u] > 1 PROVE \E y, z \in T : y # z
    <3>1. 1 \in 1..f[u] /\ 2 \in 1..f[u]
      BY <2>3
    <3>2. <<u, 1>> \in T /\ <<u, 2>> \in T /\ <<u, 1>> # <<u, 2>>
      BY <1>1, <3>1
    <3> QED
      BY <3>2
  <2> QED
    BY <2>1, <2>2, <2>3
<1> QED
  BY <1>3, <1>5, <1>6

LEMMA CallsAre ==
  ASSUME NEW c, WellCalled(c), NEW x \in AllCalls(c)
  PROVE  /\ x[1] \in DOMAIN c /\ x[2] \in CallsOf(c, x[1])
         /\ List(CallAt(c, x[1], x[2]).args)
<1>1. PICK i \in DOMAIN c : x \in {i} \X CallsOf(c, i)
  BY DEF AllCalls
<1>2. x[1] = i /\ x[2] \in CallsOf(c, i)
  BY <1>1
<1> QED
  BY <1>2 DEF WellCalled, List

LEMMA CallNumbers ==
  ASSUME NEW c, WellCalled(c), NEW i \in DOMAIN c
  PROVE  /\ Len(InnerCalls(c, i)) \in Nat
         /\ IsFiniteSet(CallsOf(c, i)) /\ CallsOf(c, i) \subseteq Nat
         /\ IsCall(c, i) => 0 \in CallsOf(c, i)
<1>1. List(InnerCalls(c, i))
  BY DEF WellCalled, List
<1>2. Len(InnerCalls(c, i)) \in Nat
  BY <1>1, ListFacts
<1>3. CallsOf(c, i) = (IF IsCall(c, i) THEN 0 ELSE 1)..Len(InnerCalls(c, i))
  BY DEF CallsOf
<1> PICK n \in Nat : n = Len(InnerCalls(c, i))
  BY <1>2
<1>4. IsFiniteSet(0..n) /\ IsFiniteSet(1..n)
  BY FS_Interval
<1>5. CASE IsCall(c, i)
  <2>1. CallsOf(c, i) = 0..n
    BY <1>3, <1>5
  <2> QED
    BY <1>4, <2>1
<1>6. CASE ~IsCall(c, i)
  <2>1. CallsOf(c, i) = 1..n
    BY <1>3, <1>6
  <2> QED
    BY <1>4, <1>6, <2>1
<1> QED
  BY <1>5, <1>6

LEMMA CallsFinite ==
  ASSUME NEW c, WellFormed(c), WellCalled(c)
  PROVE  IsFiniteSet(AllCalls(c))
<1> DEFINE f == [i \in DOMAIN c |-> {i} \X CallsOf(c, i)]
<1>1. IsFiniteSet(DOMAIN c)
  BY TreeFacts, FiniteDomain
<1>2. ASSUME NEW i \in DOMAIN c PROVE IsFiniteSet(f[i])
  <2>1. IsFiniteSet({i}) /\ IsFiniteSet(CallsOf(c, i))
    BY CallNumbers, FS_Singleton
  <2> QED
    BY <2>1, FS_Product
<1>3. AllCalls(c) = UNION {f[i] : i \in DOMAIN c}
  BY DEF AllCalls
<1>4. f = [i \in DOMAIN c |-> f[i]]
  OBVIOUS
<1> HIDE DEF f
<1> QED
  BY <1>1, <1>2, <1>3, <1>4, FiniteFamily

LEMMA SpawnedByIs ==
  ASSUME NEW c, WellCalled(c), NEW x \in AllCalls(c), NEW name
  PROVE  /\ SpawnedBy(c, x, name) \in Nat
         /\ SpawnedBy(c, x, name) > 0 => \E a \in ToSet(CallAt(c, x[1], x[2]).args) : Last(a.f) = name
<1> DEFINE call == CallAt(c, x[1], x[2])
           args == call.args
           spawns == {j \in DOMAIN call.args : call.args[j].called /\ Last(call.args[j].f) = name}
           inLoop == \E b \in Around(c, x[1]) \cup {x[1]} : c[b].k \in {"for", "while"}
<1>1. List(args) /\ spawns \subseteq DOMAIN args
  BY CallsAre
<1>2. IsFiniteSet(spawns)
  BY <1>1, FiniteDomain
<1>3. Cardinality(spawns) \in Nat /\ (Cardinality(spawns) > 0 <=> spawns # {})
  BY <1>2, HasTwo
<1>4. ASSUME NEW j \in spawns PROVE \E a \in ToSet(args) : Last(a.f) = name
  BY <1>1, <1>4 DEF ToSet
<1>5. SpawnedBy(c, x, name) =
        CASE Last(call.f) \in {"create_task", "ensure_future"} /\ 1 \in spawns ->
               IF inLoop THEN 2 ELSE 1
          [] Last(call.f) = "gather" /\ Cardinality(spawns) >= 2 -> Cardinality(spawns)
          [] OTHER -> 0
  BY DEF SpawnedBy
<1> HIDE DEF call, spawns, inLoop, args
<1>6. CASE Last(call.f) \in {"create_task", "ensure_future"} /\ 1 \in spawns
  <2>1. Last(call.f) # "gather"
    BY <1>6
  <2>2. SpawnedBy(c, x, name) \in {1, 2}
    BY <1>5, <1>6, <2>1
  <2> QED
    BY <1>4, <1>6, <2>2 DEF args, call
<1>7. CASE Last(call.f) = "gather" /\ Cardinality(spawns) >= 2
  <2>1. Last(call.f) \notin {"create_task", "ensure_future"}
    BY <1>7
  <2>2. SpawnedBy(c, x, name) = Cardinality(spawns)
    BY <1>5, <1>7, <2>1
  <2> QED
    BY <1>3, <1>4, <1>7, <2>2 DEF args, call
<1>8. CASE /\ ~(Last(call.f) \in {"create_task", "ensure_future"} /\ 1 \in spawns)
           /\ ~(Last(call.f) = "gather" /\ Cardinality(spawns) >= 2)
  <2>1. SpawnedBy(c, x, name) = 0
    BY <1>5, <1>8
  <2> QED
    BY <2>1
<1> QED
  BY <1>6, <1>7, <1>8

\* Two tasks of a coroutine are spawned.
SpawnedTwice(c, name) ==
  \E x, y \in AllCalls(c) :
    /\ SpawnedBy(c, x, name) > 0 /\ SpawnedBy(c, y, name) > 0
    /\ x # y \/ SpawnedBy(c, x, name) > 1

LEMMA SpawnTargetsAre ==
  ASSUME NEW c, WellFormed(c), WellCalled(c), NEW name
  PROVE  LET found == SpawnTargets(c)
         IN  /\ name \in DOMAIN found => found[name] \in Nat
             /\ name \in DOMAIN found /\ found[name] > 1 <=> SpawnedTwice(c, name)
<1> PICK calls : calls = AllCalls(c)
  OBVIOUS
<1> PICK f : f = [x \in calls |-> SpawnedBy(c, x, name)]
  OBVIOUS
<1> PICK found : found = SpawnTargets(c)
  OBVIOUS
<1> DEFINE count(n) == Cardinality(UNION {{x} \X (1..SpawnedBy(c, x, n)) : x \in calls})
           called == UNION {{Last(a.f) : a \in ToSet(CallAt(c, x[1], x[2]).args)} : x \in calls}
<1>1. found = [n \in {m \in called : count(m) > 0} |-> count(n)]
  BY DEF SpawnTargets
<1>2. IsFiniteSet(calls)
  BY CallsFinite
<1>3. \A x \in calls : f[x] \in Nat /\ (f[x] > 0 => name \in called)
  <2>1. ASSUME NEW x \in calls PROVE f[x] \in Nat /\ (f[x] > 0 => name \in called)
    <3>1. f[x] \in Nat /\ (f[x] > 0 => \E a \in ToSet(CallAt(c, x[1], x[2]).args) : Last(a.f) = name)
      BY SpawnedByIs
    <3> QED
      BY <3>1
  <2> QED
    BY <2>1
<1>4. count(name) = Cardinality(Counted(calls, f))
  <2>1. \A x \in calls : {x} \X (1..SpawnedBy(c, x, name)) = {x} \X (1..f[x])
    OBVIOUS
  <2>2. {{x} \X (1..SpawnedBy(c, x, name)) : x \in calls} = {{x} \X (1..f[x]) : x \in calls}
    BY <2>1
  <2> QED
    BY <2>2 DEF Counted
<1> HIDE DEF count, called
<1>5. /\ count(name) \in Nat
      /\ count(name) > 0 <=> \E x \in calls : f[x] > 0
      /\ count(name) > 1 <=> \/ \E x, y \in calls : x # y /\ f[x] > 0 /\ f[y] > 0
                             \/ \E x \in calls : f[x] > 1
  <2>1. \A x \in calls : f[x] \in Nat
    BY <1>3
  <2> QED
    BY <1>2, <1>4, <2>1, CountedTwice
<1>6. /\ name \in DOMAIN found <=> name \in called /\ count(name) > 0
      /\ name \in DOMAIN found => found[name] = count(name)
  BY <1>1
<1>7. count(name) > 0 => name \in called
  BY <1>3, <1>5
<1>8. count(name) > 1 => count(name) > 0
  BY <1>5
<1>9. count(name) > 1 <=> SpawnedTwice(c, name)
  <2>1. \A x \in calls : f[x] > 1 => f[x] > 0
    BY <1>3
  <2>2. \A x \in calls : f[x] = SpawnedBy(c, x, name)
    OBVIOUS
  <2>3. SpawnedTwice(c, name) <=>
          \E x, y \in calls : f[x] > 0 /\ f[y] > 0 /\ (x # y \/ f[x] > 1)
    BY <2>2 DEF SpawnedTwice
  <2> QED
    BY <1>5, <2>1, <2>3
<1> QED
  BY <1>5, <1>6, <1>7, <1>8, <1>9

(***************************************************************************)
(* The assumption, and the rest of the sweep.                              *)
(***************************************************************************)
LEMMA ApplyPInv ==
  ASSUME PInv, ApplyPublicConcurrentAssumption
  PROVE  PInv'
<1>1. /\ stage = "extracted" /\ stage' = "ready" /\ corpus' = corpus /\ done' = done
      /\ csv' = csv /\ code' = code /\ node' = node /\ frames' = frames /\ visited' = visited
  BY DEF ApplyPublicConcurrentAssumption, sweepVars
<1>2. /\ Types /\ Visiting /\ WellCalled(code) /\ Unassumed /\ WellFormed(code)
      /\ FoundOrAssumed(code, program)
  BY <1>1 DEF PInv, Visiting
<1>3. Types'
  BY <1>1, <1>2 DEF Types, Stages
<1>4. RowsCounted'
  BY <1>1 DEF RowsCounted
<1> PICK found : found = SpawnTargets(code)
  OBVIOUS
<1>5. \A name \in DOMAIN found : found[name] \in Nat
  BY <1>2, SpawnTargetsAre
<1>6. program.mult = found /\ program.assumed = {}
  BY <1>2 DEF Unassumed
<1>7. CASE program' = program
  <2>1. Visiting'
    BY <1>1, <1>2, <1>7, VisitedStays DEF Visiting, Shape, IsProgram
  <2>2. AssumedIsApart'
    BY <1>1, <1>6, <1>7 DEF AssumedIsApart
  <2> QED
    BY <1>1, <1>2, <1>3, <1>4, <1>7, <2>1, <2>2 DEF PInv
<1>8. CASE \E starts, target :
             /\ starts = {name \in DOMAIN Descendants5(program) :
                            IsPublic(code, name) /\ Descendants5(program)[name] # {}}
             /\ target \in [starts -> DOMAIN Descendants5(program)]
             /\ \A name \in starts : target[name] \in Descendants5(program)[name]
             /\ program' = Assumed(program, Range(target))
  <2>1. PICK starts, target :
             /\ starts = {name \in DOMAIN Descendants5(program) :
                            IsPublic(code, name) /\ Descendants5(program)[name] # {}}
             /\ target \in [starts -> DOMAIN Descendants5(program)]
             /\ \A name \in starts : target[name] \in Descendants5(program)[name]
             /\ program' = Assumed(program, Range(target))
    BY <1>8
  <2> PICK new : new = {t \in Range(target) : MultOf(program, t) < 2}
    OBVIOUS
  <2> PICK mult : mult = [name \in DOMAIN found \cup new |->
                            IF name \in new THEN 2 ELSE found[name]]
    OBVIOUS
  <2>2. program' = [program EXCEPT !.mult = mult, !.assumed = new]
    BY <1>6, <2>1 DEF Assumed
  <2>3. /\ IsProgram(program') /\ program'.sync = program.sync /\ program'.ops = program.ops
        /\ program'.sites = program.sites /\ program'.mult = mult /\ program'.assumed = new
    <3>1. program = [x \in Fields |-> program[x]]
      BY <1>2 DEF Visiting, Shape
    <3>2. DOMAIN program = Fields
      BY <3>1
    <3> QED
      BY <2>2, <3>2 DEF IsProgram, Fields
  <2>4. Visiting'
    <3>1. List(program'.sites)
      BY <1>2, <2>3 DEF Visiting, Shape
    <3> QED
      BY <1>1, <1>2, <2>3, <3>1, VisitedStays
  <2>5. ASSUME NEW name \in DOMAIN found, found[name] >= 2
        PROVE  name \notin new /\ mult[name] = found[name]
    <3>1. MultOf(program, name) = found[name]
      BY <1>6, <2>5 DEF MultOf
    <3>2. ~(found[name] < 2)
      BY <1>5, <2>5
    <3> QED
      BY <2>5, <3>1, <3>2
  <2>6. FoundOrAssumed(code', program')
    BY <1>1, <2>3, <2>5 DEF FoundOrAssumed
  <2>7. ASSUME NEW t \in new
        PROVE  TouchesSync(program', t) /\ t \in CalledByPublic(code, program')
    <3>1. PICK name \in starts : t = target[name]
      BY <2>1, <2>7 DEF Range
    <3>2. DOMAIN Descendants5(program) = DOMAIN program.ops
      <4>1. PICK f : Descendants5(program) = f[0] /\ Descends(program, f)
        BY DescendantsAre
      <4> QED
        BY <4>1 DEF Descends
    <3>3. name \in DOMAIN program.ops /\ IsPublic(code, name) /\ t \in Descendants5(program)[name]
      BY <2>1, <3>1, <3>2
    <3> QED
      BY <2>3, <3>3, FoundWithinFive
  <2>8. AssumedIsApart'
    <3>1. \A name \in DOMAIN SpawnTargets(code') : SpawnTargets(code')[name] >= 2 =>
            program'.mult[name] = SpawnTargets(code')[name] /\ name \notin program'.assumed
      BY <1>1, <2>3, <2>5
    <3>2. \A name \in program'.assumed :
            /\ program'.mult[name] = 2 /\ TouchesSync(program', name)
            /\ name \in CalledByPublic(code', program')
      BY <1>1, <2>3, <2>7
    <3> QED
      BY <3>1, <3>2 DEF AssumedIsApart
  <2> QED
    BY <1>1, <1>2, <1>3, <1>4, <2>4, <2>6, <2>8 DEF PInv
<1> QED
  BY <1>7, <1>8 DEF ApplyPublicConcurrentAssumption

LEMMA RestPInv ==
  ASSUME PInv, InspectGaps \/ UNCHANGED vars
  PROVE  PInv'
<1>1. /\ corpus' = corpus /\ done' = done /\ csv' = csv /\ code' = code /\ node' = node
      /\ frames' = frames /\ visited' = visited /\ program' = program
      /\ stage' = stage \/ stage' = "inspected"
  BY DEF InspectGaps, vars, extractVars
<1>2. /\ Types /\ Visiting /\ WellCalled(code) /\ FoundOrAssumed(code, program)
      /\ RowsCounted /\ AssumedIsApart
      /\ stage \in {"extract", "extracted"} => Unassumed
      /\ stage = "extracted" => Clashes
  BY DEF PInv
<1>3. Visiting'
  BY <1>1, <1>2, VisitedStays DEF Visiting, Shape, IsProgram
<1>4. Types'
  BY <1>1, <1>2 DEF Types, Stages
<1>5. RowsCounted'
  <2>1. \A obj : /\ KindOf(obj)' = KindOf(obj) /\ Waiters(obj)' = Waiters(obj)
                 /\ Releases(obj)' = Releases(obj)
    BY <1>1 DEF KindOf, Waiters, Releases
  <2>2. LastDone' = LastDone
    BY <1>1 DEF LastDone
  <2> QED
    BY <1>1, <1>2, <2>1, <2>2 DEF RowsCounted
<1>6. AssumedIsApart'
  BY <1>1, <1>2 DEF AssumedIsApart
<1>7. stage' \in {"extract", "extracted"} => Unassumed'
  BY <1>1, <1>2 DEF Unassumed
<1>8. stage' = "extracted" => Clashes'
  BY <1>1, <1>2 DEF Clashes
<1> QED
  BY <1>1, <1>2, <1>3, <1>4, <1>5, <1>6, <1>7, <1>8 DEF PInv

(* The inductive invariant: where the visitor stands and what it has       *)
(* covered, what program holds of the file, what the rows say of it.       *)
THEOREM PipelineInvariant == Spec => []PInv
<1>1. Init => PInv
  BY InitPInv
<1>2. PInv /\ [Next]_vars => PInv'
  <2> SUFFICES ASSUME PInv, [Next]_vars PROVE PInv'
    OBVIOUS
  <2> QED
    BY NextFilePInv, VisitFilePInv, ExtractedPInv, ApplyPInv, CheckRaisesPInv,
       CheckAndExportPInv, RestPInv DEF Next, Finished
<1> QED
  BY <1>1, <1>2, PTL DEF Spec
-----------------------------------------------------------------------------
(***************************************************************************)
(* What the queries of encoder.py answer for every number of contenders.   *)
(***************************************************************************)
(* The all-different constraint alone excludes that two contenders share a *)
(* position: the structured queries of a lock and of a queue (check_lock,  *)
(* check_queue) are unsatisfiable whatever the file does, also when more   *)
(* is taken than put.                                                      *)
THEOREM StructuredNeverShares ==
  ASSUME NEW n \in Nat, NEW puts \in Nat
  PROVE  ~LockStructuredSat(n) /\ ~QueueStructuredSat(n, puts)
<1>1. ASSUME NEW order \in [1..n -> 1..AtLeast(n, 1)], AllDistinct(n, order),
             NEW p \in PairsOf(n), order[p[1]] = order[p[2]]
      PROVE  FALSE
  <2>1. p[1] \in 1..n /\ p[2] \in 1..n /\ p[1] < p[2]
    BY DEF PairsOf
  <2>2. p[1] = p[2]
    BY <1>1, <2>1 DEF AllDistinct
  <2> QED BY <2>1, <2>2
<1>2. ~LockStructuredSat(n)
  BY <1>1 DEF LockStructuredSat
<1>3. ~QueueStructuredSat(n, puts)
  BY <1>1 DEF QueueStructuredSat
<1> QED BY <1>2, <1>3

(* The naive queries need two contenders, and two are enough.              *)
LEMMA TwoAreAPair ==
  ASSUME NEW n \in Nat
  PROVE  (\E p \in PairsOf(n) : TRUE) <=> n >= 2
<1>1. ASSUME n >= 2 PROVE <<1, 2>> \in PairsOf(n)
  BY <1>1 DEF PairsOf
<1>2. ASSUME NEW p \in PairsOf(n) PROVE n >= 2
  BY DEF PairsOf
<1> QED BY <1>1, <1>2

LEMMA LockNaive ==
  ASSUME NEW n \in Nat
  PROVE  LockNaiveSat(n) <=> n >= 2
<1> DEFINE all == [i \in 1..n |-> TRUE]
<1>1. all \in [1..n -> BOOLEAN]
  OBVIOUS
<1>2. ASSUME NEW p \in PairsOf(n) PROVE all[p[1]] /\ all[p[2]]
  BY DEF PairsOf
<1>3. (\E p \in PairsOf(n) : TRUE) => LockNaiveSat(n)
  BY <1>1, <1>2 DEF LockNaiveSat
<1>4. LockNaiveSat(n) => \E p \in PairsOf(n) : TRUE
  BY DEF LockNaiveSat
<1> QED BY <1>3, <1>4, TwoAreAPair

LEMMA QueueNaive ==
  ASSUME NEW n \in Nat, NEW puts \in Nat
  PROVE  QueueNaiveSat(n, puts) <=> n >= 2
<1> DEFINE first == [i \in 1..n |-> 1]
<1>1. first \in [1..n -> 1..AtLeast(puts, 1)]
  BY DEF AtLeast
<1>2. ASSUME NEW p \in PairsOf(n) PROVE first[p[1]] = first[p[2]]
  BY DEF PairsOf
<1>3. (\E p \in PairsOf(n) : TRUE) => QueueNaiveSat(n, puts)
  BY <1>1, <1>2 DEF QueueNaiveSat
<1>4. QueueNaiveSat(n, puts) => \E p \in PairsOf(n) : TRUE
  BY DEF QueueNaiveSat
<1> QED BY <1>3, <1>4, TwoAreAPair

(* A lock or a queue is flagged as a correctness gap exactly if it has two *)
(* contenders; how many puts there are plays no part, not even none        *)
(* (the range of conn is never empty, encoder.py:85).                      *)
THEOREM SharedIffTwo ==
  ASSUME NEW n \in Nat, NEW released \in Nat, NEW kind \in {"LOCK", "QUEUE"}
  PROVE  Gap(kind, n, released) <=> n >= 2
<1>1. CASE kind = "LOCK"
  <2>1. NaiveSat(kind, n, released) <=> LockNaiveSat(n)
    BY <1>1 DEF NaiveSat
  <2>2. StructuredSat(kind, n, released) <=> LockStructuredSat(n)
    BY <1>1 DEF StructuredSat
  <2> QED BY <2>1, <2>2, LockNaive, StructuredNeverShares DEF Gap
<1>2. CASE kind = "QUEUE"
  <2>1. NaiveSat(kind, n, released) <=> QueueNaiveSat(n, released)
    BY <1>2 DEF NaiveSat
  <2>2. StructuredSat(kind, n, released) <=> QueueStructuredSat(n, released)
    BY <1>2 DEF StructuredSat
  <2> QED BY <2>1, <2>2, QueueNaive, StructuredNeverShares DEF Gap
<1> QED BY <1>1, <1>2

(* An event is flagged exactly if something waits and something sets it;   *)
(* without a set both queries of check_event are satisfiable.              *)
THEOREM EventIffSet ==
  ASSUME NEW n \in Nat, NEW sets \in Nat
  PROVE  Gap("EVENT", n, sets) <=> n >= 1 /\ sets >= 1
<1> DEFINE asleep == [w \in 1..n |-> FALSE]
<1>1. asleep \in [1..n -> BOOLEAN]
  OBVIOUS
<1>2. EventNaiveSat(n) <=> n >= 1
  <2>1. ASSUME n >= 1 PROVE 1 \in 1..n /\ ~asleep[1]
    BY <2>1
  <2>2. n >= 1 => EventNaiveSat(n)
    BY <1>1, <2>1 DEF EventNaiveSat
  <2>3. EventNaiveSat(n) => n >= 1
    BY DEF EventNaiveSat
  <2> QED BY <2>2, <2>3
<1>3. EventStructuredSat(n, sets) <=> n >= 1 /\ ~(sets >= 1)
  <2>1. ASSUME n >= 1, ~(sets >= 1) PROVE EventStructuredSat(n, sets)
    <3>1. 1 \in 1..n /\ ~asleep[1]
      BY <2>1
    <3> QED BY <1>1, <2>1, <3>1 DEF EventStructuredSat
  <2>2. EventStructuredSat(n, sets) => n >= 1 /\ ~(sets >= 1)
    BY DEF EventStructuredSat
  <2> QED BY <2>1, <2>2
<1>4. NaiveSat("EVENT", n, sets) <=> EventNaiveSat(n)
  BY DEF NaiveSat
<1>5. StructuredSat("EVENT", n, sets) <=> EventStructuredSat(n, sets)
  BY DEF StructuredSat
<1> QED BY <1>2, <1>3, <1>4, <1>5 DEF Gap

(***************************************************************************)
(* The properties.                                                         *)
(***************************************************************************)
(* A statement gives at most one operation, in whatever order the two      *)
(* loops reach the functions that are nested in each other.                *)
THEOREM StatementsCountOnce == Spec => []EachCallOnce
<1>1. PInv => EachCallOnce
  BY DEF PInv, Visiting
<1> QED
  BY <1>1, PipelineInvariant, PTL

(* An operation is put down to the function it is in and to an object of   *)
(* that function's own scopes, and a name that stands for methods of       *)
(* several classes with such operations is reported.                       *)
LEMMA ScopesKept ==
  ASSUME PInv
  PROVE  ScopesKeptApart
<1>1. /\ WellFormed(code) /\ Ops /\ DOMAIN program.ops = FuncNames(code)
      /\ stage = "extracted" => Clashes
  BY DEF PInv, Visiting, Ops
<1>2. ASSUME NEW name \in DOMAIN program.ops, NEW op \in OpsOf(program, name)
      PROVE  Scoped(op, name) /\ \E i \in DOMAIN program.ops[name] : op = program.ops[name][i]
  <2>1. name \in FuncNames(code) /\ List(program.ops[name])
    BY <1>1 DEF Ops
  <2>2. PICK i \in 1..Len(program.ops[name]) : op = program.ops[name][i]
    BY <2>1, ListFacts DEF OpsOf
  <2>3. i \in DOMAIN program.ops[name]
    BY <2>1, ListFacts
  <2> QED
    BY <1>1, <2>1, <2>2, <2>3 DEF Ops
<1>3. ASSUME stage = "extracted", NEW name \in DOMAIN program.ops,
             NEW op1 \in OpsOf(program, name), NEW op2 \in OpsOf(program, name),
             op1.obj # None, op2.obj # None,
             ClassScope(code, DefAround(code, op1.line))
               # ClassScope(code, DefAround(code, op2.line))
      PROVE  name \in program.collisions
  <2> PICK D : D = {e \in Funcs(code) : code[e].name = name}
    OBVIOUS
  <2> PICK scope : scope = [d \in D |-> ClassScope(code, d)]
    OBVIOUS
  <2> PICK d1, d2 : d1 = DefAround(code, op1.line) /\ d2 = DefAround(code, op2.line)
    OBVIOUS
  <2>1. d1 \in D /\ d2 \in D
    BY <1>2, <1>3 DEF Scoped
  <2>2. IsFiniteSet(D)
    <3>1. D \subseteq DOMAIN code /\ List(code)
      BY <1>1, TreeFacts DEF Funcs
    <3> QED
      BY <3>1, FiniteDomain
  <2> PICK scopes : scopes = {scope[d] : d \in D}
    OBVIOUS
  <2>3. IsFiniteSet(scopes)
    <3>1. scope = [d \in D |-> scope[d]]
      OBVIOUS
    <3> QED
      BY <2>2, <3>1, FiniteImage
  <2>4. scope[d1] \in scopes /\ scope[d2] \in scopes /\ scope[d1] # scope[d2]
    BY <1>3, <2>1
  <2>5. Cardinality(scopes) > 1
    BY <2>3, <2>4, HasTwo
  <2>6. scopes = {ClassScope(code, d) : d \in {e \in Funcs(code) : code[e].name = name}}
    OBVIOUS
  <2>7. \E i \in DOMAIN program.ops[name] : program.ops[name][i].kind # "GENERIC_AWAIT"
    BY <1>2, <1>3 DEF Scoped
  <2> QED
    BY <1>1, <1>3, <2>5, <2>6, <2>7 DEF Clashes
<1>4. \A name \in DOMAIN program.ops : \A op \in OpsOf(program, name) :
        LET d == DefAround(code, op.line)
        IN  code[d].name = name /\ (op.obj # None => OwnObject(op.obj, d))
  BY <1>2 DEF Scoped
<1>5. stage = "extracted" => \A name \in DOMAIN program.ops :
        \A op1, op2 \in {op \in OpsOf(program, name) : op.obj # None} :
          ClassScope(code, DefAround(code, op1.line)) # ClassScope(code, DefAround(code, op2.line))
            => name \in program.collisions
  BY <1>3
<1> QED
  BY <1>4, <1>5 DEF ScopesKeptApart

(* The same for all of the sweep: whatever functions share a name, no      *)
(* operation goes to an object of another scope, and methods whose         *)
(* operations come together are reported.                                  *)
THEOREM OperationsKeepTheirScope == Spec => []ScopesKeptApart
BY PipelineInvariant, ScopesKept, PTL

(* What --assume-public-concurrent adds never replaces what the source     *)
(* shows, and is reached by a public coroutine in at most five awaits.     *)
THEOREM AssumptionsStayApart == Spec => []AssumedIsApart
<1>1. PInv => AssumedIsApart
  BY DEF PInv
<1> QED
  BY <1>1, PipelineInvariant, PTL

(* Which names have a multiplicity of two, and which objects two users.    *)
LEMMA MultIs ==
  ASSUME PInv, NEW name
  PROVE  LET m == MultOf(program, name)
         IN  /\ m \in Nat
             /\ m > 1 <=> name \in program.assumed \/ SpawnedTwice(code, name)
<1> PICK found : found = SpawnTargets(code)
  OBVIOUS
<1> PICK m : m = MultOf(program, name)
  OBVIOUS
<1>1. /\ name \in DOMAIN found => found[name] \in Nat
      /\ name \in DOMAIN found /\ found[name] > 1 <=> SpawnedTwice(code, name)
  BY SpawnTargetsAre DEF PInv, Visiting
<1>2. /\ DOMAIN program.mult = DOMAIN found \cup program.assumed
      /\ name \in DOMAIN program.mult =>
           program.mult[name] = IF name \in program.assumed THEN 2 ELSE found[name]
  BY DEF PInv, FoundOrAssumed
<1>3. CASE name \in program.assumed
  <2>1. m = 2
    BY <1>2, <1>3 DEF MultOf
  <2> QED
    BY <1>3, <2>1
<1>4. CASE name \notin program.assumed /\ name \in DOMAIN found
  <2>1. m = found[name]
    BY <1>2, <1>4 DEF MultOf
  <2> QED
    BY <1>1, <1>4, <2>1
<1>5. CASE name \notin program.assumed /\ name \notin DOMAIN found
  <2>1. m = 1
    BY <1>2, <1>5 DEF MultOf
  <2> QED
    BY <1>1, <1>5, <2>1
<1> QED
  BY <1>3, <1>4, <1>5

LEMMA CountIs ==
  ASSUME PInv, NEW obj, NEW kind
  PROVE  LET n == CountOf(program, obj, kind)
             users == UsersOf(program, obj, kind)
         IN  /\ n \in Nat
             /\ n > 0 <=> users # {}
             /\ n > 1 <=> \/ Cardinality(users) > 1
                          \/ \E name \in users :
                               name \in program.assumed \/ SpawnedTwice(code, name)
<1> PICK users : users = UsersOf(program, obj, kind)
  OBVIOUS
<1> PICK n : n = CountOf(program, obj, kind)
  OBVIOUS
<1> PICK f : f = [name \in users |-> AtLeast(1, MultOf(program, name))]
  OBVIOUS
<1>1. IsFiniteSet(users)
  <2>1. users \in SUBSET FuncNames(code)
    BY DEF UsersOf, PInv, Visiting, Ops
  <2> PICK g : g = [d \in Funcs(code) |-> code[d].name]
    OBVIOUS
  <2>2. g = [d \in Funcs(code) |-> g[d]] /\ FuncNames(code) = {g[d] : d \in Funcs(code)}
    BY DEF FuncNames
  <2>3. IsFiniteSet(Funcs(code))
    <3>1. Funcs(code) \subseteq DOMAIN code /\ List(code)
      BY TreeFacts DEF PInv, Visiting, Funcs
    <3> QED
      BY <3>1, FiniteDomain
  <2>4. IsFiniteSet(FuncNames(code))
    <3>1. IsFiniteSet({g[d] : d \in Funcs(code)})
      BY <2>2, <2>3, FiniteImage
    <3> QED
      BY <2>2, <3>1
  <2> QED
    BY <2>1, <2>4, FS_Subset
<1>2. ASSUME NEW name \in users
      PROVE  /\ f[name] \in Nat /\ f[name] > 0
             /\ f[name] > 1 <=> name \in program.assumed \/ SpawnedTwice(code, name)
  <2> PICK m : m = MultOf(program, name)
    OBVIOUS
  <2>1. m \in Nat /\ (m > 1 <=> name \in program.assumed \/ SpawnedTwice(code, name))
    BY MultIs
  <2>2. f[name] = IF 1 >= m THEN 1 ELSE m
    BY DEF AtLeast
  <2>3. f[name] \in Nat /\ f[name] > 0 /\ (f[name] > 1 <=> m > 1)
    BY <2>1, <2>2
  <2> QED
    BY <2>1, <2>3
<1>3. n = Cardinality(Counted(users, f))
  <2>1. \A name \in users : {name} \X (1..AtLeast(1, MultOf(program, name))) = {name} \X (1..f[name])
    OBVIOUS
  <2>2. {{name} \X (1..AtLeast(1, MultOf(program, name))) : name \in users}
          = {{name} \X (1..f[name]) : name \in users}
    BY <2>1
  <2> QED
    BY <2>2 DEF Counted, CountOf
<1>4. /\ n \in Nat
      /\ n > 0 <=> \E name \in users : f[name] > 0
      /\ n > 1 <=> \/ \E x, y \in users : x # y /\ f[x] > 0 /\ f[y] > 0
                   \/ \E name \in users : f[name] > 1
  BY <1>1, <1>2, <1>3, CountedTwice
<1>5. Cardinality(users) > 1 <=> \E x, y \in users : x # y
  BY <1>1, HasTwo
<1> QED
  BY <1>2, <1>4, <1>5

(* A lock or queue is a gap exactly if two tasks may want it, and an event *)
(* exactly if it is waited for and set: the encoder's verdict on the count *)
(* of contenders says that of the file.                                    *)
LEMMA GapsAreContended ==
  ASSUME PInv
  PROVE  GapIffContended
<1> SUFFICES ASSUME stage = "idle" /\ done > 0,
                    NEW row \in ToSet(csv), row.path = LastDone.path /\ row.type # "wait_for"
             PROVE  row.gap <=>
                      IF row.type = "EVENT"
                      THEN /\ UsersOf(program, row.name, "EV_WAIT") # {}
                           /\ UsersOf(program, row.name, "EV_SET") # {}
                      ELSE \/ Cardinality(UsersOf(program, row.name, WAITS[row.type])) > 1
                           \/ \E name \in UsersOf(program, row.name, WAITS[row.type]) :
                                name \in program.assumed \/ SpawnedTwice(code, name)
  BY DEF GapIffContended, SpawnedTwice
<1> PICK obj, kind : obj = row.name /\ kind = row.type
  OBVIOUS
<1> PICK n, r : n = Waiters(obj) /\ r = Releases(obj)
  OBVIOUS
<1>1. /\ obj \in DOMAIN Symbols(code) /\ kind = KindOf(obj) /\ row.gap = Gap(kind, n, r)
  BY DEF PInv, RowsCounted
<1>2. kind \in {"LOCK", "QUEUE", "EVENT"}
  BY <1>1, KindIs DEF KindOf, PInv, Visiting
<1>3. n = CountOf(program, obj, WAITS[kind]) /\ r = CountOf(program, obj, RELEASES[kind])
  BY <1>1 DEF Waiters, Releases
<1>4. /\ n \in Nat /\ r \in Nat
      /\ n > 0 <=> UsersOf(program, obj, WAITS[kind]) # {}
      /\ r > 0 <=> UsersOf(program, obj, RELEASES[kind]) # {}
      /\ n > 1 <=> \/ Cardinality(UsersOf(program, obj, WAITS[kind])) > 1
                   \/ \E name \in UsersOf(program, obj, WAITS[kind]) :
                        name \in program.assumed \/ SpawnedTwice(code, name)
  BY <1>3, CountIs
<1>5. CASE kind = "EVENT"
  <2>1. WAITS[kind] = "EV_WAIT" /\ RELEASES[kind] = "EV_SET"
    BY <1>5 DEF WAITS, RELEASES
  <2>2. Gap(kind, n, r) <=> n >= 1 /\ r >= 1
    BY <1>4, <1>5, EventIffSet
  <2>3. (n >= 1 <=> n > 0) /\ (r >= 1 <=> r > 0)
    BY <1>4
  <2> QED
    BY <1>1, <1>4, <1>5, <2>1, <2>2, <2>3
<1>6. CASE kind \in {"LOCK", "QUEUE"}
  <2>1. Gap(kind, n, r) <=> n >= 2
    BY <1>4, <1>6, SharedIffTwo
  <2>2. n >= 2 <=> n > 1
    BY <1>4
  <2>3. kind # "EVENT"
    BY <1>6
  <2> QED
    BY <1>1, <1>4, <2>1, <2>2, <2>3
<1> QED
  BY <1>2, <1>5, <1>6

(* For every file: a lock or queue has a gap in the report exactly if two  *)
(* tasks of the source, or one assumed to run twice, can want it; an event *)
(* exactly if it is waited for and set.                                    *)
THEOREM GapsAreContentions == Spec => []GapIffContended
BY PipelineInvariant, GapsAreContended, PTL
-----------------------------------------------------------------------------
(***************************************************************************)
(* Chains of calls.                                                        *)
(***************************************************************************)
Handles(c, f) == FunctionHasCleanupHandler(c, FuncNamed(c, f))

\* The step of _resolve_chain, for function f after those in seen.
HandledOnce(c, handled, seen, f) ==
  /\ f \notin seen
  /\ \/ Handles(c, f)
     \/ \E inner \in CalledFuncs(c, f) \ {f} : handled[seen \cup {f}][inner]

HandledFrom(c, handled) ==
  handled = [seen \in SUBSET FuncNames(c) |->
               [f \in FuncNames(c) |-> HandledOnce(c, handled, seen, f)]]

\* Of these functions none calls one that is neither in S nor in seen.
Closed(c, seen, S) == \A f \in S : CalledFuncs(c, f) \subseteq S \cup seen

\* What the step computes: no way to leave f out of seen avoids a handler.
Unavoidable(c, seen, f) ==
  /\ f \notin seen
  /\ \A S \in SUBSET (FuncNames(c) \ seen) :
       f \in S /\ Closed(c, seen, S) => \E g \in S : Handles(c, g)

LEMMA UnavoidableStep ==
  ASSUME NEW c, NEW seen \in SUBSET FuncNames(c), NEW f \in FuncNames(c)
  PROVE  Unavoidable(c, seen, f) <=>
           /\ f \notin seen
           /\ \/ Handles(c, f)
              \/ \E inner \in CalledFuncs(c, f) \ {f} : Unavoidable(c, seen \cup {f}, inner)
<1> PICK N : N = FuncNames(c)
  OBVIOUS
<1> PICK then : then = seen \cup {f}
  OBVIOUS
<1>1. \A g : CalledFuncs(c, g) \subseteq N
  BY DEF CalledFuncs
<1>2. ASSUME f \notin seen, Handles(c, f) \/ \E inner \in CalledFuncs(c, f) \ {f} :
                                               Unavoidable(c, then, inner)
      PROVE  Unavoidable(c, seen, f)
  <2>1. SUFFICES ASSUME NEW S \in SUBSET (N \ seen), f \in S, Closed(c, seen, S), ~Handles(c, f)
                 PROVE  \E g \in S : Handles(c, g)
    BY <1>2 DEF Unavoidable
  <2>2. PICK inner \in CalledFuncs(c, f) \ {f} : Unavoidable(c, then, inner)
    BY <1>2, <2>1
  <2>3. inner \in S \ {f}
    BY <2>1, <2>2 DEF Closed, Unavoidable
  <2>4. S \ {f} \in SUBSET (N \ then) /\ Closed(c, then, S \ {f})
    BY <2>1 DEF Closed
  <2> QED
    BY <2>2, <2>3, <2>4 DEF Unavoidable
<1>3. ASSUME f \notin seen, ~Handles(c, f),
             \A inner \in CalledFuncs(c, f) \ {f} : ~Unavoidable(c, then, inner)
      PROVE  ~Unavoidable(c, seen, f)
  <2> DEFINE Quiet == {S \in SUBSET (N \ then) : Closed(c, then, S) /\ \A g \in S : ~Handles(c, g)}
             T == (UNION Quiet) \cup {f}
  <2>1. T \in SUBSET (N \ seen) /\ f \in T
    BY <1>3
  <2>2. \A g \in T : ~Handles(c, g)
    BY <1>3
  <2>3. ASSUME NEW g \in T PROVE CalledFuncs(c, g) \subseteq T \cup seen
    <3>1. CASE g = f
      <4>1. SUFFICES ASSUME NEW inner \in CalledFuncs(c, f), inner # f, inner \notin seen
                     PROVE  inner \in UNION Quiet
        BY <3>1
      <4>2. ~Unavoidable(c, then, inner) /\ inner \notin then
        BY <1>3, <4>1
      <4>3. PICK S \in SUBSET (N \ then) : inner \in S /\ Closed(c, then, S)
                                           /\ \A h \in S : ~Handles(c, h)
        BY <4>2 DEF Unavoidable
      <4> QED
        BY <4>3
    <3>2. CASE g # f
      <4>1. PICK S \in Quiet : g \in S
        BY <3>2
      <4>2. CalledFuncs(c, g) \subseteq S \cup then
        BY <4>1 DEF Closed
      <4> QED
        BY <4>1, <4>2
    <3> QED
      BY <3>1, <3>2
  <2> HIDE DEF T
  <2>4. Closed(c, seen, T)
    BY <2>3 DEF Closed
  <2> QED
    BY <2>1, <2>2, <2>4 DEF Unavoidable
<1>4. Unavoidable(c, seen, f) => f \notin seen
  BY DEF Unavoidable
<1> QED
  BY <1>2, <1>3, <1>4

LEMMA HandledFromExists ==
  ASSUME NEW c
  PROVE  \E handled : HandledFrom(c, handled)
<1> PICK N : N = FuncNames(c)
  OBVIOUS
<1> DEFINE h == [seen \in SUBSET N |-> [f \in N |-> Unavoidable(c, seen, f)]]
<1>1. ASSUME NEW seen \in SUBSET N
      PROVE  h[seen] = [f \in N |-> HandledOnce(c, h, seen, f)]
  <2>1. ASSUME NEW f \in N PROVE Unavoidable(c, seen, f) = HandledOnce(c, h, seen, f)
    <3>1. seen \cup {f} \in SUBSET N /\ CalledFuncs(c, f) \subseteq N
      BY DEF CalledFuncs
    <3>2. \A inner \in CalledFuncs(c, f) :
            h[seen \cup {f}][inner] = Unavoidable(c, seen \cup {f}, inner)
      BY <3>1
    <3> HIDE DEF h
    <3>3. HandledOnce(c, h, seen, f) <=>
            /\ f \notin seen
            /\ \/ Handles(c, f)
               \/ \E inner \in CalledFuncs(c, f) \ {f} : Unavoidable(c, seen \cup {f}, inner)
      BY <3>2 DEF HandledOnce
    <3>4. Unavoidable(c, seen, f) <=> HandledOnce(c, h, seen, f)
      BY <3>3, UnavoidableStep
    <3>5. Unavoidable(c, seen, f) \in BOOLEAN /\ HandledOnce(c, h, seen, f) \in BOOLEAN
      BY DEF Unavoidable, HandledOnce
    <3> QED
      BY <3>4, <3>5
  <2> QED
    BY <2>1
<1>2. h = [seen \in SUBSET N |-> h[seen]]
  OBVIOUS
<1> HIDE DEF h
<1>3. h = [seen \in SUBSET N |-> [f \in N |-> HandledOnce(c, h, seen, f)]]
  BY <1>1, <1>2
<1> QED
  BY <1>3 DEF HandledFrom

LEMMA HandledFromIs ==
  ASSUME NEW c, IsFiniteSet(FuncNames(c)), NEW handled, HandledFrom(c, handled),
         NEW seen \in SUBSET FuncNames(c), NEW f \in FuncNames(c)
  PROVE  handled[seen][f] <=> Unavoidable(c, seen, f)
<1> PICK N : N = FuncNames(c)
  OBVIOUS
<1> DEFINE Good(rest) == \A g \in N : handled[N \ rest][g] <=> Unavoidable(c, N \ rest, g)
           Bad == {rest \in SUBSET N : ~Good(rest)}
<1>1. ASSUME NEW s \in SUBSET N, NEW g \in N
      PROVE  handled[s][g] <=> HandledOnce(c, handled, s, g)
  <2>1. handled = [x \in SUBSET N |-> [y \in N |-> HandledOnce(c, handled, x, y)]]
    BY DEF HandledFrom
  <2>2. handled[s] = [y \in N |-> HandledOnce(c, handled, s, y)]
    BY <2>1
  <2> QED
    BY <2>2
<1>2. ASSUME Bad # {} PROVE FALSE
  <2>1. PICK rest \in Bad : \A r \in rest : rest \ {r} \notin Bad
    BY <1>2, MinimalSet
  <2>2. PICK g \in N : ~(handled[N \ rest][g] <=> Unavoidable(c, N \ rest, g))
    BY <2>1
  <2>3. handled[N \ rest][g] <=> HandledOnce(c, handled, N \ rest, g)
    BY <1>1
  <2>4. g \in rest
    BY <2>2, <2>3 DEF HandledOnce, Unavoidable
  <2>5. Good(rest \ {g})
    BY <2>1, <2>4
  <2>6. N \ (rest \ {g}) = (N \ rest) \cup {g}
    BY <2>4
  <2>7. \A inner \in CalledFuncs(c, g) :
          handled[(N \ rest) \cup {g}][inner] <=> Unavoidable(c, (N \ rest) \cup {g}, inner)
    BY <2>5, <2>6 DEF CalledFuncs
  <2>8. HandledOnce(c, handled, N \ rest, g) <=> Unavoidable(c, N \ rest, g)
    <3> PICK s : s = N \ rest
      OBVIOUS
    <3>1. s \in SUBSET FuncNames(c)
      OBVIOUS
    <3>2. Unavoidable(c, s, g) <=>
            /\ g \notin s
            /\ \/ Handles(c, g)
               \/ \E inner \in CalledFuncs(c, g) \ {g} : Unavoidable(c, s \cup {g}, inner)
      BY <3>1, UnavoidableStep
    <3>3. \A inner \in CalledFuncs(c, g) :
            handled[s \cup {g}][inner] <=> Unavoidable(c, s \cup {g}, inner)
      BY <2>7
    <3> QED
      BY <3>2, <3>3 DEF HandledOnce
  <2> QED
    BY <2>2, <2>3, <2>8
<1>3. Good(N \ seen) /\ N \ (N \ seen) = seen
  BY <1>2
<1> QED
  BY <1>3

(* Whatever is called from f, the search comes to it.                      *)
LEMMA ResolveChainIs ==
  ASSUME NEW c, IsFiniteSet(FuncNames(c)), NEW f
  PROVE  ResolveChain(c, f) <=> f \in FuncNames(c) /\ \E g \in CalledFrom(c, f) : Handles(c, g)
<1> PICK N : N = FuncNames(c)
  OBVIOUS
<1> PICK handled : handled = CHOOSE h : HandledFrom(c, h)
  OBVIOUS
<1>1. ResolveChain(c, f) <=> f \in N /\ handled[{}][f]
  BY DEF ResolveChain, HandledFrom, HandledOnce, Handles
<1>2. HandledFrom(c, handled)
  BY HandledFromExists
<1>3. SUFFICES ASSUME f \in N
               PROVE  handled[{}][f] <=> \E g \in CalledFrom(c, f) : Handles(c, g)
  BY <1>1
<1>4. handled[{}][f] <=> Unavoidable(c, {}, f)
  BY <1>2, <1>3, HandledFromIs
<1> DEFINE Ways == {S \in SUBSET N : f \in S /\ Closed(c, {}, S)}
<1>5. CalledFrom(c, f) = {g \in N : \A S \in Ways : g \in S}
  BY DEF CalledFrom, Closed
<1>6. Unavoidable(c, {}, f) <=> \A S \in Ways : \E g \in S : Handles(c, g)
  BY <1>3 DEF Unavoidable
<1>7. CalledFrom(c, f) \in Ways
  <2>1. CalledFrom(c, f) \in SUBSET N /\ f \in CalledFrom(c, f)
    BY <1>3, <1>5
  <2>2. ASSUME NEW g \in CalledFrom(c, f) PROVE CalledFuncs(c, g) \subseteq CalledFrom(c, f)
    BY <1>5 DEF Closed, CalledFuncs
  <2> QED
    BY <2>1, <2>2 DEF Closed
<1> HIDE DEF Ways
<1> QED
  BY <1>4, <1>5, <1>6, <1>7

(***************************************************************************)
(* wait_for sites.                                                         *)
(***************************************************************************)
HandledAround(c, i) ==
  \E b \in Around(c, i) :
    \/ c[b].k = "suppress"
    \/ c[b].k = "try" /\ TryHasCleanupHandler(c, b)

\* What the visits take for handled is so on the spot.
HandledOnTheSpot ==
  \A j \in 1..Len(program.sites) :
    LET site == program.sites[j]
    IN  /\ DOMAIN site = {"coro", "line", "handled", "callee"} /\ site.handled \in BOOLEAN
        /\ site.handled => HandledAround(code, site.line)

LEMMA WithSiteSpot ==
  ASSUME Visiting, HandledOnTheSpot, code' = code, NEW i, NEW handled \in BOOLEAN,
         program' = WithSite(program, i, handled), handled => HandledAround(code, i)
  PROVE  HandledOnTheSpot'
<1> PICK site : site = [coro |-> CurrentCoro, line |-> i, handled |-> handled,
                        callee |-> WaitForCallee(code, CurrentDef, i)]
  OBVIOUS
<1>1. program' = [program EXCEPT !.sites = Append(program.sites, site)]
  BY DEF WithSite
<1>2. List(program.sites) /\ DOMAIN program = Fields
  BY DEF Visiting, Shape
<1>3. program'.sites = Append(program.sites, site)
  BY <1>1, <1>2 DEF Fields
<1> PICK n : n = Len(program.sites)
  OBVIOUS
<1>4. /\ n \in Nat /\ Len(program'.sites) = n + 1
      /\ \A j \in 1..n : program'.sites[j] = program.sites[j]
      /\ program'.sites[n + 1] = site
  BY <1>2, <1>3, ListAppend, ListFacts
<1>5. ASSUME NEW j \in 1..n + 1
      PROVE  LET s == program'.sites[j]
             IN  /\ DOMAIN s = {"coro", "line", "handled", "callee"} /\ s.handled \in BOOLEAN
                 /\ s.handled => HandledAround(code, s.line)
  <2>1. CASE j \in 1..n
    BY <1>4, <2>1 DEF HandledOnTheSpot
  <2>2. CASE j = n + 1
    BY <1>4, <2>2
  <2> QED
    BY <1>4, <2>1, <2>2
<1> QED
  BY <1>4, <1>5 DEF HandledOnTheSpot

LEMMA InsideIsAround ==
  ASSUME NEW c, NEW b \in 1..Len(c), Len(c) \in Nat, IsBlock(c, b), NEW i \in Inside(c, b)
  PROVE  b \in Around(c, i)
BY DEF Inside, Around

LEMMA SameSites ==
  ASSUME HandledOnTheSpot, code' = code, program'.sites = program.sites
  PROVE  HandledOnTheSpot'
BY DEF HandledOnTheSpot

LEMMA SitesKept ==
  ASSUME NEW p, IsProgram(p), NEW obj, NEW kind, NEW lock, NEW note
  PROVE  /\ WithSync(p, obj).sites = p.sites
         /\ Emit(p, kind, lock, note).sites = p.sites
         /\ Emit(WithSync(p, obj), kind, lock, note).sites = p.sites
<1> PICK q : q = WithSync(p, obj)
  OBVIOUS
<1>1. q.sites = p.sites /\ IsProgram(q)
  BY WithSyncParts
<1>2. ASSUME NEW r, IsProgram(r) PROVE Emit(r, kind, lock, note).sites = r.sites
  BY <1>2 DEF Emit, IsProgram, Fields
<1> QED
  BY <1>1, <1>2

LEMMA VisitSpot ==
  ASSUME Visiting, HandledOnTheSpot, Visit
  PROVE  HandledOnTheSpot'
<1>1. IsProgram(program) /\ WellFormed(code) /\ Stack
  BY DEF Visiting, Shape, IsProgram
<1>2. CASE VisitNextFunction \/ VisitFunctionDef \/ VisitOther
  BY <1>2, SameSites DEF VisitNextFunction, VisitFunctionDef, VisitOther
<1>3. CASE VisitAsyncWith \/ LeaveBlock
  <2>1. code' = code
    BY <1>3 DEF VisitAsyncWith, LeaveBlock
  <2>2. \/ program' = program
        \/ \E obj : program' = WithSync(program, obj)
        \/ \E obj, kind, lock, note : program' = Emit(WithSync(program, obj), kind, lock, note)
        \/ \E kind, lock, note : program' = Emit(program, kind, lock, note)
    BY <1>3 DEF VisitAsyncWith, LeaveBlock
  <2>3. program'.sites = program.sites
    BY <1>1, <2>2, SitesKept
  <2> QED
    BY <2>1, <2>3, SameSites
<1>4. CASE VisitWith \/ VisitTry
  <2>1. /\ frames # <<>> /\ code' = code /\ code[node].k \in {"suppress", "try"}
        /\ node \in 1..Len(code) /\ Len(code) \in Nat
    BY <1>1, <1>4, TreeFacts DEF VisitWith, VisitTry, At, Stack
  <2>2. IsBlock(code, node)
    BY <2>1 DEF IsBlock, Blocks
  <2>3. ASSUME NEW i \in FirstWaitFor(code, node),
               code[node].k = "suppress" \/ TryHasCleanupHandler(code, node)
        PROVE  HandledAround(code, i)
    BY <2>1, <2>2, <2>3, InsideIsAround DEF FirstWaitFor, HandledAround
  <2>4. CASE program' = program
    BY <2>1, <2>4, SameSites
  <2>5. CASE VisitWith /\ program' # program
    <3> PICK new : new = FirstWaitFor(code, node) \ seenWaits
      OBVIOUS
    <3>1. /\ code[node].k = "suppress"
          /\ program' = IF new = {} THEN program
                        ELSE WithSite(program, CHOOSE i \in new : TRUE, TRUE)
      BY <2>5 DEF VisitWith, At
    <3>2. PICK i \in new : program' = WithSite(program, i, TRUE)
      BY <2>5, <3>1
    <3>3. HandledAround(code, i)
      BY <2>3, <3>1
    <3> QED
      BY <2>1, <3>2, <3>3, WithSiteSpot
  <2>6. CASE VisitTry /\ program' # program
    <3> PICK first : first = FirstWaitFor(code, node)
      OBVIOUS
    <3> DEFINE handled == TryHasCleanupHandler(code, node)
    <3>0. handled \in BOOLEAN
      BY DEF TryHasCleanupHandler
    <3>1. program' = IF first = {} THEN program
                     ELSE WithSite(program, CHOOSE i \in first : TRUE, handled)
      BY <2>6 DEF VisitTry
    <3> HIDE DEF handled
    <3>2. PICK i \in first : program' = WithSite(program, i, handled)
      BY <2>6, <3>1
    <3>3. handled => HandledAround(code, i)
      BY <2>3 DEF handled
    <3> QED
      BY <2>1, <3>0, <3>2, <3>3, WithSiteSpot
  <2> QED
    BY <1>4, <2>4, <2>5, <2>6
<1>5. CASE HandleCallExpr
  <2>1. code' = code
    BY <1>5 DEF HandleCallExpr
  <2>2. CASE program' = program \/ program' = WithSite(program, node, FALSE)
    BY <2>1, <2>2, SameSites, WithSiteSpot
  <2>3. CASE program' = AfterCall(program)
    <3>1. \/ program' = program
          \/ \E obj : program' = WithSync(program, obj)
          \/ \E obj, kind, lock, note : program' = Emit(WithSync(program, obj), kind, lock, note)
          \/ \E kind, lock, note : program' = Emit(program, kind, lock, note)
      BY <2>3 DEF AfterCall
    <3>2. program'.sites = program.sites
      BY <1>1, <3>1, SitesKept
    <3> QED
      BY <2>1, <3>2, SameSites
  <2> QED
    BY <1>5, <2>2, <2>3 DEF HandleCallExpr
<1> QED
  BY <1>2, <1>3, <1>4, <1>5 DEF Visit

Chained ==
  /\ stage = "extract" => HandledOnTheSpot
  /\ ChainIsReachability

LEMMA FuncNamesFinite ==
  ASSUME NEW c, WellFormed(c)
  PROVE  IsFiniteSet(FuncNames(c))
<1>1. Len(c) \in Nat /\ Funcs(c) \subseteq 1..Len(c)
  BY TreeFacts
<1>2. IsFiniteSet(1..Len(c))
  BY <1>1, FS_Interval
<1>3. IsFiniteSet(Funcs(c))
  BY <1>1, <1>2, FS_Subset
<1> PICK name : name = [d \in Funcs(c) |-> c[d].name]
  OBVIOUS
<1>4. IsFiniteSet({name[d] : d \in Funcs(c)})
  BY <1>3, FiniteImage
<1>5. FuncNames(c) = {name[d] : d \in Funcs(c)}
  BY DEF FuncNames
<1> QED
  BY <1>4, <1>5

LEMMA ExtractedChained ==
  ASSUME PInv, HandledOnTheSpot, Extracted
  PROVE  ChainIsReachability'
<1> PICK sites : sites = program.sites
  OBVIOUS
<1>1. /\ EndExtract /\ stage = "extract" /\ code' = code /\ Visiting
  BY DEF Extracted, EndExtract, PInv
<1>2. IsProgram(program) /\ List(sites) /\ WellFormed(code)
  BY <1>1 DEF Visiting, Shape, IsProgram
<1>3. program'.sites = Resolved(code, sites)
  BY <1>1, <1>2 DEF EndExtract, IsProgram, Fields
<1>4. DOMAIN sites = 1..Len(sites)
  BY <1>2, ListFacts
<1>5. DOMAIN program'.sites = DOMAIN sites
  BY <1>3 DEF Resolved
<1>6. ASSUME NEW j \in DOMAIN sites
      PROVE  LET site == program'.sites[j]
             IN  /\ HandlerReachable(site.callee) => site.handled
                 /\ site.handled => \/ HandlerReachable(site.callee)
                                    \/ HandledAround(code, site.line)
  <2> PICK old : old = sites[j]
    OBVIOUS
  <2> PICK site : site = program'.sites[j]
    OBVIOUS
  <2> DEFINE resolved == old.callee # None /\ ResolveChain(code, Head(old.callee))
  <2>1. resolved <=> HandlerReachable(old.callee)
    BY <1>2, FuncNamesFinite, ResolveChainIs DEF HandlerReachable, Handles
  <2> HIDE DEF resolved
  <2>2. site = [old EXCEPT !.handled = @ \/ resolved]
    BY <1>3 DEF Resolved, resolved
  <2>3. /\ DOMAIN old = {"coro", "line", "handled", "callee"} /\ old.handled \in BOOLEAN
        /\ old.handled => HandledAround(code, old.line)
    BY <1>4 DEF HandledOnTheSpot
  <2>4. site.callee = old.callee /\ site.line = old.line
    BY <2>2, <2>3
  <2>5. site.handled <=> old.handled \/ resolved
    BY <2>2, <2>3
  <2> QED
    BY <2>1, <2>3, <2>4, <2>5
<1> QED
  BY <1>1, <1>5, <1>6 DEF ChainIsReachability, HandledAround, HandlerReachable

(* A wait_for that nothing handles on the spot counts as handled exactly   *)
(* if a handler can be reached by the calls of what it awaits, in any      *)
(* number of them and through any cycles (extractor.py:804-826).           *)
THEOREM ChainsAreFollowed == Spec => []ChainIsReachability
<1>1. Init => Chained
  BY DEF Init, Chained, ChainIsReachability
<1>2. PInv /\ Chained /\ [Next]_vars => Chained'
  <2> SUFFICES ASSUME PInv, Chained, [Next]_vars PROVE Chained'
    OBVIOUS
  <2>1. CASE NextFile
    BY <2>1, ShortLists DEF NextFile, BeginExtract, EmptyProgram, Chained, ChainIsReachability,
       HandledOnTheSpot
  <2>2. CASE VisitFile
    BY <2>2, VisitSpot DEF VisitFile, PInv, Chained, ChainIsReachability
  <2>3. CASE Extracted
    BY <2>3, ExtractedChained DEF Extracted, Chained
  <2>4. CASE ApplyPublicConcurrentAssumption \/ CheckRaises \/ CheckAndExport \/ InspectGaps
    BY <2>4 DEF ApplyPublicConcurrentAssumption, CheckRaises, CheckAndExport, InspectGaps,
       Chained, ChainIsReachability
  <2>5. CASE UNCHANGED vars
    BY <2>5 DEF vars, extractVars, Chained, ChainIsReachability, HandledOnTheSpot,
       HandlerReachable
  <2> QED
    BY <2>1, <2>2, <2>3, <2>4, <2>5 DEF Next, Finished
<1>3. Chained => ChainIsReachability
  BY DEF Chained
<1> QED
  BY <1>1, <1>2, <1>3, PipelineInvariant, PTL DEF Spec
-----------------------------------------------------------------------------
(***************************************************************************)
(* Every wait_for has its rows.                                            *)
(***************************************************************************)
\* The statements that were met: they are in a visited function, and behind the visitor.
Met ==
  {i \in 1..Len(code) : /\ \E v \in visited : i \in Inside(code, v)
                        /\ frames # <<>> /\ i \in Inside(code, Root) => i < node}

IsSite(c, w) == IsWaitFor(c, w) /\ c[w].await
Notes(c, b) == c[b].k \in {"try", "suppress"}

\* The blocks that a wait_for is the first of.
FirstIn(c, w) ==
  {b \in Around(c, w) : Notes(c, b) /\ DefAround(c, b) # 0 /\ w \in FirstWaitFor(c, b)}

\* Of the statements M that were met, seen are the wait_fors that were.
Seen(c, M, seen) ==
  \A w \in 1..Len(c) : w \in seen <=> \/ w \in M /\ IsSite(c, w)
                                      \/ \E b \in M : Notes(c, b) /\ w \in FirstWaitFor(c, b)

\* The sites are those that the statements M record, once each.
Accounted(c, M, sites) ==
  \E by \in [DOMAIN sites -> M] :
    /\ \A j, k \in DOMAIN sites : by[j] = by[k] => j = k
    /\ \A j \in DOMAIN sites :
         /\ sites[j].line \in 1..Len(c) /\ by[j] \in Recorders(c, sites[j].line)
         /\ sites[j].coro = c[DefAround(c, by[j])].name
    /\ \A w \in 1..Len(c) : \A r \in Recorders(c, w) \cap M :
         \E j \in DOMAIN sites : by[j] = r /\ sites[j].line = w

LEMMA RecordersAre ==
  ASSUME NEW c, NEW w
  PROVE  /\ Recorders(c, w) =
              {b \in FirstIn(c, w) : c[b].k = "try" \/ \A a \in FirstIn(c, w) : b <= a}
                \cup {i \in {w} : FirstIn(c, w) = {} /\ IsSite(c, w) /\ DefAround(c, w) # 0}
         /\ \A r \in Recorders(c, w) :
              /\ DefAround(c, r) # 0
              /\ \/ Notes(c, r) /\ w \in FirstWaitFor(c, r)
                 \/ r = w /\ IsSite(c, w)
<1>1. FirstIn(c, w) = {b \in Around(c, w) : /\ c[b].k \in {"try", "suppress"}
                                            /\ DefAround(c, b) # 0 /\ w \in FirstWaitFor(c, b)}
  BY DEF FirstIn, Notes
<1>2. Recorders(c, w) =
        {b \in FirstIn(c, w) : c[b].k = "try" \/ \A a \in FirstIn(c, w) : b <= a}
          \cup {i \in {w} : FirstIn(c, w) = {} /\ IsSite(c, w) /\ DefAround(c, w) # 0}
  BY <1>1 DEF Recorders, IsSite
<1> QED
  BY <1>2 DEF FirstIn

LEMMA SiteIsCall ==
  ASSUME NEW c, NEW i
  PROVE  IsSite(c, i) => c[i].k = "call"
<1>1. 0 \in CallsOf(c, i) => IsCall(c, i)
  <2>1. CASE ~IsCall(c, i)
    <3>1. CallsOf(c, i) = 1..Len(InnerCalls(c, i))
      BY <2>1 DEF CallsOf
    <3> QED BY <3>1
  <2> QED BY <2>1
<1>2. IsSite(c, i) => 0 \in CallsOf(c, i)
  BY DEF IsSite, IsWaitFor, WaitForsIn
<1> QED BY <1>1, <1>2 DEF IsCall

LEMMA WaitLevelIs ==
  ASSUME NEW c, WellFormed(c), WellCalled(c), NEW i \in 1..Len(c), HasWaitFor(c, i)
  PROVE  WaitLevel(c, i) \in Nat
<1>1. i \in DOMAIN c /\ c[i].depth \in Nat
  BY TreeFacts
<1>2. CallsOf(c, i) \subseteq Nat
  BY <1>1, CallNumbers
<1> PICK n : n = Min(WaitForsIn(c, i))
  OBVIOUS
<1>3. n \in CallsOf(c, i)
  <2>1. WaitForsIn(c, i) \subseteq CallsOf(c, i) /\ WaitForsIn(c, i) # {}
    BY DEF WaitForsIn, HasWaitFor
  <2>2. WaitForsIn(c, i) \subseteq Nat
    BY <1>2, <2>1
  <2> QED BY <2>1, <2>2, LeastIs
<1>4. CallAt(c, i, n).level \in Nat
  BY <1>1, <1>3 DEF WellCalled
<1>5. WaitLevel(c, i) = c[i].depth + (IF IsCall(c, i) /\ c[i].await THEN 1 ELSE 0)
                          + CallAt(c, i, n).level
  BY DEF WaitLevel, WaitForCall
<1> QED BY <1>1, <1>4, <1>5

LEMMA FirstIsOne ==
  ASSUME NEW c, WellFormed(c), WellCalled(c), NEW b \in 1..Len(c),
         NEW i \in FirstWaitFor(c, b), NEW j \in FirstWaitFor(c, b)
  PROVE  i = j /\ i \in 1..Len(c)
<1> PICK m, n : m = WaitLevel(c, i) /\ n = WaitLevel(c, j)
  OBVIOUS
<1>1. /\ i \in Inside(c, b) /\ j \in Inside(c, b) /\ HasWaitFor(c, i) /\ HasWaitFor(c, j)
      /\ i # j => /\ m < n \/ (m = n /\ i < j)
                  /\ n < m \/ (n = m /\ j < i)
  BY DEF FirstWaitFor
<1>2. i \in 1..Len(c) /\ j \in 1..Len(c)
  BY <1>1, TreeFacts DEF Inside
<1>3. m \in Nat /\ n \in Nat
  BY <1>1, <1>2, WaitLevelIs
<1> QED
  BY <1>1, <1>2, <1>3, TreeFacts

LEMMA HasDef ==
  ASSUME NEW c, WellFormed(c), NEW i \in 1..Len(c)
  PROVE  DefAround(c, i) # 0 <=> \E d \in Funcs(c) : i \in Inside(c, d)
<1>1. Len(c) \in Nat /\ DOMAIN c = 1..Len(c) /\ Funcs(c) \subseteq 1..Len(c)
  BY TreeFacts
<1>2. ASSUME NEW d \in Funcs(c) PROVE i \in Inside(c, d) <=> d \in Around(c, i)
  <2>1. d \in 1..Len(c) /\ IsBlock(c, d)
    BY TreeFacts
  <2> QED BY <1>1, <2>1 DEF Inside, Around
<1>3. ASSUME NEW d \in Funcs(c), d \in Around(c, i) PROVE DefAround(c, i) # 0
  <2>1. DefAround(c, i) \in 1..Len(c)
    BY <1>1, <1>3, InnermostDef
  <2> QED BY <1>1, <2>1
<1>4. ASSUME \A d \in Funcs(c) : d \notin Around(c, i) PROVE DefAround(c, i) = 0
  <2>1. {b \in Around(c, i) : c[b].k \in {"def"}} \cup {0} = {0}
    <3>1. Around(c, i) \subseteq 1..Len(c)
      BY <1>1 DEF Around
    <3> QED BY <1>1, <1>4, <3>1 DEF Funcs
  <2>2. DefAround(c, i) = Max({0})
    BY <2>1 DEF DefAround, Innermost
  <2>3. Max({0}) = 0
    <3>1. {0} \subseteq Nat /\ {0} # {} /\ \A y \in {0} : y <= 0
      OBVIOUS
    <3> QED BY <3>1, GreatestIs
  <2> QED BY <2>2, <2>3
<1> QED BY <1>2, <1>3, <1>4

(* One more statement is met: it has marked what it is the first block of, *)
(* or itself.                                                              *)
LEMMA SeenGrows ==
  ASSUME NEW c, NEW M, NEW seen, NEW now, Seen(c, M, seen), NEW n,
         \A w \in 1..Len(c) : w \in now <=> \/ w \in seen
                                            \/ w = n /\ IsSite(c, n)
                                            \/ Notes(c, n) /\ w \in FirstWaitFor(c, n)
  PROVE  Seen(c, M \cup {n}, now)
BY DEF Seen

(* It records nothing.                                                     *)
LEMMA NoneRecorded ==
  ASSUME NEW c, NEW M, NEW sites, Accounted(c, M, sites), NEW n,
         \A w \in 1..Len(c) : n \notin Recorders(c, w)
  PROVE  Accounted(c, M \cup {n}, sites)
<1>1. PICK by \in [DOMAIN sites -> M] :
        /\ \A j, k \in DOMAIN sites : by[j] = by[k] => j = k
        /\ \A j \in DOMAIN sites :
             /\ sites[j].line \in 1..Len(c) /\ by[j] \in Recorders(c, sites[j].line)
             /\ sites[j].coro = c[DefAround(c, by[j])].name
        /\ \A w \in 1..Len(c) : \A r \in Recorders(c, w) \cap M :
             \E j \in DOMAIN sites : by[j] = r /\ sites[j].line = w
  BY DEF Accounted
<1>2. by \in [DOMAIN sites -> M \cup {n}]
  OBVIOUS
<1>3. \A w \in 1..Len(c) : \A r \in Recorders(c, w) \cap (M \cup {n}) :
        r \in Recorders(c, w) \cap M
  OBVIOUS
<1> QED BY <1>1, <1>2, <1>3 DEF Accounted

(* It records a wait_for: that is a site more.                             *)
LEMMA OneRecorded ==
  ASSUME NEW c, NEW M, NEW sites, List(sites), Accounted(c, M, sites),
         NEW n, n \notin M, NEW w \in 1..Len(c), n \in Recorders(c, w),
         \A v \in 1..Len(c) : n \in Recorders(c, v) => v = w,
         NEW site, site.line = w, site.coro = c[DefAround(c, n)].name
  PROVE  Accounted(c, M \cup {n}, Append(sites, site))
<1> PICK more, m : more = Append(sites, site) /\ m = Len(sites)
  OBVIOUS
<1>1. /\ m \in Nat /\ DOMAIN sites = 1..m /\ DOMAIN more = 1..m + 1
      /\ \A j \in 1..m : more[j] = sites[j]
      /\ more[m + 1] = site
  <2>1. /\ m \in Nat /\ DOMAIN sites = 1..m /\ List(more) /\ Len(more) = m + 1
        /\ \A j \in 1..m : more[j] = sites[j]
        /\ more[m + 1] = site
    BY ListAppend, ListFacts
  <2> QED BY <2>1, ListFacts
<1>2. PICK by \in [DOMAIN sites -> M] :
        /\ \A j, k \in DOMAIN sites : by[j] = by[k] => j = k
        /\ \A j \in DOMAIN sites :
             /\ sites[j].line \in 1..Len(c) /\ by[j] \in Recorders(c, sites[j].line)
             /\ sites[j].coro = c[DefAround(c, by[j])].name
        /\ \A v \in 1..Len(c) : \A r \in Recorders(c, v) \cap M :
             \E j \in DOMAIN sites : by[j] = r /\ sites[j].line = v
  BY DEF Accounted
<1> PICK new : new = [j \in 1..m + 1 |-> IF j \in 1..m THEN by[j] ELSE n]
  OBVIOUS
<1>3. /\ \A j \in 1..m : new[j] = by[j] /\ by[j] \in M
      /\ new[m + 1] = n
      /\ \A j \in 1..m + 1 : j \in 1..m \/ j = m + 1
      /\ new \in [1..m + 1 -> M \cup {n}]
  <2>1. \A j \in 1..m : j \in 1..m + 1 /\ by[j] \in M
    BY <1>1, <1>2
  <2>2. /\ m + 1 \in 1..m + 1 /\ m + 1 \notin 1..m
        /\ \A j \in 1..m + 1 : j \in 1..m \/ j = m + 1
    BY <1>1
  <2> QED BY <2>1, <2>2
<1>4. \A j, k \in 1..m + 1 : new[j] = new[k] => j = k
  BY <1>1, <1>2, <1>3
<1>5. ASSUME NEW j \in 1..m + 1
      PROVE  /\ more[j].line \in 1..Len(c) /\ new[j] \in Recorders(c, more[j].line)
             /\ more[j].coro = c[DefAround(c, new[j])].name
  <2>1. CASE j \in 1..m
    BY <1>1, <1>2, <1>3, <2>1
  <2>2. CASE j = m + 1
    BY <1>1, <1>3, <2>2
  <2> QED BY <1>3, <2>1, <2>2
<1>6. ASSUME NEW v \in 1..Len(c), NEW r \in Recorders(c, v) \cap (M \cup {n})
      PROVE  \E j \in 1..m + 1 : new[j] = r /\ more[j].line = v
  <2>1. CASE r \in M
    <3>1. PICK j \in 1..m : by[j] = r /\ sites[j].line = v
      BY <1>1, <1>2, <1>6, <2>1
    <3> QED BY <1>1, <1>3, <3>1
  <2>2. CASE r = n
    <3>1. v = w /\ m + 1 \in 1..m + 1
      BY <1>1, <1>6, <2>2
    <3> QED BY <1>1, <1>3, <2>2, <3>1
  <2> QED BY <1>6, <2>1, <2>2
<1>7. new \in [DOMAIN more -> M \cup {n}] /\ DOMAIN more = 1..m + 1
  BY <1>1, <1>3
<1>8. /\ \A j, k \in DOMAIN more : new[j] = new[k] => j = k
      /\ \A j \in DOMAIN more :
           /\ more[j].line \in 1..Len(c) /\ new[j] \in Recorders(c, more[j].line)
           /\ more[j].coro = c[DefAround(c, new[j])].name
      /\ \A v \in 1..Len(c) : \A r \in Recorders(c, v) \cap (M \cup {n}) :
           \E j \in DOMAIN more : new[j] = r /\ more[j].line = v
  BY <1>4, <1>5, <1>6, <1>7
<1>9. Accounted(c, M \cup {n}, more)
  BY <1>7, <1>8, Zenon DEF Accounted
<1> QED BY <1>9

(* A step of the visitor meets its node, unless it is at the end of the    *)
(* function that it was called on.                                         *)
LEMMA MetGrows ==
  ASSUME WellFormed(code), Stack, Covered, Steps,
         \/ visited' = visited
         \/ visited' = visited \cup {node} /\ code[node].k = "def" /\ frames' # <<>>
  PROVE  /\ node \notin Met \/ node \notin Inside(code, Root)
         /\ node \in Inside(code, Root) => Met' = Met \cup {node}
         /\ node \notin Inside(code, Root) => Met' = Met
<1>1. /\ frames # <<>> /\ code' = code /\ node' = node + 1
      /\ frames' # <<>> => Root' = Root
      /\ frames' = <<>> => code[node].depth = code[Root].depth
      /\ node \in 1..Len(code) /\ Len(code) \in Nat /\ Root \in 1..Len(code) /\ Root \in visited
      /\ Root < node
      /\ \A i \in 1..Len(code) : code[i].depth \in Nat
  BY StackFacts DEF Steps, Covered
<1>2. ASSUME NEW i \in Met PROVE i \in Met'
  <2>1. PICK v \in visited : i \in Inside(code, v)
    BY <1>2 DEF Met
  <2>2. i \in 1..Len(code) /\ (i \in Inside(code, Root) => i < node)
    BY <1>1, <1>2 DEF Met
  <2>3. v \in visited' /\ i \in Inside(code', v)
    BY <1>1, <2>1
  <2>4. frames' # <<>> /\ i \in Inside(code', Root') => i < node'
    BY <1>1, <2>2
  <2> QED BY <1>1, <2>2, <2>3, <2>4 DEF Met
<1>3. ASSUME node \in Inside(code, Root) PROVE node \in Met'
  <2>1. Root \in visited' /\ node \in Inside(code', Root) /\ node < node'
    BY <1>1, <1>3
  <2> QED BY <1>1, <2>1 DEF Met
<1>4. ASSUME NEW i \in Met', i \notin Met PROVE i = node /\ i \in Inside(code, Root)
  <2>1. PICK v \in visited' : i \in Inside(code, v)
    BY <1>1, <1>4 DEF Met
  <2>2. i \in 1..Len(code) /\ (frames' # <<>> /\ i \in Inside(code, Root) => i < node + 1)
    BY <1>1, <1>4 DEF Met
  <2>3. CASE v \in visited
    <3>1. i \in Inside(code, Root) /\ ~(i < node)
      BY <1>1, <1>4, <2>1, <2>2, <2>3 DEF Met
    <3>2. frames' # <<>>
      <4>1. i \in Root + 1..Len(code) /\ \A j \in Root + 1..i : code[j].depth > code[Root].depth
        BY <3>1 DEF Inside
      <4>2. node \in Root + 1..i
        BY <1>1, <3>1, <4>1
      <4>3. code[node].depth > code[Root].depth
        BY <4>1, <4>2
      <4> QED BY <1>1, <4>3
    <3> QED BY <1>1, <2>2, <3>1, <3>2
  <2>4. CASE v \notin visited
    <3>1. v = node /\ code[node].k = "def" /\ frames' # <<>>
      BY <2>4
    <3>2. node \in Inside(code, Root)
      BY <3>1, NodeInRoot, <1>1
    <3>3. i \in Inside(code, Root) /\ i \in node + 1..Len(code)
      <4>1. i \in Inside(code, node)
        BY <2>1, <3>1
      <4> QED BY <1>1, <3>2, <4>1, InsideInside DEF Inside
    <3> QED BY <1>1, <2>2, <3>1, <3>3
  <2> QED BY <2>3, <2>4
<1>5. node \in Inside(code, Root) => node \notin Met
  BY <1>1 DEF Met
<1> QED BY <1>2, <1>3, <1>4, <1>5

(* What is in a function and around the visitor's node was met.            *)
LEMMA AroundMet ==
  ASSUME WellFormed(code), Stack, Covered, frames # <<>>, node \in Inside(code, Root),
         NEW b \in 1..Len(code), node \in Inside(code, b), DefAround(code, b) # 0
  PROVE  b \in Met
<1>1. /\ node \in 1..Len(code) /\ Len(code) \in Nat /\ Root \in 1..Len(code)
      /\ Root \in visited /\ Root \in Funcs(code)
  BY StackFacts DEF Covered
<1>2. b < node
  BY <1>1 DEF Inside
<1>3. PICK d \in Funcs(code) : b \in Inside(code, d)
  BY HasDef
<1>4. d \in 1..Len(code)
  BY TreeFacts
<1>5. CASE b \in Inside(code, Root)
  BY <1>1, <1>2, <1>5 DEF Met
<1>6. CASE b \notin Inside(code, Root)
  <2>1. b = Root \/ Root \in Inside(code, b)
    <3>1. CASE Root < b
      BY <1>1, <1>6, <3>1, AroundNest
    <3>2. CASE b < Root
      BY <1>1, <3>2, AroundNest
    <3> QED BY <1>1, <3>1, <3>2
  <2>2. Root \in Inside(code, d)
    BY <1>3, <1>4, <2>1, InsideInside
  <2>3. d \in visited
    BY <1>1, <2>2 DEF Covered
  <2> QED BY <1>3, <1>6, <2>3 DEF Met
<1> QED BY <1>5, <1>6

(* The next function is one that nothing in was met.                       *)
LEMMA MetStays ==
  ASSUME Visiting, VisitNextFunction
  PROVE  Met' = Met
<1>1. /\ frames = <<>> /\ code' = code /\ WellFormed(code) /\ Covered
  BY DEF VisitNextFunction, Visiting
<1>2. PICK d \in Funcs(code) \ visited :
        /\ visited' = visited \cup {d} /\ node' = d + 1
        /\ frames' = Append(frames, [block |-> d, lock |-> None])
  BY DEF VisitNextFunction, EnterFunction
<1>3. frames' # <<>> /\ Root' = d
  BY <1>1, <1>2 DEF Root
<1>4. /\ Len(code) \in Nat /\ d \in 1..Len(code) /\ visited \subseteq 1..Len(code)
      /\ visited \subseteq Funcs(code)
  BY <1>1, TreeFacts DEF Covered
<1>5. ASSUME NEW v \in visited, NEW i \in Inside(code, v) PROVE i \notin Inside(code, d)
  <2>1. SUFFICES ASSUME i \in Inside(code, d) PROVE FALSE
    OBVIOUS
  <2>2. v # d /\ v \in 1..Len(code)
    BY <1>4
  <2>3. CASE v < d
    <3>1. d \in Inside(code, v)
      BY <1>1, <1>4, <1>5, <2>1, <2>2, <2>3, AroundNest
    <3> QED BY <1>1, <3>1 DEF Covered
  <2>4. CASE d < v
    <3>1. v \in Inside(code, d)
      BY <1>1, <1>4, <1>5, <2>1, <2>2, <2>4, AroundNest
    <3> QED BY <1>1, <3>1 DEF Covered
  <2> QED BY <1>4, <2>2, <2>3, <2>4
<1>6. ASSUME NEW i \in Inside(code, d) PROVE ~(i < d + 1)
  BY <1>4, <1>6 DEF Inside
<1>7. ASSUME NEW i \in 1..Len(code)
      PROVE  /\ i \in Met <=> \E v \in visited : i \in Inside(code, v)
             /\ i \in Met' <=> /\ \E v \in visited \cup {d} : i \in Inside(code, v)
                               /\ i \in Inside(code, d) => i < d + 1
  BY <1>1, <1>2, <1>3, <1>7 DEF Met
<1>8. ASSUME NEW i \in 1..Len(code) PROVE i \in Met' <=> i \in Met
  BY <1>5, <1>6, <1>7
<1>9. Met \subseteq 1..Len(code) /\ Met' \subseteq 1..Len(code)
  BY <1>1 DEF Met
<1> QED BY <1>8, <1>9

LEMMA AroundIsInside ==
  ASSUME NEW c, Len(c) \in Nat, NEW i \in 1..Len(c), NEW b \in Around(c, i)
  PROVE  b \in 1..Len(c) /\ i \in Inside(c, b)
BY DEF Around, Inside

\* The whole of what is counted while a file is visited.
Noted == Seen(code, Met, seenWaits) /\ Accounted(code, Met, program.sites)

(* A block that was met is one of those that a wait_for is the first of.   *)
LEMMA MetIsFirst ==
  ASSUME WellFormed(code), Covered, NEW b \in Met, Notes(code, b), NEW w \in FirstWaitFor(code, b)
  PROVE  b \in FirstIn(code, w)
<1>1. PICK v \in visited : b \in 1..Len(code) /\ b \in Inside(code, v)
  BY DEF Met
<1>2. v \in Funcs(code) /\ Len(code) \in Nat
  BY TreeFacts DEF Covered
<1>3. DefAround(code, b) # 0
  BY <1>1, <1>2, HasDef
<1>4. IsBlock(code, b) /\ w \in Inside(code, b)
  BY DEF Notes, IsBlock, Blocks, FirstWaitFor
<1>5. b \in Around(code, w)
  BY <1>1, <1>2, <1>4, InsideIsAround
<1> QED BY <1>3, <1>5 DEF FirstIn

(* At a block: the wait_for that it is the first of was seen before        *)
(* exactly if it is also the first of a block around this one.             *)
LEMMA SeenAtBlock ==
  ASSUME Visiting, frames # <<>>, Seen(code, Met, seenWaits), Notes(code, node),
         NEW w \in FirstWaitFor(code, node)
  PROVE  /\ w \in 1..Len(code) /\ node \in FirstIn(code, w)
         /\ w \in seenWaits <=> \E a \in FirstIn(code, w) : ~(node <= a)
<1>1. /\ WellFormed(code) /\ Stack /\ Covered /\ node \in 1..Len(code) /\ Len(code) \in Nat
      /\ Root \in 1..Len(code) /\ code[node].k # "end" /\ IsBlock(code, node)
  BY StackFacts DEF Visiting, Notes, IsBlock, Blocks
<1>2. node \in Inside(code, Root)
  BY <1>1, NodeInRoot
<1>3. w \in Inside(code, node) /\ w \in 1..Len(code) /\ w > node
  <2>1. w \in Inside(code, node)
    BY DEF FirstWaitFor
  <2> QED BY <1>1, <2>1 DEF Inside
<1>4. node \in FirstIn(code, w)
  <2>1. DefAround(code, node) # 0
    <3>1. DefAround(code, node) = CurrentDef /\ CurrentDef \in Funcs(code)
      BY <1>1, DefOfNode, CurrentIsDef
    <3>2. CurrentDef \in 1..Len(code)
      BY <1>1, <3>1, TreeFacts
    <3> QED BY <3>1, <3>2
  <2>2. node \in Around(code, w)
    BY <1>1, <1>3, InsideIsAround
  <2> QED BY <2>1, <2>2 DEF FirstIn
<1>5. ASSUME NEW i \in Inside(code, node) PROVE i \notin Met
  <2>1. i \in Inside(code, Root) /\ ~(i < node)
    <3>1. i \in Inside(code, Root)
      BY <1>1, <1>2, InsideInside
    <3> QED BY <1>1, <3>1 DEF Inside
  <2> QED BY <2>1 DEF Met
<1>6. ASSUME w \in seenWaits PROVE \E a \in FirstIn(code, w) : ~(node <= a)
  <2>1. PICK b \in Met : Notes(code, b) /\ w \in FirstWaitFor(code, b)
    BY <1>3, <1>5, <1>6 DEF Seen
  <2>2. b \in FirstIn(code, w)
    BY <1>1, <2>1, MetIsFirst
  <2>3. b \in 1..Len(code) /\ w \in Inside(code, b)
    BY <2>1 DEF Met, FirstWaitFor
  <2>4. b # node
    BY <1>2 DEF Met
  <2>5. ~(node < b)
    <3>1. SUFFICES ASSUME node < b PROVE FALSE
      OBVIOUS
    <3>2. b \in Inside(code, node)
      BY <1>1, <1>3, <2>3, <3>1, AroundNest
    <3> QED BY <1>5, <3>2
  <2>6. ~(node <= b)
    BY <1>1, <2>3, <2>4, <2>5
  <2> QED BY <2>2, <2>6
<1>7. ASSUME NEW a \in FirstIn(code, w), ~(node <= a) PROVE w \in seenWaits
  <2>1. /\ a \in 1..Len(code) /\ w \in Inside(code, a) /\ DefAround(code, a) # 0
        /\ Notes(code, a) /\ w \in FirstWaitFor(code, a)
    BY <1>1, <1>3, AroundIsInside DEF FirstIn
  <2>2. node \in Inside(code, a)
    <3>1. a < node
      BY <1>1, <1>7, <2>1
    <3> QED BY <1>1, <1>3, <2>1, <3>1, AroundNest
  <2>3. a \in Met
    BY <1>1, <1>2, <2>1, <2>2, AroundMet
  <2> QED BY <1>3, <2>1, <2>3 DEF Seen
<1> QED BY <1>3, <1>4, <1>6, <1>7

(* At a wait_for: it was seen before exactly if it is the first of a block.*)
LEMMA SeenAtSite ==
  ASSUME Visiting, frames # <<>>, Seen(code, Met, seenWaits), IsSite(code, node)
  PROVE  node \in seenWaits <=> FirstIn(code, node) # {}
<1>1. /\ WellFormed(code) /\ Stack /\ Covered /\ node \in 1..Len(code) /\ Len(code) \in Nat
      /\ code[node].k # "end"
  BY StackFacts, SiteIsCall DEF Visiting
<1>2. node \in Inside(code, Root)
  BY <1>1, NodeInRoot
<1>3. node \notin Met
  BY <1>1, <1>2 DEF Met
<1>4. ASSUME node \in seenWaits PROVE FirstIn(code, node) # {}
  <2>1. PICK b \in Met : Notes(code, b) /\ node \in FirstWaitFor(code, b)
    BY <1>1, <1>3, <1>4 DEF Seen
  <2> QED BY <1>1, <2>1, MetIsFirst
<1>5. ASSUME NEW a \in FirstIn(code, node) PROVE node \in seenWaits
  <2>1. /\ a \in 1..Len(code) /\ node \in Inside(code, a) /\ DefAround(code, a) # 0
        /\ Notes(code, a) /\ node \in FirstWaitFor(code, a)
    BY <1>1, AroundIsInside DEF FirstIn
  <2>2. a \in Met
    BY <1>1, <1>2, <2>1, AroundMet
  <2> QED BY <1>1, <2>1, <2>2 DEF Seen
<1> QED BY <1>4, <1>5

\* What the visitor marks at its node.
Marks(w) ==
  \/ w = node /\ IsSite(code, node)
  \/ Notes(code, node) /\ w \in FirstWaitFor(code, node)

LEMMA StepNoted ==
  ASSUME Visiting, Noted, Steps, node \in Inside(code, Root),
         \/ visited' = visited
         \/ visited' = visited \cup {node} /\ code[node].k = "def" /\ frames' # <<>>,
         \A w \in 1..Len(code) : w \in seenWaits' <=> w \in seenWaits \/ Marks(w),
         \/ /\ program'.sites = program.sites
            /\ \A w \in 1..Len(code) : node \notin Recorders(code, w)
         \/ \E w \in 1..Len(code) : \E handled :
              /\ node \in Recorders(code, w) /\ program' = WithSite(program, w, handled)
              /\ \A v \in 1..Len(code) : node \in Recorders(code, v) => v = w
  PROVE  Noted'
<1>1. /\ WellFormed(code) /\ Stack /\ Covered /\ List(program.sites) /\ IsProgram(program)
      /\ Seen(code, Met, seenWaits) /\ Accounted(code, Met, program.sites)
      /\ code' = code /\ frames # <<>>
  BY DEF Visiting, Noted, Shape, IsProgram, Steps
<1>2. node \notin Met /\ Met' = Met \cup {node}
  BY <1>1, MetGrows
<1>3. Seen(code, Met \cup {node}, seenWaits')
  BY <1>1, SeenGrows DEF Marks
<1>4. Accounted(code, Met \cup {node}, program'.sites)
  <2>1. CASE /\ program'.sites = program.sites
             /\ \A w \in 1..Len(code) : node \notin Recorders(code, w)
    BY <1>1, <2>1, NoneRecorded
  <2>2. ASSUME NEW w \in 1..Len(code), NEW handled,
               node \in Recorders(code, w), program' = WithSite(program, w, handled),
               \A v \in 1..Len(code) : node \in Recorders(code, v) => v = w
        PROVE  Accounted(code, Met \cup {node}, program'.sites)
    <3> PICK site : site = [coro |-> CurrentCoro, line |-> w, handled |-> handled,
                            callee |-> WaitForCallee(code, CurrentDef, w)]
      OBVIOUS
    <3>1. program' = [program EXCEPT !.sites = Append(program.sites, site)]
      BY <2>2 DEF WithSite
    <3>2. program'.sites = Append(program.sites, site)
      BY <1>1, <3>1 DEF IsProgram, Fields
    <3>3. site.line = w /\ site.coro = code[DefAround(code, node)].name
      <4>1. Notes(code, node) \/ IsSite(code, node)
        BY <2>2, RecordersAre
      <4>2. code[node].k # "end"
        BY <4>1, SiteIsCall DEF Notes
      <4>3. DefAround(code, node) = CurrentDef
        BY <1>1, <4>2, DefOfNode
      <4> QED BY <4>3 DEF CurrentCoro
    <3> QED BY <1>1, <1>2, <2>2, <3>2, <3>3, OneRecorded
  <2> QED BY <2>1, <2>2
<1> QED BY <1>1, <1>2, <1>3, <1>4 DEF Noted

(* A step that neither marks nor records anything.                         *)
LEMMA QuietNoted ==
  ASSUME Visiting, Noted, Steps, ~Notes(code, node), ~IsSite(code, node),
         \/ visited' = visited
         \/ visited' = visited \cup {node} /\ code[node].k = "def" /\ frames' # <<>>,
         seenWaits' = seenWaits, program'.sites = program.sites
  PROVE  Noted'
<1>1. WellFormed(code) /\ Stack /\ Covered /\ code' = code
  BY DEF Visiting, Steps
<1>2. \A w \in 1..Len(code) : node \notin Recorders(code, w) /\ ~Marks(w)
  BY RecordersAre DEF Marks
<1>3. CASE node \in Inside(code, Root)
  BY <1>2, <1>3, StepNoted
<1>4. CASE node \notin Inside(code, Root)
  <2>1. Met' = Met
    BY <1>1, <1>4, MetGrows
  <2> QED BY <1>1, <2>1 DEF Noted
<1> QED BY <1>3, <1>4

LEMMA BlockNoted ==
  ASSUME Visiting, WellCalled(code), Noted, VisitWith \/ VisitTry
  PROVE  Noted'
<1>1. /\ frames # <<>> /\ Notes(code, node) /\ code' = code /\ node' = node + 1
      /\ visited' = visited /\ frames' = Append(frames, [block |-> node, lock |-> None])
      /\ VisitWith => code[node].k = "suppress"
      /\ VisitTry => code[node].k = "try"
  BY DEF VisitWith, VisitTry, At, Push, Notes
<1>2. /\ WellFormed(code) /\ Stack /\ node \in 1..Len(code) /\ IsBlock(code, node)
      /\ Seen(code, Met, seenWaits) /\ code[node].k # "end" /\ IsProgram(program)
  BY <1>1, StackFacts DEF Visiting, Notes, IsBlock, Blocks, Noted, Shape, IsProgram
<1>3. Steps /\ node \in Inside(code, Root)
  BY <1>1, <1>2, PushSteps, NodeInRoot
<1> PICK first : first = FirstWaitFor(code, node)
  OBVIOUS
<1>4. ~IsSite(code, node)
  BY <1>1, SiteIsCall DEF Notes
<1>5. seenWaits' = seenWaits \cup first
  BY DEF VisitWith, VisitTry
<1>6. \A w \in 1..Len(code) : w \in seenWaits' <=> w \in seenWaits \/ Marks(w)
  BY <1>1, <1>4, <1>5 DEF Marks
<1>7. \A v \in 1..Len(code) : node \in Recorders(code, v) => v \in first
  BY <1>4, RecordersAre
<1>8. CASE first = {}
  <2>1. program' = program
    BY <1>8 DEF VisitWith, VisitTry
  <2> QED BY <1>1, <1>3, <1>6, <1>7, <1>8, <2>1, StepNoted
<1>9. CASE first # {}
  <2>1. PICK w : w \in first
    BY <1>9
  <2>2. first = {w}
    BY <1>2, <2>1, FirstIsOne
  <2>3. /\ w \in 1..Len(code) /\ node \in FirstIn(code, w)
        /\ w \in seenWaits <=> \E a \in FirstIn(code, w) : ~(node <= a)
    BY <1>1, <1>2, <2>1, SeenAtBlock
  <2>4. \A v \in 1..Len(code) : node \in Recorders(code, v) => v = w
    BY <1>7, <2>2
  <2>5. node \in Recorders(code, w) <=> code[node].k = "try" \/ w \notin seenWaits
    <3>1. node \in Recorders(code, w)
            <=> code[node].k = "try" \/ \A a \in FirstIn(code, w) : node <= a
      BY <1>4, <2>3, RecordersAre
    <3> QED BY <2>3, <3>1
  <2>6. CASE VisitTry
    <3>1. program' = IF first = {} THEN program
                     ELSE WithSite(program, CHOOSE i \in first : TRUE,
                                   TryHasCleanupHandler(code, node))
      BY <2>6 DEF VisitTry
    <3>2. \E handled : program' = WithSite(program, w, handled)
      BY <2>2, <3>1
    <3>3. node \in Recorders(code, w)
      BY <1>1, <2>5, <2>6
    <3> QED BY <1>1, <1>3, <1>6, <2>3, <2>4, <3>2, <3>3, StepNoted
  <2>7. CASE VisitWith /\ w \notin seenWaits
    <3>1. program' = IF first \ seenWaits = {} THEN program
                     ELSE WithSite(program, CHOOSE i \in first \ seenWaits : TRUE, TRUE)
      BY <2>7 DEF VisitWith
    <3>2. first \ seenWaits = {w}
      BY <2>2, <2>7
    <3>3. \E handled : program' = WithSite(program, w, handled)
      BY <3>1, <3>2
    <3>4. node \in Recorders(code, w)
      BY <2>5, <2>7
    <3> QED BY <1>1, <1>3, <1>6, <2>3, <2>4, <3>3, <3>4, StepNoted
  <2>8. CASE VisitWith /\ w \in seenWaits
    <3>1. first \ seenWaits = {}
      BY <2>2, <2>8
    <3>2. program' = program
      BY <2>8, <3>1 DEF VisitWith
    <3>3. \A v \in 1..Len(code) : node \notin Recorders(code, v)
      BY <1>1, <2>4, <2>5, <2>8
    <3> QED BY <1>1, <1>3, <1>6, <3>2, <3>3, StepNoted
  <2> QED BY <2>6, <2>7, <2>8
<1> QED BY <1>8, <1>9

LEMMA CallNoted ==
  ASSUME Visiting, Noted, HandleCallExpr
  PROVE  Noted'
<1>1. /\ frames # <<>> /\ code[node].k = "call" /\ code' = code /\ node' = node + 1
      /\ visited' = visited /\ frames' = frames /\ ~Notes(code, node)
  BY DEF HandleCallExpr, At, Notes
<1>2. /\ WellFormed(code) /\ Stack /\ node \in 1..Len(code) /\ ~IsBlock(code, node)
      /\ Seen(code, Met, seenWaits) /\ code[node].k # "end" /\ IsProgram(program)
  BY <1>1, StackFacts DEF Visiting, IsBlock, Blocks, Noted, Shape, IsProgram
<1>3. Steps /\ node \in Inside(code, Root)
  BY <1>1, <1>2, StaySteps, NodeInRoot
<1>4. CASE ~IsSite(code, node)
  <2>1. program' = AfterCall(program) /\ seenWaits' = seenWaits
    BY <1>4 DEF HandleCallExpr, IsSite
  <2>2. \/ program' = program
        \/ \E obj : program' = WithSync(program, obj)
        \/ \E obj, kind, lock, note : program' = Emit(WithSync(program, obj), kind, lock, note)
        \/ \E kind, lock, note : program' = Emit(program, kind, lock, note)
    BY <2>1 DEF AfterCall
  <2>3. program'.sites = program.sites
    BY <1>2, <2>2, SitesKept
  <2> QED BY <1>1, <1>3, <1>4, <2>1, <2>3, QuietNoted
<1>5. CASE IsSite(code, node)
  <2>1. /\ seenWaits' = seenWaits \cup {node}
        /\ program' = IF node \in seenWaits THEN program ELSE WithSite(program, node, FALSE)
    BY <1>5 DEF HandleCallExpr, IsSite
  <2>2. \A w \in 1..Len(code) : w \in seenWaits' <=> w \in seenWaits \/ Marks(w)
    BY <1>1, <1>5, <2>1 DEF Marks
  <2>3. \A v \in 1..Len(code) : node \in Recorders(code, v) => v = node
    BY <1>1, RecordersAre
  <2>4. node \in Recorders(code, node) <=> node \notin seenWaits
    <3>1. DefAround(code, node) # 0
      <4>1. DefAround(code, node) = CurrentDef /\ CurrentDef \in Funcs(code)
        BY <1>1, <1>2, DefOfNode, CurrentIsDef
      <4>2. CurrentDef \in 1..Len(code)
        BY <1>2, <4>1, TreeFacts
      <4> QED BY <4>1, <4>2
    <3>2. node \in seenWaits <=> FirstIn(code, node) # {}
      BY <1>1, <1>2, <1>5, SeenAtSite
    <3>3. node \notin FirstIn(code, node)
      BY <1>1 DEF FirstIn
    <3>4. node \in Recorders(code, node) <=> FirstIn(code, node) = {}
      BY <1>5, <3>1, <3>3, RecordersAre
    <3> QED BY <3>2, <3>4
  <2> QED BY <1>1, <1>2, <1>3, <2>1, <2>2, <2>3, <2>4, StepNoted
<1> QED BY <1>4, <1>5

LEMMA VisitNoted ==
  ASSUME Visiting, WellCalled(code), Noted, Visit
  PROVE  Noted'
<1>1. IsProgram(program) /\ WellFormed(code) /\ Stack
  BY DEF Visiting, Shape, IsProgram
<1>2. CASE VisitNextFunction
  <2>1. Met' = Met /\ code' = code /\ seenWaits' = seenWaits /\ program' = program
    BY <1>2, MetStays DEF VisitNextFunction
  <2> QED BY <2>1 DEF Noted
<1>3. CASE VisitFunctionDef
  <2>1. /\ frames # <<>> /\ code[node].k = "def" /\ code' = code /\ node' = node + 1
        /\ frames' = Append(frames, [block |-> node, lock |-> None])
        /\ visited' = visited \cup {node} /\ program' = program /\ seenWaits' = seenWaits
    BY <1>3 DEF VisitFunctionDef, At, EnterFunction
  <2>2. IsBlock(code, node) /\ ~Notes(code, node) /\ ~IsSite(code, node)
    BY <2>1, SiteIsCall DEF IsBlock, Blocks, Notes
  <2>3. Steps /\ frames' # <<>>
    BY <1>1, <2>1, <2>2, PushSteps, PushStack
  <2> QED BY <2>1, <2>2, <2>3, QuietNoted
<1>4. CASE VisitAsyncWith
  <2>1. /\ frames # <<>> /\ code[node].k = "async_with" /\ code' = code /\ node' = node + 1
        /\ \E lock : frames' = Append(frames, [block |-> node, lock |-> lock])
        /\ visited' = visited /\ seenWaits' = seenWaits
        /\ \E obj, lock : program' = IF lock = None THEN WithSync(program, obj)
                                     ELSE Emit(WithSync(program, obj), "ACQUIRE", lock, None)
    BY <1>4 DEF VisitAsyncWith, At, Push
  <2>2. IsBlock(code, node) /\ ~Notes(code, node) /\ ~IsSite(code, node)
    BY <2>1, SiteIsCall DEF IsBlock, Blocks, Notes
  <2>3. Steps
    BY <1>1, <2>1, <2>2, PushSteps
  <2>4. program'.sites = program.sites
    BY <1>1, <2>1, SitesKept
  <2> QED BY <2>1, <2>2, <2>3, <2>4, QuietNoted
<1>5. CASE LeaveBlock
  <2>1. /\ frames # <<>> /\ code[node].k = "end" /\ code' = code /\ node' = node + 1
        /\ frames' = Front(frames) /\ visited' = visited /\ seenWaits' = seenWaits
        /\ \E lock : program' = IF lock = None THEN program
                                ELSE Emit(program, "RELEASE", lock, None)
    BY <1>5 DEF LeaveBlock, At
  <2>2. ~Notes(code, node) /\ ~IsSite(code, node)
    BY <2>1, SiteIsCall DEF Notes
  <2>3. Steps
    BY <1>1, <2>1, PopSteps
  <2>4. program'.sites = program.sites
    BY <1>1, <2>1, SitesKept
  <2> QED BY <2>1, <2>2, <2>3, <2>4, QuietNoted
<1>6. CASE VisitOther
  <2>1. /\ frames # <<>> /\ code' = code
        /\ code[node].k \in {"class", "for", "while", "if", "with", "except", "finally"}
        /\ node' = node + 1
        /\ code[node].k = "finally" => frames' = frames
        /\ code[node].k # "finally" => frames' = Append(frames, [block |-> node, lock |-> None])
        /\ visited' = visited /\ program' = program /\ seenWaits' = seenWaits
    BY <1>6 DEF VisitOther, Push
  <2>2. ~Notes(code, node) /\ ~IsSite(code, node) /\ code[node].k # "end"
    BY <2>1, SiteIsCall DEF Notes
  <2>3. IsBlock(code, node) <=> code[node].k # "finally"
    BY <2>1 DEF IsBlock, Blocks
  <2>4. Steps
    BY <1>1, <2>1, <2>2, <2>3, PushSteps, StaySteps
  <2> QED BY <2>1, <2>2, <2>4, QuietNoted
<1> QED
  BY <1>2, <1>3, <1>4, <1>5, <1>6, BlockNoted, CallNoted DEF Visit

(***************************************************************************)
(* Its rows and its files.                                                 *)
(***************************************************************************)
LEMMA JoinIndex ==
  ASSUME NEW s, NEW t, List(s), List(t)
  PROVE  /\ DOMAIN (s \o t) = 1..Len(s) + Len(t)
         /\ \A j \in 1..Len(s) : (s \o t)[j] = s[j]
         /\ \A k \in 1..Len(t) : (s \o t)[Len(s) + k] = t[k]
<1> DEFINE S == ToSet(s) \cup ToSet(t)
<1>1. s \in Seq(S) /\ t \in Seq(S)
  BY DEF List
<1> HIDE DEF S
<1>2. Len(s) \in Nat /\ Len(t) \in Nat
  BY <1>1
<1>3. DOMAIN (s \o t) = 1..Len(s) + Len(t)
  BY <1>1
<1>4. \A j \in 1..Len(s) : (s \o t)[j] = s[j]
  BY <1>1
<1>5. ASSUME NEW k \in 1..Len(t) PROVE (s \o t)[Len(s) + k] = t[k]
  BY <1>1, <1>2
<1> QED BY <1>3, <1>4, <1>5

LEMMA FunctionList ==
  ASSUME NEW n \in Nat, NEW s, s = [k \in 1..n |-> s[k]]
  PROVE  List(s) /\ Len(s) = n
<1> DEFINE S == {s[k] : k \in 1..n}
<1>1. s \in [1..n -> S]
  OBVIOUS
<1> HIDE DEF S
<1>2. s \in Seq(S) /\ Len(s) = n
  BY <1>1
<1> QED BY <1>2, IsList

(* Where which row is.                                                     *)
LEMMA RowsIndexed ==
  ASSUME Visiting
  PROVE  LET n == Cardinality(program.sync)
             m == Len(program.sites)
         IN  /\ n \in Nat /\ m \in Nat /\ List(Rows) /\ Len(Rows) = n + m
             /\ \A k \in 1..n : Rows[k] = ObjectRow(SetToSeq(program.sync)[k])
             /\ \A k \in 1..m : Rows[n + k] = WaitForRow(program.sites[k])
<1> PICK n, m : n = Cardinality(program.sync) /\ m = Len(program.sites)
  OBVIOUS
<1> DEFINE s == [k \in 1..n |-> ObjectRow(SetToSeq(program.sync)[k])]
           t == [k \in 1..m |-> WaitForRow(program.sites[k])]
<1>1. n \in Nat
  <2>1. WellFormed(code) /\ program.sync \in SUBSET DOMAIN Symbols(code)
    BY DEF Visiting, Shape
  <2>2. IsFiniteSet(program.sync)
    BY <2>1, SymbolsFinite, FS_Subset
  <2> QED BY <2>2, FS_CardinalityType
<1>2. m \in Nat /\ DOMAIN program.sites = 1..m
  BY ListFacts DEF Visiting, Shape
<1>3. Rows = s \o t
  BY <1>2 DEF Rows
<1>4. /\ s = [k \in 1..n |-> s[k]] /\ t = [k \in 1..m |-> t[k]]
      /\ \A k \in 1..n : s[k] = ObjectRow(SetToSeq(program.sync)[k])
      /\ \A k \in 1..m : t[k] = WaitForRow(program.sites[k])
  OBVIOUS
<1> HIDE DEF s, t
<1>5. List(s) /\ Len(s) = n /\ List(t) /\ Len(t) = m
  BY <1>1, <1>2, <1>4, FunctionList
<1>6. List(s \o t) /\ Len(s \o t) = n + m
  BY <1>5, ListJoin
<1>7. /\ \A k \in 1..n : (s \o t)[k] = s[k]
      /\ \A k \in 1..m : (s \o t)[n + k] = t[k]
  <2>1. /\ \A k \in 1..Len(s) : (s \o t)[k] = s[k]
        /\ \A k \in 1..Len(t) : (s \o t)[Len(s) + k] = t[k]
    BY <1>5, JoinIndex
  <2> QED BY <1>5, <2>1
<1> QED BY <1>1, <1>2, <1>3, <1>4, <1>6, <1>7

\* The rows of a wait_for.
SitesAt(sites, w) == {j \in DOMAIN sites : sites[j].line = w}

LEMMA SiteCount ==
  ASSUME NEW c, Len(c) \in Nat, NEW sites, List(sites), Accounted(c, 1..Len(c), sites),
         NEW w \in 1..Len(c)
  PROVE  Cardinality(SitesAt(sites, w)) = Cardinality(Recorders(c, w))
<1> DEFINE S == {j \in DOMAIN sites : sites[j].line = w}
<1>1. PICK by \in [DOMAIN sites -> 1..Len(c)] :
        /\ \A j, k \in DOMAIN sites : by[j] = by[k] => j = k
        /\ \A j \in DOMAIN sites : by[j] \in Recorders(c, sites[j].line)
        /\ \A r \in Recorders(c, w) \cap 1..Len(c) :
             \E j \in DOMAIN sites : by[j] = r /\ sites[j].line = w
  BY DEF Accounted
<1> DEFINE f == [j \in S |-> by[j]]
<1>2. IsFiniteSet(S)
  BY FiniteDomain
<1>3. Recorders(c, w) \subseteq 1..Len(c)
  BY RecordersAre DEF FirstIn, Around
<1>4. f \in [S -> Recorders(c, w)] /\ \A x, y \in S : f[x] = f[y] => x = y
  BY <1>1
<1>5. \A r \in Recorders(c, w) : \E j \in S : f[j] = r
  BY <1>1, <1>3
<1> HIDE DEF f, S
<1>6. Cardinality(Recorders(c, w)) = Cardinality(S)
  BY <1>2, <1>4, <1>5, Renamed
<1> QED BY <1>6 DEF S, SitesAt

\* The coroutines that a wait_for is recorded in, with it.
Recorded(c) ==
  UNION {{<<c[DefAround(c, b)].name, w>> : b \in Recorders(c, w)} :
           w \in {v \in DOMAIN c : Recorders(c, v) # {}}}

LEMMA RecordedAre ==
  ASSUME NEW c, WellFormed(c), NEW sites, List(sites), Accounted(c, 1..Len(c), sites)
  PROVE  Recorded(c) = {<<sites[j].coro, sites[j].line>> : j \in DOMAIN sites}
<1>1. PICK by \in [DOMAIN sites -> 1..Len(c)] :
        /\ \A j \in DOMAIN sites :
             /\ sites[j].line \in 1..Len(c) /\ by[j] \in Recorders(c, sites[j].line)
             /\ sites[j].coro = c[DefAround(c, by[j])].name
        /\ \A w \in 1..Len(c) : \A r \in Recorders(c, w) \cap 1..Len(c) :
             \E j \in DOMAIN sites : by[j] = r /\ sites[j].line = w
  BY DEF Accounted
<1>2. DOMAIN c = 1..Len(c) /\ Len(c) \in Nat
  BY TreeFacts
<1>3. ASSUME NEW j \in DOMAIN sites PROVE <<sites[j].coro, sites[j].line>> \in Recorded(c)
  <2>1. /\ sites[j].line \in DOMAIN c /\ by[j] \in Recorders(c, sites[j].line)
        /\ sites[j].coro = c[DefAround(c, by[j])].name
    BY <1>1, <1>2
  <2> QED BY <2>1 DEF Recorded
<1>4. ASSUME NEW x \in Recorded(c)
      PROVE  \E j \in DOMAIN sites : x = <<sites[j].coro, sites[j].line>>
  <2>1. PICK w \in DOMAIN c : \E b \in Recorders(c, w) : x = <<c[DefAround(c, b)].name, w>>
    BY <1>4 DEF Recorded
  <2> PICK b \in Recorders(c, w) : x = <<c[DefAround(c, b)].name, w>>
    BY <2>1
  <2>2. b \in 1..Len(c) /\ w \in 1..Len(c)
    BY <1>2, RecordersAre DEF FirstIn, Around
  <2>3. PICK j \in DOMAIN sites : by[j] = b /\ sites[j].line = w
    BY <1>1, <2>2
  <2> QED BY <1>1, <2>3
<1> QED BY <1>3, <1>4

(* Every row is of a coroutine and of a statement with a wait_for in it.   *)
Waits(c) == FuncNames(c) \X {i \in DOMAIN c : HasWaitFor(c, i)}

LEMMA SitesAreWaits ==
  ASSUME NEW c, WellFormed(c), NEW sites, List(sites), Accounted(c, 1..Len(c), sites),
         NEW j \in DOMAIN sites
  PROVE  <<sites[j].coro, sites[j].line>> \in Waits(c)
<1> PICK coro, w : coro = sites[j].coro /\ w = sites[j].line
  OBVIOUS
<1>1. PICK r \in 1..Len(c) : /\ w \in 1..Len(c) /\ r \in Recorders(c, w)
                             /\ coro = c[DefAround(c, r)].name
  BY DEF Accounted
<1>2. DefAround(c, r) # 0 /\ (w \in FirstWaitFor(c, r) \/ IsSite(c, w))
  BY <1>1, RecordersAre
<1>3. Len(c) \in Nat /\ DOMAIN c = 1..Len(c) /\ Funcs(c) \subseteq 1..Len(c)
  BY TreeFacts
<1>4. coro \in FuncNames(c)
  <2>1. PICK d \in Funcs(c) : r \in Inside(c, d)
    BY <1>1, <1>2, HasDef
  <2>2. d \in Around(c, r)
    BY <1>1, <1>3, <2>1, TreeFacts, InsideIsAround
  <2>3. DefAround(c, r) \in Funcs(c)
    BY <1>1, <2>1, <2>2, InnermostDef
  <2> QED BY <1>1, <2>3 DEF FuncNames
<1>5. HasWaitFor(c, w)
  <2>1. w \in FirstWaitFor(c, r) => HasWaitFor(c, w)
    BY DEF FirstWaitFor
  <2>2. IsSite(c, w) => HasWaitFor(c, w)
    BY DEF IsSite, IsWaitFor, HasWaitFor
  <2> QED BY <1>2, <2>1, <2>2
<1> QED BY <1>1, <1>3, <1>4, <1>5 DEF Waits

LEMMA ExportNames ==
  ASSUME NEW row
  PROVE  /\ row.type = "wait_for" =>
              ExportName(row) = <<SafeComponent(row.path), WaitForFile(row.name[1], row.line)>>
         /\ row.type # "wait_for" =>
              ExportName(row) = <<SafeComponent(row.path), ObjectFile(row.name)>>
BY Zenon DEF ExportName

(* What a row says besides verdicts, and what its file is called.          *)
LEMMA RowParts ==
  ASSUME Visiting
  PROVE  /\ \A obj \in program.sync :
              /\ ObjectRow(obj).path = CurrentPath /\ ObjectRow(obj).name = obj
              /\ ObjectRow(obj).type # "wait_for"
              /\ ExportName(ObjectRow(obj)) = <<SafeComponent(CurrentPath), ObjectFile(obj)>>
         /\ \A site :
              /\ WaitForRow(site).path = CurrentPath /\ WaitForRow(site).line = site.line
              /\ WaitForRow(site).type = "wait_for" /\ WaitForRow(site).name = <<site.coro>>
              /\ ExportName(WaitForRow(site))
                   = <<SafeComponent(CurrentPath), WaitForFile(site.coro, site.line)>>
<1>1. ASSUME NEW obj \in program.sync
      PROVE  /\ ObjectRow(obj).path = CurrentPath /\ ObjectRow(obj).name = obj
             /\ ObjectRow(obj).type # "wait_for"
             /\ ExportName(ObjectRow(obj)) = <<SafeComponent(CurrentPath), ObjectFile(obj)>>
  <2>1. KindOf(obj) # "wait_for"
    <3>1. KindOf(obj) \in {"LOCK", "QUEUE", "EVENT"}
      BY KindIs DEF Visiting, Shape, KindOf
    <3> QED BY <3>1
  <2>2. /\ ObjectRow(obj).path = CurrentPath /\ ObjectRow(obj).name = obj
        /\ ObjectRow(obj).type # "wait_for"
    BY <2>1 DEF ObjectRow
  <2>3. ExportName(ObjectRow(obj)) = <<SafeComponent(CurrentPath), ObjectFile(obj)>>
    <3>1. ExportName(ObjectRow(obj))
            = <<SafeComponent(ObjectRow(obj).path), ObjectFile(ObjectRow(obj).name)>>
      BY <2>2, ExportNames
    <3> QED BY <2>2, <3>1, Zenon
  <2> QED BY <2>2, <2>3
<1>2. ASSUME NEW site
      PROVE  /\ WaitForRow(site).path = CurrentPath /\ WaitForRow(site).line = site.line
             /\ WaitForRow(site).type = "wait_for" /\ WaitForRow(site).name = <<site.coro>>
             /\ ExportName(WaitForRow(site))
                  = <<SafeComponent(CurrentPath), WaitForFile(site.coro, site.line)>>
  <2> PICK row : row = WaitForRow(site)
    OBVIOUS
  <2>1. /\ row.path = CurrentPath /\ row.line = site.line
        /\ row.type = "wait_for" /\ row.name = <<site.coro>>
    BY DEF WaitForRow
  <2>2. row.name[1] = site.coro
    BY <2>1
  <2>3. ExportName(row) = <<SafeComponent(row.path), WaitForFile(row.name[1], row.line)>>
    BY <2>1, ExportNames
  <2>4. ExportName(row) = <<SafeComponent(CurrentPath), WaitForFile(site.coro, site.line)>>
    BY <2>1, <2>2, <2>3, Zenon
  <2> QED BY <2>1, <2>4
<1> QED BY <1>1, <1>2

LEMMA SyncFinite ==
  ASSUME Visiting
  PROVE  IsFiniteSet(program.sync)
<1>1. WellFormed(code) /\ program.sync \in SUBSET DOMAIN Symbols(code)
  BY DEF Visiting, Shape
<1> QED BY <1>1, SymbolsFinite, FS_Subset

(* The members of a list in two parts.                                     *)
Parts(s, n, m) == {s[k] : k \in 1..n} \cup {s[n + k] : k \in 1..m}

LEMMA TwoParts ==
  ASSUME NEW s, List(s), NEW n \in Nat, NEW m \in Nat, Len(s) = n + m
  PROVE  ToSet(s) = Parts(s, n, m)
<1>1. /\ \A x \in ToSet(s) : \E i \in 1..n + m : x = s[i]
      /\ \A i \in 1..n + m : s[i] \in ToSet(s)
  BY ListFacts
<1>2. ASSUME NEW i \in 1..n + m PROVE i \in 1..n \/ \E k \in 1..m : i = n + k
  <2>1. CASE i <= n
    BY <2>1
  <2>2. CASE i > n
    <3>1. i - n \in 1..m /\ i = n + (i - n)
      BY <2>2
    <3> QED BY <3>1
  <2> QED BY <2>1, <2>2
<1>3. (\A k \in 1..n : k \in 1..n + m) /\ (\A k \in 1..m : n + k \in 1..n + m)
  OBVIOUS
<1>4. ASSUME NEW x \in ToSet(s)
      PROVE  x \in {s[k] : k \in 1..n} \cup {s[n + k] : k \in 1..m}
  <2>1. PICK i \in 1..n + m : x = s[i]
    BY <1>1
  <2> QED BY <1>2, <2>1
<1>5. ASSUME NEW x \in {s[k] : k \in 1..n} \cup {s[n + k] : k \in 1..m}
      PROVE  x \in ToSet(s)
  BY <1>1, <1>3, <1>5
<1> QED BY <1>4, <1>5 DEF Parts

\* What is exported for the objects, and for the wait_fors in the coroutines that
\* they are recorded in.
FilesOf(safe, sync, R) ==
  {<<safe, ObjectFile(obj)>> : obj \in sync} \cup {<<safe, WaitForFile(x[1], x[2])>> : x \in R}

LEMMA ExportedFiles ==
  ASSUME Visiting, Accounted(code, 1..Len(code), program.sites)
  PROVE  LET files == {ExportName(row) : row \in ToSet(Rows)}
             safe == SafeComponent(CurrentPath)
         IN  /\ \A file \in files : file[1] = safe
             /\ files = FilesOf(safe, program.sync, Recorded(code))
<1> DEFINE safe == SafeComponent(CurrentPath)
           objs == SetToSeq(program.sync)
           n == Cardinality(program.sync)
           m == Len(program.sites)
           files == {ExportName(row) : row \in ToSet(Rows)}
           site(k) == program.sites[k]
<1>0. WellFormed(code) /\ List(program.sites)
  BY DEF Visiting, Shape
<1>1. /\ n \in Nat /\ m \in Nat /\ List(Rows) /\ Len(Rows) = n + m
      /\ \A k \in 1..n : Rows[k] = ObjectRow(objs[k])
      /\ \A k \in 1..m : Rows[n + k] = WaitForRow(site(k))
  BY RowsIndexed
<1>2. /\ \A j \in 1..n : objs[j] \in program.sync
      /\ \A x \in program.sync : \E j \in 1..n : objs[j] = x
  BY SyncFinite, ListedOnce
<1>3. Recorded(code) = {<<site(j).coro, site(j).line>> : j \in 1..m}
  <2>1. DOMAIN program.sites = 1..m
    BY <1>0, ListFacts
  <2>2. Recorded(code) = {<<site(j).coro, site(j).line>> : j \in DOMAIN program.sites}
    BY <1>0, RecordedAre
  <2> QED BY <2>1, <2>2
<1>4. /\ \A obj \in program.sync : ExportName(ObjectRow(obj)) = <<safe, ObjectFile(obj)>>
      /\ \A s : ExportName(WaitForRow(s)) = <<safe, WaitForFile(s.coro, s.line)>>
  BY RowParts
<1>5. ToSet(Rows) = {Rows[k] : k \in 1..n} \cup {Rows[n + k] : k \in 1..m}
  <2>1. n \in Nat /\ m \in Nat /\ List(Rows) /\ Len(Rows) = n + m
    BY <1>1
  <2> HIDE DEF n, m
  <2>2. ToSet(Rows) = Parts(Rows, n, m)
    BY <2>1, TwoParts
  <2> QED BY <2>2 DEF Parts
<1> HIDE DEF n, m, objs, safe, site
<1>6. files = {<<safe, ObjectFile(objs[k])>> : k \in 1..n}
                \cup {<<safe, WaitForFile(site(k).coro, site(k).line)>> : k \in 1..m}
  <2>1. files = {ExportName(Rows[k]) : k \in 1..n} \cup {ExportName(Rows[n + k]) : k \in 1..m}
    BY <1>5
  <2>2. \A k \in 1..n : ExportName(Rows[k]) = <<safe, ObjectFile(objs[k])>>
    BY <1>1, <1>2, <1>4
  <2>3. \A k \in 1..m :
          ExportName(Rows[n + k]) = <<safe, WaitForFile(site(k).coro, site(k).line)>>
    BY <1>1, <1>4
  <2> QED BY <2>1, <2>2, <2>3
<1>7. {<<safe, ObjectFile(objs[k])>> : k \in 1..n}
        = {<<safe, ObjectFile(obj)>> : obj \in program.sync}
  BY <1>2
<1>8. {<<safe, WaitForFile(site(k).coro, site(k).line)>> : k \in 1..m}
        = {<<safe, WaitForFile(x[1], x[2])>> : x \in Recorded(code)}
  <2> DEFINE x(k) == <<site(k).coro, site(k).line>>
  <2>1. \A k \in 1..m : x(k)[1] = site(k).coro /\ x(k)[2] = site(k).line
    OBVIOUS
  <2>2. Recorded(code) = {x(k) : k \in 1..m}
    BY <1>3
  <2> HIDE DEF x
  <2>3. {<<safe, WaitForFile(y[1], y[2])>> : y \in Recorded(code)}
          = {<<safe, WaitForFile(x(k)[1], x(k)[2])>> : k \in 1..m}
    BY <2>2
  <2> QED BY <2>1, <2>3
<1>9. files = FilesOf(safe, program.sync, Recorded(code))
  BY <1>6, <1>7, <1>8 DEF FilesOf
<1>10. \A e \in FilesOf(safe, program.sync, Recorded(code)) : e[1] = safe
  BY DEF FilesOf
<1> HIDE DEF files
<1>11. \A e \in files : e[1] = safe
  BY <1>9, <1>10
<1> QED BY <1>9, <1>11 DEF files, safe

(* The rows that a run adds to those of the files before, and which they   *)
(* are.                                                                    *)
LEMMA RowsAdded ==
  ASSUME Types, Visiting, done < Len(corpus), NEW rows, rows = csv \o Rows
  PROVE  LET l == Len(csv)
             n == Cardinality(program.sync)
             m == Len(program.sites)
             objs == SetToSeq(program.sync)
         IN  /\ l \in Nat /\ n \in Nat /\ m \in Nat
             /\ DOMAIN rows = 1..l + n + m
             /\ \A j \in 1..l : rows[j].path # CurrentPath
             /\ \A k \in 1..n : /\ rows[l + k].path = CurrentPath
                                /\ rows[l + k].type # "wait_for" /\ rows[l + k].name = objs[k]
             /\ \A k \in 1..m : /\ rows[l + n + k].path = CurrentPath
                                /\ rows[l + n + k].type = "wait_for"
                                /\ rows[l + n + k].line = program.sites[k].line
                                /\ rows[l + n + k].name = <<program.sites[k].coro>>
<1> DEFINE l == Len(csv)
           n == Cardinality(program.sync)
           m == Len(program.sites)
           objs == SetToSeq(program.sync)
<1>1. /\ n \in Nat /\ m \in Nat /\ List(Rows) /\ Len(Rows) = n + m
      /\ \A k \in 1..n : Rows[k] = ObjectRow(objs[k])
      /\ \A k \in 1..m : Rows[n + k] = WaitForRow(program.sites[k])
  BY RowsIndexed
<1>2. \A k \in 1..n : objs[k] \in program.sync
  BY SyncFinite, ListedOnce
<1>3. List(csv) /\ l \in Nat /\ \A j \in 1..l : csv[j] \in ToSet(csv)
  BY ListFacts DEF Types
<1>4. \A j \in 1..l : csv[j].path # CurrentPath
  BY <1>3, OlderRows DEF CurrentPath
<1>5. /\ DOMAIN rows = 1..l + Len(Rows)
      /\ \A j \in 1..l : rows[j] = csv[j]
      /\ \A k \in 1..Len(Rows) : rows[l + k] = Rows[k]
  BY <1>1, <1>3, JoinIndex
<1>6. /\ \A obj \in program.sync :
           /\ ObjectRow(obj).path = CurrentPath /\ ObjectRow(obj).name = obj
           /\ ObjectRow(obj).type # "wait_for"
      /\ \A site : /\ WaitForRow(site).path = CurrentPath /\ WaitForRow(site).line = site.line
                   /\ WaitForRow(site).type = "wait_for" /\ WaitForRow(site).name = <<site.coro>>
  BY RowParts
<1> HIDE DEF l, n, m, objs
<1>7. ASSUME NEW k \in 1..n
      PROVE  /\ rows[l + k].path = CurrentPath
             /\ rows[l + k].type # "wait_for" /\ rows[l + k].name = objs[k]
  <2>1. k \in 1..Len(Rows)
    BY <1>1
  <2>2. rows[l + k] = ObjectRow(objs[k])
    BY <1>1, <1>5, <2>1
  <2> QED BY <1>2, <1>6, <2>2
<1>8. ASSUME NEW k \in 1..m
      PROVE  /\ rows[l + n + k].path = CurrentPath
             /\ rows[l + n + k].type = "wait_for"
             /\ rows[l + n + k].line = program.sites[k].line
             /\ rows[l + n + k].name = <<program.sites[k].coro>>
  <2>1. n + k \in 1..Len(Rows) /\ l + n + k = l + (n + k)
    BY <1>1, <1>3
  <2>2. rows[l + n + k] = WaitForRow(program.sites[k])
    BY <1>1, <1>5, <2>1
  <2> QED BY <1>6, <2>2
<1>9. DOMAIN rows = 1..l + n + m
  BY <1>1, <1>3, <1>5
<1>10. \A j \in 1..l : rows[j].path # CurrentPath
  BY <1>4, <1>5
<1> QED BY <1>1, <1>3, <1>7, <1>8, <1>9, <1>10 DEF l, n, m, objs

\* Of a file's rows there is one for each object, and for each wait_for as many as
\* record it.
RowsFit(c, sync, rows, path) ==
  LET last == {j \in DOMAIN rows : rows[j].path = path}
  IN  /\ \A j \in last : \/ /\ rows[j].type = "wait_for"
                            /\ Recorders(c, rows[j].line) # {}
                            /\ rows[j].name = <<rows[j].name[1]>>
                            /\ <<rows[j].name[1], rows[j].line>> \in Waits(c)
                         \/ rows[j].type # "wait_for" /\ rows[j].name \in sync
      /\ \A obj \in sync :
           Cardinality({j \in last : rows[j].type # "wait_for" /\ rows[j].name = obj}) = 1
      /\ \A w \in DOMAIN c :
           Cardinality({j \in last : rows[j].type = "wait_for" /\ rows[j].line = w})
             = Cardinality(Recorders(c, w))

LEMMA RowsCountUp ==
  ASSUME Types, Visiting, done < Len(corpus), NEW rows, rows = csv \o Rows,
         Accounted(code, 1..Len(code), program.sites)
  PROVE  RowsFit(code, program.sync, rows, CurrentPath)
<1> DEFINE l == Len(csv)
           n == Cardinality(program.sync)
           m == Len(program.sites)
           objs == SetToSeq(program.sync)
           last == {j \in DOMAIN rows : rows[j].path = CurrentPath}
<1>0. /\ WellFormed(code) /\ List(program.sites) /\ Len(code) \in Nat /\ DOMAIN code = 1..Len(code)
      /\ DOMAIN program.sites = 1..m
  <2>1. WellFormed(code) /\ List(program.sites)
    BY DEF Visiting, Shape
  <2> QED BY <2>1, TreeFacts, ListFacts
<1>1. /\ l \in Nat /\ n \in Nat /\ m \in Nat
      /\ DOMAIN rows = 1..l + n + m
      /\ \A j \in 1..l : rows[j].path # CurrentPath
      /\ \A k \in 1..n : /\ rows[l + k].path = CurrentPath
                         /\ rows[l + k].type # "wait_for" /\ rows[l + k].name = objs[k]
      /\ \A k \in 1..m : /\ rows[l + n + k].path = CurrentPath
                         /\ rows[l + n + k].type = "wait_for"
                         /\ rows[l + n + k].line = program.sites[k].line
                         /\ rows[l + n + k].name = <<program.sites[k].coro>>
  BY RowsAdded
<1>2. /\ \A j \in 1..n : objs[j] \in program.sync
      /\ \A j, k \in 1..n : objs[j] = objs[k] => j = k
      /\ \A x \in program.sync : \E j \in 1..n : objs[j] = x
  BY SyncFinite, ListedOnce
<1> HIDE DEF l, n, m, objs
<1>3. ASSUME NEW j \in last
      PROVE  (\E k \in 1..n : j = l + k) \/ \E k \in 1..m : j = l + n + k
  <2>1. j \in 1..l + n + m /\ j \notin 1..l
    BY <1>1
  <2>2. CASE j <= l + n
    <3>1. j - l \in 1..n /\ j = l + (j - l)
      BY <1>1, <2>1, <2>2
    <3> QED BY <3>1
  <2>3. CASE j > l + n
    <3>1. j - (l + n) \in 1..m /\ j = l + n + (j - (l + n))
      BY <1>1, <2>1, <2>3
    <3> QED BY <3>1
  <2> QED BY <1>1, <2>1, <2>2, <2>3
<1>4. /\ \A k \in 1..n : l + k \in last
      /\ \A k \in 1..m : l + n + k \in last
  <2>1. /\ \A k \in 1..n : l + k \in 1..l + n + m
        /\ \A k \in 1..m : l + n + k \in 1..l + n + m
    BY <1>1
  <2> QED BY <1>1, <2>1
<1>5. \A k \in 1..m : /\ Recorders(code, program.sites[k].line) # {}
                      /\ <<program.sites[k].coro, program.sites[k].line>> \in Waits(code)
  <2>1. \A k \in 1..m : Recorders(code, program.sites[k].line) # {}
    BY <1>0 DEF Accounted
  <2>2. \A k \in 1..m : <<program.sites[k].coro, program.sites[k].line>> \in Waits(code)
    BY <1>0, SitesAreWaits
  <2> QED BY <2>1, <2>2
<1> HIDE DEF last
<1>6. ASSUME NEW j \in last
      PROVE  \/ /\ rows[j].type = "wait_for" /\ Recorders(code, rows[j].line) # {}
                /\ rows[j].name = <<rows[j].name[1]>>
                /\ <<rows[j].name[1], rows[j].line>> \in Waits(code)
             \/ rows[j].type # "wait_for" /\ rows[j].name \in program.sync
  <2>1. CASE \E k \in 1..n : j = l + k
    <3>1. PICK k \in 1..n : j = l + k
      BY <2>1
    <3>2. rows[j].type # "wait_for" /\ rows[j].name = objs[k]
      BY <1>1, <3>1
    <3>3. objs[k] \in program.sync
      BY <1>2
    <3> QED BY <3>2, <3>3
  <2>2. CASE \E k \in 1..m : j = l + n + k
    <3>1. PICK k \in 1..m : j = l + n + k
      BY <2>2
    <3> PICK coro, w : coro = program.sites[k].coro /\ w = program.sites[k].line
      OBVIOUS
    <3>2. rows[j].type = "wait_for" /\ rows[j].line = w /\ rows[j].name = <<coro>>
      BY <1>1, <3>1
    <3>3. Recorders(code, w) # {} /\ <<coro, w>> \in Waits(code)
      BY <1>5
    <3>4. rows[j].name[1] = coro
      BY <3>2
    <3> QED BY <3>2, <3>3, <3>4
  <2> QED BY <1>3, <2>1, <2>2
<1>7. ASSUME NEW obj \in program.sync
      PROVE  Cardinality({j \in last : rows[j].type # "wait_for" /\ rows[j].name = obj}) = 1
  <2>1. PICK k \in 1..n : objs[k] = obj
    BY <1>2
  <2>2. ASSUME NEW j \in last, rows[j].type # "wait_for", rows[j].name = obj PROVE j = l + k
    <3>1. ASSUME NEW i \in 1..m, j = l + n + i PROVE FALSE
      BY <1>1, <2>2, <3>1
    <3>2. PICK i \in 1..n : j = l + i
      BY <1>3, <3>1
    <3>3. objs[i] = obj
      BY <1>1, <2>2, <3>2
    <3>4. i = k
      BY <1>2, <2>1, <3>3
    <3> QED BY <3>2, <3>4
  <2>3. l + k \in last /\ rows[l + k].type # "wait_for" /\ rows[l + k].name = obj
    BY <1>1, <1>4, <2>1
  <2>4. {j \in last : rows[j].type # "wait_for" /\ rows[j].name = obj} = {l + k}
    BY <2>2, <2>3
  <2> QED BY <2>4, FS_Singleton
<1>8. ASSUME NEW w \in DOMAIN code
      PROVE  Cardinality({j \in last : rows[j].type = "wait_for" /\ rows[j].line = w})
               = Cardinality(Recorders(code, w))
  <2> DEFINE S == SitesAt(program.sites, w)
             T == {j \in last : rows[j].type = "wait_for" /\ rows[j].line = w}
             f == [k \in S |-> l + n + k]
  <2>1. IsFiniteSet(S) /\ S \subseteq 1..m
    BY <1>0, FiniteDomain DEF SitesAt
  <2>2. Cardinality(S) = Cardinality(Recorders(code, w))
    <3>1. /\ Len(code) \in Nat /\ w \in 1..Len(code) /\ List(program.sites)
          /\ Accounted(code, 1..Len(code), program.sites)
      BY <1>0
    <3> QED BY <3>1, SiteCount, Zenon
  <2>3. ASSUME NEW k \in S PROVE l + n + k \in T
    BY <1>1, <1>4, <2>1 DEF SitesAt
  <2>4. ASSUME NEW j \in T PROVE \E k \in S : l + n + k = j
    <3>1. ~\E k \in 1..n : j = l + k
      BY <1>1
    <3>2. PICK k \in 1..m : j = l + n + k
      BY <1>3, <3>1
    <3>3. k \in S
      BY <1>0, <1>1, <3>2 DEF SitesAt
    <3> QED BY <3>2, <3>3
  <2>5. ASSUME NEW j \in S, NEW k \in S, l + n + j = l + n + k PROVE j = k
    BY <1>1, <2>1, <2>5
  <2>6. /\ f \in [S -> T] /\ \A t \in T : \E x \in S : f[x] = t
        /\ \A x, y \in S : f[x] = f[y] => x = y
    <3> HIDE DEF S, T
    <3> QED BY <2>3, <2>4, <2>5
  <2> HIDE DEF S, T, f
  <2>7. Cardinality(T) = Cardinality(S)
    BY <2>1, <2>6, Renamed
  <2> QED BY <2>2, <2>7 DEF T
<1> QED BY <1>6, <1>7, <1>8 DEF RowsFit, last

(***************************************************************************)
(* In the sweep.                                                           *)
(***************************************************************************)
AllMet == Accounted(code, 1..Len(code), program.sites)

(* A list of the same sites, of which all that more statements record are  *)
(* already there.                                                          *)
LEMMA AccountedKept ==
  ASSUME NEW c, NEW M, NEW N, M \subseteq N, \A w \in 1..Len(c) : Recorders(c, w) \cap N \subseteq M,
         NEW sites, Accounted(c, M, sites), NEW new, DOMAIN new = DOMAIN sites,
         \A j \in DOMAIN sites : new[j].line = sites[j].line /\ new[j].coro = sites[j].coro
  PROVE  Accounted(c, N, new)
<1>1. PICK by \in [DOMAIN sites -> M] :
        /\ \A j, k \in DOMAIN sites : by[j] = by[k] => j = k
        /\ \A j \in DOMAIN sites :
             /\ sites[j].line \in 1..Len(c) /\ by[j] \in Recorders(c, sites[j].line)
             /\ sites[j].coro = c[DefAround(c, by[j])].name
        /\ \A w \in 1..Len(c) : \A r \in Recorders(c, w) \cap M :
             \E j \in DOMAIN sites : by[j] = r /\ sites[j].line = w
  BY DEF Accounted
<1>2. by \in [DOMAIN new -> N]
  BY <1>1
<1>3. \A j \in DOMAIN new :
        /\ new[j].line \in 1..Len(c) /\ by[j] \in Recorders(c, new[j].line)
        /\ new[j].coro = c[DefAround(c, by[j])].name
  BY <1>1
<1>4. ASSUME NEW w \in 1..Len(c), NEW r \in Recorders(c, w) \cap N
      PROVE  \E j \in DOMAIN new : by[j] = r /\ new[j].line = w
  <2>1. r \in Recorders(c, w) \cap M
    OBVIOUS
  <2> QED BY <1>1, <2>1
<1>5. \A j, k \in DOMAIN new : by[j] = by[k] => j = k
  BY <1>1
<1> QED BY <1>2, <1>3, <1>4, <1>5 DEF Accounted

(* Before the first visit nothing was met.                                 *)
LEMMA NothingNoted ==
  ASSUME visited' = {}, seenWaits' = {}, program'.sites = <<>>
  PROVE  Noted' /\ HandledOnTheSpot'
<1>1. Met' = {}
  BY DEF Met
<1>2. Seen(code', {}, {})
  BY DEF Seen
<1>3. DOMAIN <<>> = {} /\ Len(<<>>) = 0
  OBVIOUS
<1>4. Accounted(code', {}, <<>>)
  <2> DEFINE by == [j \in {} |-> j]
  <2>1. by \in [DOMAIN <<>> -> {}]
    BY <1>3
  <2> HIDE DEF by
  <2> QED BY <1>3, <2>1 DEF Accounted
<1>5. HandledOnTheSpot'
  BY <1>3 DEF HandledOnTheSpot
<1> QED BY <1>1, <1>2, <1>4, <1>5 DEF Noted

(* After the last one everything that records a wait_for was.              *)
LEMMA ExtractedAllMet ==
  ASSUME Visiting, Noted, HandledOnTheSpot, EndExtract
  PROVE  AllMet'
<1> DEFINE sites == program.sites
<1>1. /\ code' = code /\ frames = <<>> /\ Funcs(code) \subseteq visited
      /\ WellFormed(code) /\ IsProgram(program) /\ List(sites)
  BY DEF EndExtract, AllVisited, Visiting, Shape, IsProgram
<1>2. Len(code) \in Nat /\ Funcs(code) \subseteq 1..Len(code) /\ DOMAIN sites = 1..Len(sites)
  BY <1>1, TreeFacts, ListFacts
<1>3. program'.sites = Resolved(code, sites)
  BY <1>1 DEF EndExtract, IsProgram, Fields
<1> HIDE DEF sites
<1>4. DOMAIN program'.sites = DOMAIN sites
  BY <1>3 DEF Resolved
<1>5. ASSUME NEW j \in DOMAIN sites
      PROVE  program'.sites[j].line = sites[j].line /\ program'.sites[j].coro = sites[j].coro
  <2> DEFINE resolved == sites[j].callee # None /\ ResolveChain(code, Head(sites[j].callee))
  <2>1. DOMAIN sites[j] = {"coro", "line", "handled", "callee"}
    BY <1>2 DEF HandledOnTheSpot, sites
  <2>2. program'.sites[j] = [sites[j] EXCEPT !.handled = @ \/ resolved]
    BY <1>3 DEF Resolved
  <2> HIDE DEF resolved
  <2> QED BY <2>1, <2>2
<1>6. Met \subseteq 1..Len(code)
  BY DEF Met
<1>7. ASSUME NEW w \in 1..Len(code), NEW r \in Recorders(code, w) \cap (1..Len(code))
      PROVE  r \in Met
  <2>1. DefAround(code, r) # 0
    BY RecordersAre
  <2>2. PICK d \in Funcs(code) : r \in Inside(code, d)
    BY <1>1, <2>1, HasDef
  <2> QED BY <1>1, <2>2 DEF Met
<1>8. Accounted(code, Met, sites)
  BY DEF Noted, sites
<1> DEFINE new == program'.sites
           all == 1..Len(code)
<1>9. /\ DOMAIN new = DOMAIN sites
      /\ \A j \in DOMAIN sites : new[j].line = sites[j].line /\ new[j].coro = sites[j].coro
      /\ Met \subseteq all
      /\ \A w \in 1..Len(code) : Recorders(code, w) \cap all \subseteq Met
  BY <1>4, <1>5, <1>6, <1>7
<1> HIDE DEF new, all
<1>10. Accounted(code, all, new)
  BY <1>8, <1>9, AccountedKept
<1> QED BY <1>1, <1>10 DEF AllMet, all, new

\* An object that no coroutine waits for.
Idle(c, p, obj) ==
  LET kind == Symbols(c)[obj]
  IN  kind # "EVENT" /\ \A name \in DOMAIN p.ops :
        \A op \in OpsOf(p, name) : op.obj = obj => op.kind # WAITS[kind]

LEMMA IdleRaises ==
  ASSUME PInv, NEW obj \in program.sync
  PROVE  RaisesException(KindOf(obj), Waiters(obj)) <=> Idle(code, program, obj)
<1> DEFINE kind == KindOf(obj)
           n == Waiters(obj)
           users == UsersOf(program, obj, WAITS[kind])
<1>1. kind \in {"LOCK", "QUEUE", "EVENT"}
  <2>1. WellFormed(code) /\ program.sync \subseteq DOMAIN Symbols(code)
    BY DEF PInv, Visiting, Shape
  <2> QED BY <2>1, KindIs DEF KindOf
<1>2. n \in Nat /\ (n > 0 <=> users # {})
  BY CountIs DEF Waiters
<1>3. users = {} <=> \A name \in DOMAIN program.ops :
                       \A op \in OpsOf(program, name) : op.obj = obj => op.kind # WAITS[kind]
  BY DEF UsersOf
<1>4. Idle(code, program, obj) <=> kind # "EVENT" /\ users = {}
  BY <1>3 DEF Idle, KindOf
<1> HIDE DEF kind, n, users
<1>5. RaisesException(kind, n) <=> kind # "EVENT" /\ users = {}
  BY <1>1, <1>2 DEF RaisesException
<1> QED BY <1>4, <1>5 DEF kind, n

(* Rows whose exports are called the same.                                 *)
LEMMA SharedExports ==
  ASSUME NEW files \in Corpora, NEW n \in 1..Len(files), NEW c, c = files[n].code,
         NEW sync, sync \subseteq DOMAIN Symbols(c), NEW rows, List(rows), NEW path,
         RowsFit(c, sync, rows, path),
         NEW j \in DOMAIN rows, NEW l \in DOMAIN rows, rows[j].path = path, rows[l].path = path,
         j # l, ExportName(rows[j]) = ExportName(rows[l])
  PROVE  MayShare(rows[j], rows[l])
<1> DEFINE objects == {obj \in DOMAIN Symbols(c) : obj[1] # "function"}
<1>1. /\ \A x, y \in Waits(c) : WaitForFile(x[1], x[2]) = WaitForFile(y[1], y[2]) => x = y
      /\ \A obj1, obj2 \in objects : ObjectFile(obj1) = ObjectFile(obj2) => obj1 = obj2
      /\ \A obj \in objects, x \in Waits(c) :
           ObjectFile(obj) = WaitForFile(x[1], x[2]) => obj[1] = "module"
  <2>1. n \in DOMAIN files
    BY CorpusFacts, ListFacts
  <2> QED BY <2>1, NamesAssumption DEF Waits
<1> DEFINE last == {i \in DOMAIN rows : rows[i].path = path}
           IsWait(i) == /\ rows[i].type = "wait_for" /\ rows[i].name = <<rows[i].name[1]>>
                        /\ <<rows[i].name[1], rows[i].line>> \in Waits(c)
           IsObject(i) == rows[i].type # "wait_for" /\ rows[i].name \in sync
           base(i) == IF rows[i].type = "wait_for" THEN WaitForFile(rows[i].name[1], rows[i].line)
                      ELSE ObjectFile(rows[i].name)
<1>2. (IsWait(j) \/ IsObject(j)) /\ (IsWait(l) \/ IsObject(l))
  BY DEF RowsFit
<1>3. base(j) = base(l)
  <2>1. \A i \in {j, l} : ExportName(rows[i]) = <<SafeComponent(rows[i].path), base(i)>>
    BY ExportNames
  <2> HIDE DEF base
  <2> QED BY <2>1
<1>4. CASE IsWait(j) /\ IsWait(l)
  <2> DEFINE x == <<rows[j].name[1], rows[j].line>>
             y == <<rows[l].name[1], rows[l].line>>
  <2>1. /\ x \in Waits(c) /\ y \in Waits(c)
        /\ x[1] = rows[j].name[1] /\ x[2] = rows[j].line
        /\ y[1] = rows[l].name[1] /\ y[2] = rows[l].line
    BY <1>4
  <2> HIDE DEF x, y
  <2>2. WaitForFile(x[1], x[2]) = WaitForFile(y[1], y[2])
    BY <1>3, <1>4, <2>1
  <2>3. x = y
    BY <1>1, <2>1, <2>2
  <2>4. rows[j].name = rows[l].name /\ rows[j].line = rows[l].line
    BY <1>4, <2>1, <2>3
  <2> QED BY <1>4, <2>4 DEF MayShare
<1>5. CASE \E i \in {j, l} : IsObject(i) /\ rows[i].name[1] = "function"
  BY <1>5 DEF MayShare
<1>6. CASE /\ IsObject(j) /\ IsObject(l)
           /\ rows[j].name[1] # "function" /\ rows[l].name[1] # "function"
  <2> PICK obj : obj = rows[j].name
    OBVIOUS
  <2>1. obj = rows[l].name /\ obj \in sync
    BY <1>1, <1>3, <1>6
  <2> DEFINE S == {i \in last : rows[i].type # "wait_for" /\ rows[i].name = obj}
  <2>2. j \in S /\ l \in S
    BY <1>6, <2>1
  <2>3. IsFiniteSet(S)
    BY FiniteDomain
  <2>4. Cardinality(S) = 1
    BY <2>1 DEF RowsFit
  <2> HIDE DEF S
  <2>5. \E x : S = {x}
    BY <2>3, <2>4, FS_Singleton
  <2> QED BY <2>2, <2>5
<1>7. ASSUME NEW i \in {j, l}, NEW k \in {j, l}, IsWait(i), IsObject(k), base(i) = base(k),
             rows[k].name[1] # "function"
      PROVE  MayShare(rows[j], rows[l])
  <2> PICK x : x = <<rows[i].name[1], rows[i].line>>
    OBVIOUS
  <2>1. x \in Waits(c) /\ rows[k].name \in objects
    BY <1>7
  <2>2. ObjectFile(rows[k].name) = WaitForFile(x[1], x[2])
    BY <1>7
  <2>3. rows[k].name[1] = "module"
    BY <1>1, <2>1, <2>2
  <2> QED BY <1>7, <2>3 DEF MayShare
<1> HIDE DEF IsWait, base
<1> QED BY <1>2, <1>3, <1>4, <1>5, <1>6, <1>7

\* What the rows and the exported files say after the first n files.
AccountOf(all, c, p, rows, files, n) ==
  LET last == {j \in DOMAIN rows : rows[j].path = all[n].path}
      safe == SafeComponent(all[n].path)
      exported == {e \in files : e[1] = safe}
      namesake == \E j \in 1..(n - 1) : SafeComponent(all[j].path) = safe
  IN  IF \E obj \in p.sync : Idle(c, p, obj)
      THEN last = {} /\ (namesake \/ exported = {})
      ELSE /\ RowsFit(c, p.sync, rows, all[n].path)
           /\ namesake \/ exported = FilesOf(safe, p.sync, Recorded(c))

NamedFor(all, files, n) == \A e \in files : \E j \in 1..n : e[1] = SafeComponent(all[j].path)

\* What was extracted is the current file, or the last one.
ReadAgain ==
  /\ stage \in {"extract", "extracted", "ready"} => code = corpus[done + 1].code
  /\ stage \in {"idle", "inspected"} /\ done > 0 => code = corpus[done].code

RInv ==
  /\ stage = "extract" => Noted /\ HandledOnTheSpot
  /\ stage \in {"extracted", "ready"} => AllMet
  /\ NamedFor(corpus, smt2, done)
  /\ stage = "idle" /\ done > 0 => AccountOf(corpus, code, program, csv, smt2, done)
  /\ ReadAgain

LEMMA AccountIsRows == PInv /\ RInv => RowsAccounted
<1> SUFFICES ASSUME PInv, ReadAgain, stage = "idle", done > 0,
                    AccountOf(corpus, code, program, csv, smt2, done)
             PROVE  RowsAccounted
  BY DEF RInv, RowsAccounted
<1>1. LastRows = {j \in DOMAIN csv : csv[j].path = corpus[done].path}
  BY DEF LastRows, LastDone
<1> DEFINE waits == {w \in DOMAIN code : Recorders(code, w) # {}}
           by(w) == {<<code[DefAround(code, b)].name, w>> : b \in Recorders(code, w)}
<1>2. Recorded(code) = UNION {by(w) : w \in waits}
  BY DEF Recorded
<1>3. \A w : w \in waits <=> w \in DOMAIN code /\ Recorders(code, w) # {}
  OBVIOUS
<1>4. \A x \in Waits(code) : x[2] \in DOMAIN code
  BY DEF Waits
<1>5. ASSUME RowsFit(code, program.sync, csv, corpus[done].path), NEW j \in LastRows, NEW l \in LastRows,
             j # l, ExportName(csv[j]) = ExportName(csv[l])
      PROVE  MayShare(csv[j], csv[l])
  <2>1. /\ corpus \in Corpora /\ done \in 1..Len(corpus) /\ List(csv)
        /\ program.sync \subseteq DOMAIN Symbols(code)
    BY CorpusFacts DEF PInv, Types, Visiting, Shape
  <2>2. code = corpus[done].code
    BY DEF ReadAgain
  <2> QED BY <1>1, <1>5, <2>1, <2>2, SharedExports
<1>6. \A j \in LastRows :
        <<csv[j].name[1], csv[j].line>> \in Waits(code) => csv[j].line \in DOMAIN code
  BY <1>4
<1> HIDE DEF waits
<1> QED BY <1>1, <1>2, <1>3, <1>5, <1>6
        DEF AccountOf, RowsFit, FilesOf, RowsAccounted, LastDone, Idle, KindOf, waits

(* The two ends of a run.                                                  *)
LEMMA CheckRaisesAccounts ==
  ASSUME PInv, RInv, CheckRaises
  PROVE  AccountOf(corpus, code, program, csv, smt2, done + 1)
<1>1. Types /\ done < Len(corpus) /\ stage = "ready" /\ done \in Nat /\ List(csv)
  BY CorpusFacts DEF CheckRaises, PInv, Types
<1>2. \E obj \in program.sync : Idle(code, program, obj)
  BY IdleRaises DEF CheckRaises
<1>3. \A j \in DOMAIN csv : csv[j] \in ToSet(csv)
  BY <1>1, ListFacts
<1>4. {j \in DOMAIN csv : csv[j].path = corpus[done + 1].path} = {}
  BY <1>1, <1>3, OlderRows
<1>5. 1..((done + 1) - 1) = 1..done
  BY <1>1
<1>6. NamedFor(corpus, smt2, done)
  BY DEF RInv
<1> QED BY <1>2, <1>4, <1>5, <1>6 DEF AccountOf, NamedFor

LEMMA CheckAndExportAccounts ==
  ASSUME PInv, RInv, CheckAndExport
  PROVE  AccountOf(corpus, code, program, csv', smt2', done + 1) /\ NamedFor(corpus, smt2', done + 1)
<1> DEFINE files == {ExportName(row) : row \in ToSet(Rows)}
           safe == SafeComponent(CurrentPath)
           namesake == \E j \in 1..((done + 1) - 1) : SafeComponent(corpus[j].path) = safe
<1>1. /\ Types /\ Visiting /\ done < Len(corpus) /\ stage = "ready" /\ done \in Nat /\ AllMet
      /\ csv' = csv \o Rows /\ smt2' = smt2 \cup files /\ corpus' = corpus
  BY CorpusFacts DEF CheckAndExport, PInv, RInv, Types
<1>2. ~\E obj \in program.sync : Idle(code, program, obj)
  BY IdleRaises DEF CheckAndExport
<1>3. /\ \A file \in files : file[1] = safe
      /\ files = FilesOf(safe, program.sync, Recorded(code))
  BY <1>1, ExportedFiles DEF AllMet
<1>4. NamedFor(corpus, smt2, done)
  BY DEF RInv
<1> HIDE DEF files, safe
<1>5. NamedFor(corpus, smt2', done + 1)
  <2>1. ASSUME NEW e \in smt2' PROVE \E j \in 1..done + 1 : e[1] = SafeComponent(corpus[j].path)
    <3>1. CASE e \in files
      BY <1>1, <1>3, <3>1 DEF safe, CurrentPath
    <3>2. CASE e \in smt2
      <4>1. PICK j \in 1..done : e[1] = SafeComponent(corpus[j].path)
        BY <1>4, <3>2 DEF NamedFor
      <4>2. j \in 1..done + 1
        BY <1>1
      <4> QED BY <4>1, <4>2
    <3> QED BY <1>1, <3>1, <3>2
  <2> QED BY <1>1, <2>1 DEF NamedFor
<1>6. namesake \/ {e \in smt2' : e[1] = safe} = files
  <2>1. 1..((done + 1) - 1) = 1..done
    BY <1>1
  <2>2. SUFFICES ASSUME ~namesake PROVE {e \in smt2' : e[1] = safe} = files
    OBVIOUS
  <2>3. \A e \in smt2 : e[1] # safe
    BY <1>4, <2>1, <2>2 DEF NamedFor
  <2> QED BY <1>1, <1>3, <2>3
<1>7. namesake \/ {e \in smt2' : e[1] = safe} = FilesOf(safe, program.sync, Recorded(code))
  BY <1>3, <1>6
<1>8. RowsFit(code, program.sync, csv', CurrentPath)
  <2>1. Accounted(code, 1..Len(code), program.sites)
    BY <1>1 DEF AllMet
  <2> QED BY <1>1, <2>1, RowsCountUp
<1>9. AccountOf(corpus, code, program, csv', smt2', done + 1)
  BY <1>2, <1>7, <1>8 DEF AccountOf, safe, CurrentPath
<1> QED BY <1>5, <1>9

LEMMA ReadAgainStep ==
  ASSUME PInv, ReadAgain, [Next]_vars
  PROVE  ReadAgain'
<1>1. /\ corpus \in Corpora /\ done \in 0..Len(corpus) /\ Len(corpus) \in Nat
  BY CorpusFacts DEF PInv, Types
<1>2. CASE NextFile
  <2>1. stage' = "extract" /\ code' = corpus[done + 1].code /\ corpus' = corpus /\ done' = done
    BY <1>2 DEF NextFile, BeginExtract, sweepVars
  <2> QED BY <2>1 DEF ReadAgain
<1>3. CASE VisitFile
  <2>1. /\ stage = "extract" /\ stage' = "extract" /\ corpus' = corpus /\ done' = done
        /\ code' = code
    BY <1>3, VisitKeeps DEF VisitFile, sweepVars, PInv, Untouched
  <2> QED BY <2>1 DEF ReadAgain
<1>4. CASE Extracted \/ ApplyPublicConcurrentAssumption
  <2>1. /\ stage \in {"extract", "extracted"} /\ stage' \in {"extracted", "ready"}
        /\ corpus' = corpus /\ done' = done /\ code' = code
    BY <1>4 DEF Extracted, EndExtract, ApplyPublicConcurrentAssumption, sweepVars
  <2> QED BY <2>1 DEF ReadAgain
<1>5. CASE CheckRaises \/ CheckAndExport
  <2>1. stage = "ready" /\ stage' = "idle" /\ corpus' = corpus /\ done' = done + 1 /\ code' = code
    BY <1>5 DEF CheckRaises, CheckAndExport, extractVars
  <2> QED BY <2>1 DEF ReadAgain
<1>6. CASE InspectGaps
  <2>1. /\ stage = "idle" /\ stage' = "inspected" /\ corpus' = corpus /\ done' = done
        /\ code' = code
    BY <1>6 DEF InspectGaps, extractVars
  <2> QED BY <2>1 DEF ReadAgain
<1>7. CASE UNCHANGED vars
  BY <1>7 DEF vars, extractVars, ReadAgain
<1> QED BY <1>2, <1>3, <1>4, <1>5, <1>6, <1>7 DEF Next, Finished

LEMMA RInvStep ==
  ASSUME PInv, RInv, [Next]_vars
  PROVE  RInv'
<1>0. ReadAgain'
  BY ReadAgainStep DEF RInv
<1>1. CASE NextFile
  <2>1. /\ stage' = "extract" /\ visited' = {} /\ seenWaits' = {} /\ program'.sites = <<>>
        /\ smt2' = smt2 /\ corpus' = corpus /\ done' = done
    BY <1>1 DEF NextFile, BeginExtract, EmptyProgram, sweepVars
  <2>2. Noted' /\ HandledOnTheSpot'
    BY <2>1, NothingNoted
  <2> QED BY <1>0, <2>1, <2>2 DEF RInv, NamedFor
<1>2. CASE VisitFile
  <2>1. /\ stage = "extract" /\ Visit /\ stage' = "extract"
        /\ smt2' = smt2 /\ corpus' = corpus /\ done' = done
    BY <1>2 DEF VisitFile, sweepVars
  <2>2. Noted' /\ HandledOnTheSpot'
    BY <2>1, VisitNoted, VisitSpot DEF PInv, RInv
  <2> QED BY <1>0, <2>1, <2>2 DEF RInv, NamedFor
<1>3. CASE Extracted
  <2>1. /\ stage = "extract" /\ EndExtract /\ stage' = "extracted"
        /\ smt2' = smt2 /\ corpus' = corpus /\ done' = done
    BY <1>3 DEF Extracted, sweepVars
  <2>2. AllMet'
    BY <2>1, ExtractedAllMet DEF PInv, RInv
  <2> QED BY <1>0, <2>1, <2>2 DEF RInv, NamedFor
<1>4. CASE ApplyPublicConcurrentAssumption
  <2>1. /\ stage = "extracted" /\ stage' = "ready" /\ code' = code
        /\ smt2' = smt2 /\ corpus' = corpus /\ done' = done
        /\ program' = program \/ \E targets : program' = Assumed(program, targets)
    BY <1>4 DEF ApplyPublicConcurrentAssumption, sweepVars
  <2>2. program'.sites = program.sites
    <3>1. DOMAIN program = Fields
      BY DEF PInv, Visiting, Shape
    <3> QED BY <2>1, <3>1 DEF Assumed, Fields
  <2>3. AllMet'
    BY <2>1, <2>2 DEF RInv, AllMet
  <2>4. NamedFor(corpus', smt2', done')
    BY <2>1 DEF RInv, NamedFor
  <2>5. stage' = "ready"
    BY <2>1
  <2> QED BY <1>0, <2>3, <2>4, <2>5 DEF RInv
<1>5. CASE CheckRaises
  <2>1. /\ stage' = "idle" /\ code' = code /\ program' = program /\ csv' = csv
        /\ smt2' = smt2 /\ corpus' = corpus /\ done' = done + 1 /\ done \in Nat
    BY <1>5, CorpusFacts DEF CheckRaises, extractVars, PInv, Types
  <2>2. AccountOf(corpus, code, program, csv, smt2, done + 1)
    BY <1>5, CheckRaisesAccounts
  <2>3. NamedFor(corpus, smt2, done + 1)
    <3>1. \A j \in 1..done : j \in 1..done + 1
      BY <2>1
    <3> QED BY <3>1 DEF RInv, NamedFor
  <2> QED BY <1>0, <2>1, <2>2, <2>3 DEF RInv
<1>6. CASE CheckAndExport
  <2>1. /\ stage' = "idle" /\ code' = code /\ program' = program
        /\ corpus' = corpus /\ done' = done + 1
    BY <1>6 DEF CheckAndExport, extractVars
  <2>2. AccountOf(corpus, code, program, csv', smt2', done + 1) /\ NamedFor(corpus, smt2', done + 1)
    BY <1>6, CheckAndExportAccounts
  <2> QED BY <1>0, <2>1, <2>2 DEF RInv
<1>7. CASE InspectGaps
  <2>1. stage' = "inspected" /\ smt2' = smt2 /\ corpus' = corpus /\ done' = done
    BY <1>7 DEF InspectGaps
  <2> QED BY <1>0, <2>1 DEF RInv, NamedFor
<1>8. CASE UNCHANGED vars
  <2>1. /\ stage' = stage /\ code' = code /\ program' = program /\ csv' = csv /\ smt2' = smt2
        /\ corpus' = corpus /\ done' = done /\ visited' = visited /\ frames' = frames
        /\ node' = node /\ seenWaits' = seenWaits
    BY <1>8 DEF vars, extractVars
  <2>2. Noted' <=> Noted
    BY <2>1 DEF Noted, Met, Root
  <2> QED BY <1>0, <2>1, <2>2 DEF RInv, NamedFor, AllMet, HandledOnTheSpot
<1> QED BY <1>1, <1>2, <1>3, <1>4, <1>5, <1>6, <1>7, <1>8 DEF Next, Finished

(* Every object has one row and every wait_for one for each statement that *)
(* records it; what is exported is each object, and each wait_for in each  *)
(* coroutine that it is recorded in; rows whose exports are called the     *)
(* same are of the kinds that may be; or the file has none of this, and    *)
(* that exactly if it has a lock or queue that is never waited for.        *)
THEOREM EveryRowIsAccounted == Spec => []RowsAccounted
<1>1. Init => RInv
  BY DEF Init, RInv, NamedFor, ReadAgain
<1>2. PInv /\ RInv /\ [Next]_vars => RInv'
  BY RInvStep
<1> QED BY <1>1, <1>2, AccountIsRows, PipelineInvariant, PTL DEF Spec
-----------------------------------------------------------------------------
(***************************************************************************)
(* The report.  What is in the line of an operation.                       *)
(***************************************************************************)
Worded(c) ==
  \A i \in DOMAIN c : /\ IsCall(c, i) => List(c[i].f) /\ c[i].f # None /\ 0 \in CallsOf(c, i)
                      /\ c[i].k = "async_with" => List(c[i].obj) /\ c[i].obj # None

\* The line of an operation has the bare name of its object, or ends its block.
InItsLine(c, op) ==
  op.obj # None => c[op.line].k = "end" \/ Mentions(c, op.line, op.obj[3])

AllInLine ==
  \A name \in FuncNames(code) : \A i \in 1..Len(program.ops[name]) :
    InItsLine(code, program.ops[name][i])

LEMMA InLineKept ==
  ASSUME AllInLine, code' = code, program'.ops = program.ops
  PROVE  AllInLine'
BY DEF AllInLine

LEMMA InLineEmitted ==
  ASSUME WellFormed(code), Stack, frames # <<>>, Ops, AllInLine, code' = code,
         NEW op, InItsLine(code, op),
         program'.ops = [program.ops EXCEPT ![CurrentCoro] = Append(@, op)]
  PROVE  AllInLine'
<1> PICK me : me = CurrentCoro
  OBVIOUS
<1>1. /\ program.ops = [name \in FuncNames(code) |-> program.ops[name]]
      /\ \A name \in FuncNames(code) : List(program.ops[name])
  BY DEF Ops
<1>2. me \in FuncNames(code)
  BY CurrentIsDef, TreeFacts DEF CurrentCoro
<1>3. ASSUME NEW name \in FuncNames(code), NEW i \in 1..Len(program'.ops[name])
      PROVE  InItsLine(code, program'.ops[name][i])
  <2> PICK s : s = program.ops[name]
    OBVIOUS
  <2>1. List(s) /\ Len(s) \in Nat /\ \A j \in 1..Len(s) : InItsLine(code, s[j])
    BY <1>1, ListFacts DEF AllInLine
  <2>2. CASE name # me
    <3>1. program'.ops[name] = s
      BY <1>1, <2>2
    <3> QED
      BY <2>1, <3>1
  <2>3. CASE name = me
    <3> PICK t : t = Append(s, op)
      OBVIOUS
    <3>1. program'.ops[name] = t
      BY <1>1, <2>3
    <3>2. /\ Len(t) = Len(s) + 1 /\ t[Len(s) + 1] = op
          /\ \A j \in 1..Len(s) : t[j] = s[j]
      BY <2>1, ListAppend
    <3>3. i \in 1..Len(s) \/ i = Len(s) + 1
      BY <2>1, <3>1, <3>2
    <3> QED
      BY <2>1, <3>1, <3>2, <3>3
  <2> QED
    BY <2>2, <2>3
<1> QED
  BY <1>3 DEF AllInLine

LEMMA VisitInLine ==
  ASSUME Visiting, Worded(code), AllInLine, Visit
  PROVE  AllInLine'
<1>1. /\ IsProgram(program) /\ List(program.sites) /\ WellFormed(code) /\ Stack /\ Ops /\ Locks
  BY DEF Visiting, Shape, IsProgram
<1>2. CASE VisitNextFunction \/ VisitFunctionDef \/ VisitOther
  BY <1>2, InLineKept DEF VisitNextFunction, VisitFunctionDef, VisitOther
<1>3. ASSUME frames # <<>>, code' = code, NEW p, IsProgram(p), p.ops = program.ops,
             NEW kind, NEW obj, NEW note, program' = Emit(p, kind, obj, note),
             obj # None => code[node].k = "end" \/ Mentions(code, node, obj[3])
      PROVE  AllInLine'
  <2> PICK op : op = [kind |-> kind, obj |-> obj, line |-> node, note |-> note]
    OBVIOUS
  <2>1. InItsLine(code, op)
    BY <1>3 DEF InItsLine
  <2>2. program'.ops = [program.ops EXCEPT ![CurrentCoro] = Append(@, op)]
    BY <1>3, EmitParts
  <2> QED
    BY <1>1, <1>3, <2>1, <2>2, InLineEmitted
<1>4. CASE VisitWith \/ VisitTry \/ (HandleCallExpr /\ program' # AfterCall(program))
  <2>1. /\ code' = code
        /\ program' = program \/ \E i, handled : program' = WithSite(program, i, handled)
    BY <1>4 DEF VisitWith, VisitTry, HandleCallExpr
  <2> QED
    BY <1>1, <2>1, WithSiteParts, InLineKept
<1>5. CASE VisitAsyncWith
  <2> PICK obj : obj = ResolveSync(code[node].obj)
    OBVIOUS
  <2> PICK lock : lock = IF obj # None /\ Symbols(code)[obj] = "LOCK" THEN obj ELSE None
    OBVIOUS
  <2>1. /\ frames # <<>> /\ code[node].k = "async_with" /\ code' = code
        /\ program' = IF lock = None THEN WithSync(program, obj)
                      ELSE Emit(WithSync(program, obj), "ACQUIRE", lock, None)
    BY <1>5 DEF VisitAsyncWith, At
  <2>2. IsProgram(WithSync(program, obj)) /\ WithSync(program, obj).ops = program.ops
    BY <1>1, WithSyncParts
  <2>3. CASE lock = None
    BY <2>1, <2>2, <2>3, InLineKept
  <2>4. CASE lock # None
    <3>1. lock = obj /\ lock[3] = Last(code[node].obj)
      BY <1>1, <2>1, <2>4, ResolvedIsOwn
    <3>2. node \in DOMAIN code
      BY <1>1, <2>1, TreeFacts DEF Stack
    <3>3. Last(code[node].obj) \in ToSet(code[node].obj)
      BY <2>1, <3>2, LastWords DEF Worded
    <3>4. Mentions(code, node, lock[3])
      BY <2>1, <3>1, <3>3 DEF Mentions
    <3> QED
      BY <1>3, <2>1, <2>2, <2>4, <3>4
  <2> QED
    BY <2>3, <2>4
<1>6. CASE HandleCallExpr /\ program' = AfterCall(program)
  <2> PICK t : t = code[node]
    OBVIOUS
  <2> PICK obj : obj = IF Len(t.f) = 1 THEN None ELSE ResolveSync(Front(t.f))
    OBVIOUS
  <2> PICK op : op = IF obj = None THEN "none"
                     ELSE OpOf(Symbols(code)[obj], Last(t.f), code[CurrentDef].async)
    OBVIOUS
  <2>1. /\ frames # <<>> /\ t.k = "call" /\ code' = code
        /\ program' = IF obj = None
                      THEN IF t.await THEN Emit(program, "GENERIC_AWAIT", None, Last(t.f))
                           ELSE program
                      ELSE IF op = "none" THEN WithSync(program, obj)
                      ELSE Emit(WithSync(program, obj), op, obj, None)
    BY <1>6 DEF HandleCallExpr, AfterCall, At
  <2>2. IsProgram(WithSync(program, obj)) /\ WithSync(program, obj).ops = program.ops
    BY <1>1, WithSyncParts
  <2>3. CASE obj = None
    <3>1. program' = program \/ program' = Emit(program, "GENERIC_AWAIT", None, Last(t.f))
      BY <2>1, <2>3
    <3> QED
      BY <1>1, <1>3, <2>1, <3>1, InLineKept
  <2>4. CASE obj # None
    <3>1. Len(t.f) # 1 /\ obj[3] = Last(Front(t.f))
      BY <1>1, <2>1, <2>4, ResolvedIsOwn
    <3>2. node \in DOMAIN code
      BY <1>1, <2>1, TreeFacts DEF Stack
    <3>3. Last(Front(t.f)) \in ToSet(t.f)
      BY <2>1, <3>1, <3>2, LastWords DEF Worded, IsCall
    <3>4. Mentions(code, node, obj[3])
      <4>1. 0 \in CallsOf(code, node) /\ CallAt(code, node, 0).f = t.f
        BY <2>1, <3>2 DEF Worded, IsCall, CallAt
      <4> QED BY <3>1, <3>3, <4>1 DEF Mentions
    <3>5. program' = WithSync(program, obj) \/ program' = Emit(WithSync(program, obj), op, obj, None)
      BY <2>1, <2>4
    <3> QED
      BY <1>3, <2>1, <2>2, <3>4, <3>5, InLineKept
  <2> QED
    BY <2>3, <2>4
<1>7. CASE LeaveBlock
  <2> PICK lock : lock = Last(frames).lock
    OBVIOUS
  <2>1. /\ frames # <<>> /\ code[node].k = "end" /\ code' = code
        /\ program' = IF lock = None THEN program ELSE Emit(program, "RELEASE", lock, None)
    BY <1>7 DEF LeaveBlock, At
  <2> QED
    BY <1>1, <1>3, <2>1, InLineKept
<1> QED
  BY <1>2, <1>4, <1>5, <1>6, <1>7 DEF Visit, HandleCallExpr

(***************************************************************************)
(* The names around a line.                                                *)
(***************************************************************************)
BlocksAround(c, i, kind) == {b \in Around(c, i) : c[b].k = kind}

NamesOf(c, B) ==
  LET nth(j) == CHOOSE b \in B : Cardinality({a \in B : a <= b}) = j
  IN  [j \in 1..Cardinality(B) |-> c[nth(j)].name]

LEMMA NamesAroundAre ==
  ASSUME NEW c, NEW i, NEW kind
  PROVE  NamesAround(c, i, kind) = NamesOf(c, BlocksAround(c, i, kind))
BY DEF NamesAround, NamesOf, BlocksAround

LEMMA BlocksAroundFinite ==
  ASSUME NEW c, WellFormed(c), NEW i \in 1..Len(c), NEW kind
  PROVE  LET B == BlocksAround(c, i, kind)
         IN  /\ IsFiniteSet(B) /\ B \subseteq 1..i - 1 /\ B \subseteq Nat /\ i \in Nat
             /\ Cardinality(B) \in Nat
             /\ Innermost(c, i, {kind}) = Max(B \cup {0})
             /\ Max(B \cup {0}) \in B \cup {0}
             /\ \A b \in B : b <= Max(B \cup {0})
<1> PICK B : B = BlocksAround(c, i, kind)
  OBVIOUS
<1>1. i \in Nat /\ Len(c) \in Nat
  BY TreeFacts
<1>2. B \in SUBSET (1..i - 1) /\ i - 1 \in Int
  BY <1>1 DEF BlocksAround, Around
<1>3. IsFiniteSet(B) /\ Cardinality(B) \in Nat
  <2>1. IsFiniteSet(1..i - 1)
    BY <1>2, FS_Interval
  <2>2. IsFiniteSet(B)
    BY <1>2, <2>1, FS_Subset
  <2> QED
    BY <2>2, FS_CardinalityType
<1>4. B \cup {0} \subseteq Nat /\ \A y \in B \cup {0} : y <= i
  BY <1>1, <1>2
<1>5. Max(B \cup {0}) \in B \cup {0} /\ \A y \in B \cup {0} : y <= Max(B \cup {0})
  BY <1>1, <1>4, GreatestIs
<1>6. Innermost(c, i, {kind}) = Max(B \cup {0})
  <2>1. {b \in Around(c, i) : c[b].k \in {kind}} = B
    BY DEF BlocksAround
  <2> QED
    BY <2>1 DEF Innermost
<1> QED
  BY <1>1, <1>2, <1>3, <1>4, <1>5, <1>6

\* The last of the names is that of the innermost block.
LEMMA LastName ==
  ASSUME NEW c, WellFormed(c), NEW i \in 1..Len(c), NEW kind,
         NamesAround(c, i, kind) # None
  PROVE  LET b == Innermost(c, i, {kind})
         IN  /\ b \in BlocksAround(c, i, kind) /\ b # 0
             /\ Len(NamesAround(c, i, kind)) \in Nat \ {0}
             /\ NamesAround(c, i, kind)[Len(NamesAround(c, i, kind))] = c[b].name
<1> DEFINE B == BlocksAround(c, i, kind)
           nth(j) == CHOOSE b \in B : Cardinality({a \in B : a <= b}) = j
           s == [j \in 1..Cardinality(B) |-> c[nth(j)].name]
           m == Max(B \cup {0})
           n == Cardinality(B)
<1>1. NamesAround(c, i, kind) = s
  BY NamesAroundAre DEF NamesOf
<1>2. /\ IsFiniteSet(B) /\ B \subseteq 1..i - 1 /\ B \subseteq Nat /\ i \in Nat /\ n \in Nat
      /\ Innermost(c, i, {kind}) = m /\ m \in B \cup {0} /\ \A b \in B : b <= m
  BY BlocksAroundFinite
<1> HIDE DEF B
<1>3. B # {}
  <2>1. SUFFICES ASSUME B = {} PROVE FALSE
    OBVIOUS
  <2>2. Cardinality(B) = 0
    BY <2>1, FS_EmptySet
  <2>3. s = <<>>
    BY <2>2
  <2> QED
    BY <1>1, <2>3 DEF None
<1>4. n # 0 /\ n \in 1..n
  BY <1>2, <1>3, FS_EmptySet
<1>5. m \in B
  <2>1. PICK b \in B : TRUE
    BY <1>3
  <2>2. b <= m /\ b \in 1..i - 1
    BY <1>2, <2>1
  <2>3. m # 0
    BY <1>2, <2>2
  <2> HIDE DEF m
  <2> QED
    BY <1>2, <2>3
<1> HIDE DEF m
<1>6. Cardinality({a \in B : a <= m}) = n
  <2>1. {a \in B : a <= m} = B
    BY <1>2
  <2> QED
    BY <2>1
<1>7. ASSUME NEW b \in B, Cardinality({a \in B : a <= b}) = n PROVE b = m
  <2> PICK A : A = {a \in B : a <= b}
    OBVIOUS
  <2>1. A \in SUBSET B /\ Cardinality(A) = Cardinality(B)
    BY <1>7
  <2>2. A = B
    BY <1>2, <2>1, FS_Subset
  <2>3. m <= b /\ b <= m /\ b \in Nat /\ m \in Nat
    BY <1>2, <1>5, <2>2
  <2> QED
    BY <2>3
<1>8. nth(n) = m
  BY <1>5, <1>6, <1>7
<1> HIDE DEF n, nth
<1>9. s[n] = c[m].name /\ Len(s) = n
  BY <1>2, <1>4, <1>8 DEF n
<1>10. B = BlocksAround(c, i, kind)
  BY DEF B
<1>11. 0 \notin B
  BY <1>2
<1> HIDE DEF s
<1> QED
  BY <1>1, <1>2, <1>4, <1>5, <1>9, <1>10, <1>11

\* What is around the line of a function's operation, and not around the function,
\* is inside of the function.
LEMMA ClassesAround ==
  ASSUME NEW c, WellFormed(c), NEW i \in 1..Len(c), NEW d \in Funcs(c), d \in Around(c, i)
  PROVE  ClassScope(c, i) # ClassScope(c, d) <=> Innermost(c, i, {"class"}) > d
<1> PICK B, D, m : /\ B = BlocksAround(c, i, "class") /\ D = BlocksAround(c, d, "class")
                   /\ m = Innermost(c, i, {"class"})
  OBVIOUS
<1>1. /\ d \in 1..Len(c) /\ Len(c) \in Nat /\ c[d].k = "def"
      /\ \A j \in 1..Len(c) : c[j].depth \in Nat
  BY TreeFacts
<1>2. /\ IsFiniteSet(B) /\ Cardinality(B) \in Nat /\ B \subseteq 1..i - 1 /\ B \subseteq Nat
      /\ m = Max(B \cup {0}) /\ m \in B \cup {0} /\ \A b \in B : b <= m
  <2>1. LET b == BlocksAround(c, i, "class")
        IN  /\ IsFiniteSet(b) /\ Cardinality(b) \in Nat /\ b \subseteq 1..i - 1 /\ b \subseteq Nat
            /\ Innermost(c, i, {"class"}) = Max(b \cup {0})
            /\ Max(b \cup {0}) \in b \cup {0} /\ \A x \in b : x <= Max(b \cup {0})
    BY BlocksAroundFinite
  <2> QED
    BY <2>1
<1>3. IsFiniteSet(D) /\ Cardinality(D) \in Nat /\ D \subseteq 1..d - 1
  BY <1>1, BlocksAroundFinite
<1>4. ASSUME NEW b \in D PROVE b \in B
  <2>1. /\ b \in 1..d - 1 /\ IsBlock(c, b) /\ c[b].k = "class"
        /\ \A j \in b + 1..d : c[j].depth > c[b].depth
    BY DEF BlocksAround, Around
  <2>2. d \in 1..i - 1 /\ \A j \in d + 1..i : c[j].depth > c[d].depth
    BY DEF Around
  <2>3. c[d].depth > c[b].depth /\ b \in 1..Len(c)
    BY <1>1, <2>1
  <2>4. ASSUME NEW j \in b + 1..i PROVE c[j].depth > c[b].depth
    <3>1. CASE j <= d
      BY <1>1, <2>1, <3>1
    <3>2. CASE j > d
      <4>1. c[j].depth > c[d].depth /\ j \in 1..Len(c)
        BY <1>1, <2>1, <2>2, <3>2
      <4> QED
        BY <1>1, <2>3, <4>1
    <3> QED
      BY <1>1, <2>1, <3>1, <3>2
  <2>5. b \in 1..i - 1
    BY <1>1, <2>1, <2>2
  <2> QED
    BY <2>1, <2>4, <2>5 DEF BlocksAround, Around
<1>5. ASSUME NEW b \in B, b < d PROVE b \in D
  <2>1. /\ b \in 1..i - 1 /\ IsBlock(c, b) /\ c[b].k = "class"
        /\ \A j \in b + 1..i : c[j].depth > c[b].depth
    BY DEF BlocksAround, Around
  <2>2. d \in 1..i - 1 /\ b \in 1..d - 1
    BY <1>1, <1>5, <2>1 DEF Around
  <2>3. \A j \in b + 1..d : j \in b + 1..i
    BY <2>2
  <2> QED
    BY <2>1, <2>2, <2>3 DEF BlocksAround, Around
<1>6. d \notin B
  BY <1>1 DEF BlocksAround
<1>7. CASE m > d
  <2>1. m \in B /\ m \notin D
    BY <1>1, <1>2, <1>3, <1>7
  <2>2. D \in SUBSET B /\ D # B
    BY <1>4, <2>1
  <2>3. Cardinality(D) # Cardinality(B)
    BY <1>2, <2>2, FS_Subset
  <2>4. /\ DOMAIN ClassScope(c, i) = 1..Cardinality(B)
        /\ DOMAIN ClassScope(c, d) = 1..Cardinality(D)
    BY NamesAroundAre DEF ClassScope, NamesOf
  <2>5. 1..Cardinality(B) # 1..Cardinality(D)
    BY <1>2, <1>3, <2>3
  <2> QED
    BY <1>7, <2>4, <2>5
<1>8. CASE ~(m > d)
  <2>1. ASSUME NEW b \in B PROVE b < d
    <3>1. b <= m /\ m \in Nat /\ b \in Nat /\ b # d
      BY <1>2, <1>6
    <3> QED
      BY <1>1, <1>8, <3>1
  <2>2. B = D
    BY <1>4, <1>5, <2>1
  <2>3. ClassScope(c, i) = ClassScope(c, d)
    BY <2>2, NamesAroundAre DEF ClassScope
  <2> QED
    BY <1>8, <2>3
<1> QED
  BY <1>7, <1>8

(***************************************************************************)
(* What is said of a line.                                                 *)
(***************************************************************************)
LEMMA KeyForms ==
  ASSUME NEW c, WellFormed(c), NEW obj \in DOMAIN Symbols(c)
  PROVE  \/ obj[1] = "class" /\ obj[2] # None
         \/ obj[1] = "function" /\ obj[2] # None /\ obj[2][Len(obj[2])] \in FuncNames(c)
         \/ obj[1] = "module" /\ obj[2] = None
<1>1. PICK i \in DOMAIN c : obj = TargetKey(c, i)
  BY DEF Symbols
<1>2. i \in 1..Len(c)
  BY TreeFacts
<1>3. ASSUME FunctionScope(c, i) # None
      PROVE  LET s == FunctionScope(c, i) IN s[Len(s)] \in FuncNames(c)
  <2> PICK s, t, b : /\ s = ClassScope(c, i) /\ t = NamesAround(c, i, "def")
                     /\ b = Innermost(c, i, {"def"})
    OBVIOUS
  <2>1. t # None /\ FunctionScope(c, i) = s \o t
    BY <1>3 DEF FunctionScope
  <2>2. List(s) /\ List(t)
    BY <1>2, ScopeIsList
  <2>3. /\ b \in BlocksAround(c, i, "def") /\ Len(t) \in Nat \ {0} /\ t[Len(t)] = c[b].name
    BY <1>2, <2>1, LastName
  <2>4. c[b].name \in FuncNames(c)
    <3>1. b \in 1..i - 1 /\ c[b].k = "def" /\ Len(c) \in Nat /\ DOMAIN c = 1..Len(c)
      BY <2>3, TreeFacts DEF BlocksAround, Around
    <3>2. b \in DOMAIN c
      BY <1>2, <3>1
    <3> QED
      BY <3>1, <3>2 DEF FuncNames, Funcs
  <2> DEFINE S == ToSet(s) \cup ToSet(t)
  <2>5. s \in Seq(S) /\ t \in Seq(S)
    BY <2>2 DEF List
  <2> HIDE DEF S
  <2>6. Len(s \o t) = Len(s) + Len(t) /\ (s \o t)[Len(s) + Len(t)] = t[Len(t)]
    BY <2>3, <2>5
  <2> QED
    BY <2>1, <2>3, <2>4, <2>6
<1> QED
  BY <1>1, <1>3 DEF TargetKey

\* An object and a line of one of its operations, in function d.
LEMMA ForeignLine ==
  ASSUME NEW c, WellFormed(c), NEW obj \in DOMAIN Symbols(c), NEW i \in 1..Len(c),
         NEW d \in Funcs(c), d \in Around(c, i)
  PROVE  LET m == Innermost(c, i, {"class"})
         IN  /\ obj[1] = "module" => ~ForeignHit(c, i, obj)
             /\ obj[1] = "class" /\ obj[2] = ClassScope(c, d) => (ForeignHit(c, i, obj) <=> m > d)
             /\ obj[1] = "function" /\ ~ForeignHit(c, i, obj) =>
                  m # 0 /\ c[m].name \in FuncNames(c)
<1> PICK m : m = Innermost(c, i, {"class"})
  OBVIOUS
<1>1. obj[1] = "module" => ~ForeignHit(c, i, obj)
  BY KeyForms DEF ForeignHit, TargetScope
<1>2. ASSUME obj[1] = "class", obj[2] = ClassScope(c, d)
      PROVE  ForeignHit(c, i, obj) <=> m > d
  <2>1. obj[2] # None
    BY <1>2, KeyForms
  <2> QED
    BY <1>2, <2>1, ClassesAround DEF ForeignHit, TargetScope
<1>3. ASSUME obj[1] = "function", ~ForeignHit(c, i, obj)
      PROVE  m # 0 /\ c[m].name \in FuncNames(c)
  <2> PICK s : s = obj[2]
    OBVIOUS
  <2>1. s # None /\ s[Len(s)] \in FuncNames(c) /\ s = NamesAround(c, i, "class")
    BY <1>3, KeyForms DEF ForeignHit, TargetScope, ClassScope
  <2>2. m # 0 /\ s[Len(s)] = c[m].name
    BY <2>1, LastName
  <2> QED
    BY <2>1, <2>2
<1> QED
  BY <1>1, <1>2, <1>3

(***************************************************************************)
(* The report is of the files as they were read.                           *)
(***************************************************************************)
AsCounted ==
  \A shown \in report : shown.path = LastDone.path =>
    /\ shown.name \in DOMAIN Symbols(code)
    /\ shown.hits = {i \in DOMAIN code : Mentions(code, i, BareName(shown.name))}
    /\ shown.foreign = {i \in shown.hits : ForeignHit(code, i, shown.name)}

Reported ==
  /\ Worded(code) /\ AllInLine /\ ReadAgain
  /\ \A row \in ToSet(csv) : row.type = "wait_for" => ~row.gap
  /\ stage = "inspected" /\ done > 0 => AsCounted

LEMMA ReportedShows ==
  ASSUME PInv, Reported
  PROVE  InspectShowsUses
<1>1. /\ WellFormed(code) /\ Ops /\ DOMAIN program.ops = FuncNames(code) /\ AllInLine
      /\ Len(code) \in Nat /\ DOMAIN code = 1..Len(code)
  BY TreeFacts DEF PInv, Visiting, Ops, Reported
<1>2. SUFFICES ASSUME stage = "inspected", done > 0, NEW shown \in report,
                      shown.path = LastDone.path
               PROVE
    LET uses == {i \in DOMAIN code : code[i].k # "end" /\ \E name \in DOMAIN program.ops :
                   \E op \in OpsOf(program, name) : op.line = i /\ op.obj = shown.name}
        classOf(i) == Innermost(code, i, {"class"})
    IN  /\ uses \subseteq shown.hits
        /\ CASE shown.name[1] = "module" -> uses \cap shown.foreign = {}
             [] shown.name[1] = "class" ->
                  uses \cap shown.foreign = {i \in uses : classOf(i) > DefAround(code, i)}
             [] shown.name[1] = "function" ->
                  \A i \in uses \ shown.foreign :
                    classOf(i) # 0 /\ code[classOf(i)].name \in FuncNames(code)
  BY DEF InspectShowsUses
<1> PICK obj : obj = shown.name
  OBVIOUS
<1>3. /\ obj \in DOMAIN Symbols(code)
      /\ shown.hits = {i \in DOMAIN code : Mentions(code, i, obj[3])}
      /\ shown.foreign = {i \in shown.hits : ForeignHit(code, i, obj)}
  BY <1>2 DEF Reported, AsCounted, BareName
<1> DEFINE uses == {i \in DOMAIN code : code[i].k # "end" /\ \E name \in DOMAIN program.ops :
                      \E op \in OpsOf(program, name) : op.line = i /\ op.obj = obj}
           classOf(i) == Innermost(code, i, {"class"})
<1>4. obj # None
  <2>1. PICK i \in DOMAIN code : obj = TargetKey(code, i)
    BY <1>3 DEF Symbols
  <2>2. \E x, y, z : obj = <<x, y, z>>
    BY <2>1 DEF TargetKey
  <2> QED
    BY <2>2 DEF None
<1>5. ASSUME NEW i \in uses
      PROVE  /\ i \in 1..Len(code) /\ i \in shown.hits
             /\ DefAround(code, i) \in Funcs(code) /\ DefAround(code, i) \in Around(code, i)
             /\ OwnObject(obj, DefAround(code, i))
  <2>0. PICK name \in FuncNames(code) : \E op \in OpsOf(program, name) : op.line = i /\ op.obj = obj
    BY <1>1
  <2>1. PICK op \in OpsOf(program, name) : op.line = i /\ op.obj = obj /\ code[i].k # "end"
    BY <2>0
  <2>2. List(program.ops[name])
    BY <1>1 DEF Ops
  <2>3. PICK k \in 1..Len(program.ops[name]) : op = program.ops[name][k]
    BY <2>2, ListFacts DEF OpsOf
  <2>4. Placed(op) /\ Scoped(op, name) /\ InItsLine(code, op)
    BY <1>1, <2>3 DEF Ops, AllInLine
  <2>5. i \in 1..Len(code) /\ i \in shown.hits
    BY <1>1, <1>3, <1>4, <2>1, <2>4 DEF InItsLine
  <2>6. DefAround(code, i) \in Funcs(code) /\ OwnObject(obj, DefAround(code, i))
    BY <1>4, <2>1, <2>4 DEF Scoped
  <2>7. DefAround(code, i) \in Around(code, i)
    <3>1. PICK v \in visited : i \in Inside(code, v)
      BY <2>1, <2>4 DEF Placed
    <3>2. v \in Funcs(code)
      BY DEF PInv, Visiting, Covered
    <3>3. v \in Around(code, i)
      BY <1>1, <3>1, <3>2, TreeFacts, InsideIsAround
    <3> QED
      BY <1>1, <2>5, <3>2, <3>3, InnermostDef
  <2> QED
    BY <2>5, <2>6, <2>7
<1> HIDE DEF uses
<1>6. ASSUME NEW i \in uses
      PROVE  /\ i \in shown.foreign <=> ForeignHit(code, i, obj)
             /\ obj[1] = "module" => ~ForeignHit(code, i, obj)
             /\ obj[1] = "class" => (ForeignHit(code, i, obj) <=> classOf(i) > DefAround(code, i))
             /\ obj[1] = "function" /\ ~ForeignHit(code, i, obj) =>
                  classOf(i) # 0 /\ code[classOf(i)].name \in FuncNames(code)
  <2> PICK d : d = DefAround(code, i)
    OBVIOUS
  <2>1. /\ i \in 1..Len(code) /\ i \in shown.hits /\ d \in Funcs(code) /\ d \in Around(code, i)
        /\ OwnObject(obj, d)
    BY <1>5
  <2>2. obj[1] = "class" => obj[2] = ClassScope(code, d)
    BY <2>1 DEF OwnObject
  <2>3. i \in shown.foreign <=> ForeignHit(code, i, obj)
    BY <1>3, <2>1
  <2> QED
    BY <1>1, <1>3, <2>1, <2>2, <2>3, ForeignLine
<1> HIDE DEF classOf
<1>7. uses \subseteq shown.hits
  BY <1>5
<1>8. CASE obj[1] = "module"
  BY <1>6, <1>7, <1>8 DEF uses
<1>9. CASE obj[1] = "class"
  <2>1. uses \cap shown.foreign = {i \in uses : classOf(i) > DefAround(code, i)}
    BY <1>6, <1>9
  <2> QED
    BY <1>7, <1>9, <2>1 DEF uses, classOf
<1>10. CASE obj[1] = "function"
  <2>1. \A i \in uses \ shown.foreign : classOf(i) # 0 /\ code[classOf(i)].name \in FuncNames(code)
    BY <1>6, <1>10
  <2> QED
    BY <1>7, <1>10, <2>1 DEF uses, classOf
<1> QED
  BY <1>1, <1>3, <1>8, <1>9, <1>10, KeyForms

LEMMA CorpusWorded ==
  ASSUME NEW files \in Corpora, NEW j \in 1..Len(files)
  PROVE  Worded(files[j].code)
<1> PICK c : c = files[j].code
  OBVIOUS
<1>1. j \in DOMAIN files
  BY CorpusFacts, ListFacts
<1>2. /\ WellCalled(c)
      /\ \A i \in DOMAIN c :
           c[i].k = "async_with" => c[i].obj \in Seq(ToSet(c[i].obj)) \ {None}
  BY <1>1, CorporaAssumption
<1>3. ASSUME NEW i \in DOMAIN c, IsCall(c, i)
      PROVE  c[i].f \in Seq(ToSet(c[i].f)) \ {None} /\ 0 \in CallsOf(c, i)
  <2>1. 0 \in CallsOf(c, i)
    BY <1>2, <1>3, CallNumbers
  <2> PICK f : f = CallAt(c, i, 0).f
    OBVIOUS
  <2>2. f \in Seq(ToSet(f)) \ {None}
    BY <1>2, <2>1 DEF WellCalled
  <2>3. f = c[i].f
    BY DEF CallAt
  <2> QED BY <2>1, <2>2, <2>3
<1> QED
  BY <1>2, <1>3 DEF Worded, List

LEMMA InspectGapsReports ==
  ASSUME PInv, Reported, InspectGaps
  PROVE  Reported'
<1>1. /\ stage = "idle" /\ stage' = "inspected" /\ code' = code /\ program' = program
      /\ corpus' = corpus /\ done' = done /\ csv' = csv
      /\ report' = {Shown(row) : row \in {r \in ToSet(csv) : r.gap}}
  BY DEF InspectGaps, extractVars
<1>2. Worded(code)' /\ AllInLine' /\ ReadAgain'
  BY <1>1 DEF Reported, AllInLine, ReadAgain
<1>3. ASSUME done > 0, NEW shown \in report', shown.path = LastDone.path
      PROVE  /\ shown.name \in DOMAIN Symbols(code)
             /\ shown.hits = {i \in DOMAIN code : Mentions(code, i, BareName(shown.name))}
             /\ shown.foreign = {i \in shown.hits : ForeignHit(code, i, shown.name)}
  <2>1. PICK row \in ToSet(csv) : row.gap /\ shown = Shown(row)
    BY <1>1
  <2>2. row.type # "wait_for"
    BY <2>1 DEF Reported
  <2>3. shown.path = row.path /\ shown.name = row.name
    BY <2>1 DEF Shown
  <2>4. row.name \in DOMAIN Symbols(code)
    BY <1>1, <1>3, <2>2, <2>3 DEF PInv, RowsCounted
  <2>5. CodeOf(row.path) = code
    <3>1. /\ corpus \in Corpora /\ done \in 1..Len(corpus) /\ DOMAIN corpus = 1..Len(corpus)
          /\ \A i, j \in 1..Len(corpus) : corpus[i].path = corpus[j].path => i = j
      <4>1. corpus \in Corpora /\ done \in 0..Len(corpus)
        BY DEF PInv, Types
      <4> QED
        BY <1>3, <4>1, CorpusFacts, ListFacts
    <3>2. corpus[done].path = row.path
      BY <1>3, <2>3 DEF LastDone
    <3>3. (CHOOSE j \in DOMAIN corpus : corpus[j].path = row.path) = done
      BY <3>1, <3>2
    <3> QED
      BY <1>1, <1>3, <3>3 DEF CodeOf, Reported, ReadAgain
  <2> QED
    BY <2>1, <2>3, <2>4, <2>5 DEF Shown
<1>4. stage' = "inspected" /\ done' > 0 => AsCounted'
  BY <1>1, <1>3 DEF AsCounted, LastDone
<1> QED
  BY <1>1, <1>2, <1>4 DEF Reported

LEMMA ReportedStep ==
  ASSUME PInv, Reported, [Next]_vars
  PROVE  Reported'
<1>1. CASE NextFile
  <2> PICK c : c = corpus[done + 1].code
    OBVIOUS
  <2>1. /\ stage' = "extract" /\ code' = c /\ program' = EmptyProgram(c)
        /\ corpus' = corpus /\ done' = done /\ csv' = csv /\ done < Len(corpus)
    BY <1>1 DEF NextFile, BeginExtract, sweepVars
  <2>2. Worded(c)
    <3>1. corpus \in Corpora /\ done \in 0..Len(corpus) /\ Len(corpus) \in Nat
      BY CorpusFacts DEF PInv, Types
    <3>2. done + 1 \in 1..Len(corpus)
      BY <2>1, <3>1
    <3> QED
      BY <3>1, <3>2, CorpusWorded
  <2>3. AllInLine'
    <3>1. \A name \in FuncNames(code') : Len(program'.ops[name]) = 0
      BY <2>1 DEF EmptyProgram
    <3> QED
      BY <3>1 DEF AllInLine
  <2> QED
    BY <2>1, <2>2, <2>3 DEF Reported, ReadAgain
<1>2. CASE VisitFile
  <2>1. /\ stage = "extract" /\ Visit /\ stage' = "extract" /\ corpus' = corpus
        /\ done' = done /\ csv' = csv
    BY <1>2 DEF VisitFile, sweepVars
  <2>2. code' = code /\ AllInLine'
    BY <2>1, VisitInLine, VisitKeeps DEF PInv, Reported, Untouched
  <2> QED
    BY <2>1, <2>2 DEF Reported, ReadAgain
<1>3. CASE Extracted
  <2>1. /\ stage = "extract" /\ EndExtract /\ stage' = "extracted" /\ corpus' = corpus
        /\ done' = done /\ csv' = csv
    BY <1>3 DEF Extracted, sweepVars
  <2>2. code' = code /\ program'.ops = program.ops
    BY <2>1, EndExtractKeeps DEF PInv, Untouched
  <2>3. AllInLine'
    BY <2>2, InLineKept DEF Reported
  <2> QED
    BY <2>1, <2>2, <2>3 DEF Reported, ReadAgain
<1>4. CASE ApplyPublicConcurrentAssumption
  <2>1. /\ stage = "extracted" /\ stage' = "ready" /\ code' = code /\ corpus' = corpus
        /\ done' = done /\ csv' = csv
        /\ program' = program \/ \E targets : program' = Assumed(program, targets)
    BY <1>4 DEF ApplyPublicConcurrentAssumption, sweepVars
  <2>2. program'.ops = program.ops
    <3>1. DOMAIN program = Fields
      BY DEF PInv, Visiting, Shape
    <3> QED
      BY <2>1, <3>1 DEF Assumed, Fields
  <2>3. AllInLine'
    BY <2>1, <2>2, InLineKept DEF Reported
  <2> QED
    BY <2>1, <2>3 DEF Reported, ReadAgain
<1>5. CASE CheckRaises
  <2>1. /\ stage = "ready" /\ stage' = "idle" /\ code' = code /\ program' = program
        /\ corpus' = corpus /\ done' = done + 1 /\ csv' = csv
    BY <1>5 DEF CheckRaises, extractVars
  <2> QED
    BY <2>1 DEF Reported, ReadAgain, AllInLine
<1>6. CASE CheckAndExport
  <2>1. /\ stage = "ready" /\ stage' = "idle" /\ code' = code /\ program' = program
        /\ corpus' = corpus /\ done' = done + 1 /\ csv' = csv \o Rows
    BY <1>6 DEF CheckAndExport, extractVars
  <2>2. ASSUME NEW row \in ToSet(csv'), row.type = "wait_for" PROVE ~row.gap
    <3>1. List(csv) /\ List(Rows)
      BY RowsAre DEF PInv, Types
    <3>2. row \in ToSet(csv) \/ row \in ToSet(Rows)
      BY <2>1, <3>1, ListJoin
    <3>3. CASE row \in ToSet(Rows)
      <4>1. ASSUME NEW obj \in program.sync, row = ObjectRow(obj) PROVE FALSE
        <5>1. row.type \in {"LOCK", "QUEUE", "EVENT"}
          BY <4>1, KindIs DEF ObjectRow, KindOf, PInv, Visiting, Shape
        <5> QED
          BY <2>2, <5>1
      <4> QED
        BY <3>3, <4>1, RowsAre DEF PInv
    <3> QED
      BY <2>2, <3>2, <3>3 DEF Reported
  <2> QED
    BY <2>1, <2>2 DEF Reported, ReadAgain, AllInLine
<1>7. CASE InspectGaps
  BY <1>7, InspectGapsReports
<1>8. CASE UNCHANGED vars
  <2>1. /\ stage' = stage /\ code' = code /\ program' = program /\ csv' = csv
        /\ corpus' = corpus /\ done' = done /\ report' = report
    BY <1>8 DEF vars, extractVars
  <2> QED
    BY <2>1 DEF Reported, ReadAgain, AllInLine, AsCounted, LastDone
<1> QED
  BY <1>1, <1>2, <1>3, <1>4, <1>5, <1>6, <1>7, <1>8 DEF Next, Finished

(* The report has each line in which the object of a gap is used.  Whether *)
(* it says of a line that it is another object's is decided by the class   *)
(* around the line: rightly for attributes, but for classes in functions;  *)
(* wrongly for all lines of a local object, but for those in classes that  *)
(* are called like a function.                                             *)
THEOREM ReportShowsUses == Spec => []InspectShowsUses
<1>1. Init => Reported
  BY DEF Init, Reported, Worded, AllInLine, ReadAgain, FuncNames, Funcs, ToSet
<1>2. PInv /\ Reported /\ [Next]_vars => Reported'
  BY ReportedStep
<1> QED
  BY <1>1, <1>2, ReportedShows, PipelineInvariant, PTL DEF Spec
-----------------------------------------------------------------------------
(***************************************************************************)
(* The corpus study: its figures and its files.                            *)
(***************************************************************************)
(* The files on the disk are about repositories of the world.              *)
LEMMA TypeStays == TypeOK /\ [BuildNext]_buildVars => TypeOK'
<1> SUFFICES ASSUME TypeOK, [BuildNext]_buildVars PROVE TypeOK'
  OBVIOUS
<1>1. CASE Make
  BY <1>1 DEF Make, TypeOK
<1>2. CASE Clone
  <2>1. todo' \subseteq DOMAIN world /\ cloned' \subseteq DOMAIN world
    BY <1>2 DEF Clone, TypeOK
  <2> QED BY <1>2, <2>1 DEF Clone, TypeOK
<1>3. CASE Imported \/ Interrupt
  BY <1>3 DEF Imported, Interrupt, disk, TypeOK
<1>4. CASE RemoveBranch \/ RemoveRefined \/ RemoveResults
  BY <1>4 DEF RemoveBranch, RemoveRefined, RemoveResults, TypeOK
<1>5. CASE RemovePie \/ RemoveSankey
  BY <1>5 DEF RemovePie, RemoveSankey, TypeOK
<1>6. CASE ScanNext \/ Scanned
  BY <1>6 DEF ScanNext, Scanned, disk, TypeOK
<1>7. CASE Refine
  BY <1>7 DEF Refine, TypeOK
<1>8. CASE BranchCheck
  <2>1. branch' \subseteq DOMAIN world
    BY <1>8 DEF BranchCheck, TypeOK
  <2> QED BY <1>8, <2>1 DEF BranchCheck, TypeOK
<1>9. CASE MakeSankey
  BY <1>9 DEF MakeSankey, TypeOK
<1>10. CASE CorpusPie
  <2>1. pie' \in BOOLEAN
    BY <1>10 DEF CorpusPie
  <2> QED BY <1>10, <2>1 DEF CorpusPie, TypeOK
<1>11. CASE UNCHANGED buildVars
  BY <1>11 DEF buildVars, disk, TypeOK
<1> QED
  BY <1>1, <1>2, <1>3, <1>4, <1>5, <1>6, <1>7, <1>8, <1>9, <1>10, <1>11 DEF BuildNext

(* The files that make corpus keeps on the disk are what they should be,   *)
(* in whatever line it was stopped.                                        *)
THEOREM TypeCorrect == BuildSpec => []TypeOK
<1>1. BuildInit => TypeOK
  BY DEF BuildInit, TypeOK
<1> QED BY <1>1, TypeStays, PTL DEF BuildSpec

(* While a figure is missing the recipe does not get past its removal.     *)
Lost ==
  \/ ~(pie /\ sankey) /\ line \in {"idle", "import", "rm_branch", "rm_refined", "rm_results",
                                   "rm_pie"}
  \/ ~sankey /\ line = "rm_sankey"

Missed == importDir /\ line # "import" /\ cloned # DOMAIN world

LEMMA LostStays == Lost /\ [BuildNext]_buildVars => Lost'
<1> SUFFICES ASSUME Lost, [BuildNext]_buildVars PROVE Lost'
  OBVIOUS
<1>1. CASE RemovePie
  BY <1>1 DEF RemovePie, Lost
<1>2. CASE RemoveSankey
  BY <1>2 DEF RemoveSankey, Lost
<1>3. CASE Make \/ Clone \/ Imported
  BY <1>3 DEF Make, Clone, Imported, Lost, disk
<1>4. CASE RemoveBranch \/ RemoveRefined \/ RemoveResults
  BY <1>4 DEF RemoveBranch, RemoveRefined, RemoveResults, Lost
<1>5. CASE ScanNext \/ Scanned \/ Refine \/ BranchCheck \/ MakeSankey \/ CorpusPie
  BY <1>5 DEF ScanNext, Scanned, Refine, BranchCheck, MakeSankey, CorpusPie, Lost
<1>6. CASE Interrupt
  BY <1>6 DEF Interrupt, Lost, disk
<1>7. CASE UNCHANGED buildVars
  BY <1>7 DEF buildVars, disk, Lost
<1> QED BY <1>1, <1>2, <1>3, <1>4, <1>5, <1>6, <1>7 DEF BuildNext

LEMMA MissedStays == Missed /\ [BuildNext]_buildVars => Missed'
<1> SUFFICES ASSUME Missed, [BuildNext]_buildVars PROVE Missed'
  OBVIOUS
<1>1. CASE Make
  BY <1>1 DEF Make, Missed
<1>2. CASE Clone \/ Imported
  BY <1>2 DEF Clone, Imported, Missed
<1>3. CASE RemoveBranch \/ RemoveRefined \/ RemoveResults \/ RemovePie \/ RemoveSankey
  BY <1>3 DEF RemoveBranch, RemoveRefined, RemoveResults, RemovePie, RemoveSankey, Missed
<1>4. CASE ScanNext \/ Scanned \/ Refine \/ BranchCheck \/ MakeSankey \/ CorpusPie
  BY <1>4 DEF ScanNext, Scanned, Refine, BranchCheck, MakeSankey, CorpusPie, Missed, disk
<1>5. CASE Interrupt \/ UNCHANGED buildVars
  BY <1>5 DEF Interrupt, buildVars, disk, Missed
<1> QED BY <1>1, <1>2, <1>3, <1>4, <1>5 DEF BuildNext

(* What a failed or interrupted run of the target has lost, a figure or a  *)
(* repository that was not cloned, no later run makes up for.              *)
THEOREM NothingIsMadeUpFor == BuildSpec => LostForGood
<1>1. line = "idle" /\ ~(pie /\ sankey) => Lost
  BY DEF Lost
<1>2. Lost => ~(pie /\ sankey)
  BY DEF Lost
<1>3. [][BuildNext]_buildVars => [](line = "idle" /\ ~(pie /\ sankey) => []~(pie /\ sankey))
  BY <1>1, <1>2, LostStays, PTL
<1>4. importDir /\ line # "import" /\ cloned # DOMAIN world => Missed
  BY DEF Missed
<1>5. Missed => cloned # DOMAIN world
  BY DEF Missed
<1>6. [][BuildNext]_buildVars => [](importDir /\ line # "import" /\ cloned # DOMAIN world
                             => [](cloned # DOMAIN world))
  BY <1>4, <1>5, MissedStays, PTL
<1> QED BY <1>3, <1>6, PTL DEF BuildSpec, LostForGood

(* The figures are about one run: when the pie is drawn there are results  *)
(* of exactly the clones, refine.py has read all of them, and              *)
(* branch_check.py those with destructive names.                           *)
OneRun ==
  line = "pie" => /\ results = cloned /\ refined = cloned
                  /\ branch = {repo \in cloned : HasDestructiveNames(world[repo])}

(* How far the run has brought the files on the disk, line by line.        *)
Progress ==
  /\ line \in {"rm_pie", "rm_sankey", "scan"} => results \subseteq cloned
  /\ line \in {"refine", "branch", "sankey", "pie"} => results = cloned
  /\ line \in {"branch", "sankey", "pie"} => refined = cloned
  /\ line \in {"sankey", "pie"} =>
       branch = {repo \in cloned : HasDestructiveNames(world[repo])}

LEMMA ProgressStays == Progress /\ [BuildNext]_buildVars => Progress'
<1> SUFFICES ASSUME Progress, [BuildNext]_buildVars PROVE Progress'
  OBVIOUS
<1>1. CASE Make \/ Clone \/ Imported \/ Interrupt
  BY <1>1 DEF Make, Clone, Imported, Interrupt, disk, Progress
<1>2. CASE RemoveBranch \/ RemoveRefined \/ RemoveResults \/ RemovePie \/ RemoveSankey
  BY <1>2 DEF RemoveBranch, RemoveRefined, RemoveResults, RemovePie, RemoveSankey, Progress
<1>3. CASE ScanNext \/ Scanned
  BY <1>3 DEF ScanNext, Scanned, disk, Progress
<1>4. CASE Refine
  BY <1>4 DEF Refine, Progress
<1>5. CASE BranchCheck
  <2>1. results \cap cloned = cloned
    BY <1>5 DEF BranchCheck, Progress
  <2> QED BY <1>5, <2>1 DEF BranchCheck, Progress
<1>6. CASE MakeSankey \/ CorpusPie
  BY <1>6 DEF MakeSankey, CorpusPie, Progress
<1>7. CASE UNCHANGED buildVars
  BY <1>7 DEF buildVars, disk, Progress
<1> QED BY <1>1, <1>2, <1>3, <1>4, <1>5, <1>6, <1>7 DEF BuildNext

(* The figures are drawn from results, buckets and split of one run: of    *)
(* exactly the repositories that are cloned.                               *)
THEOREM FiguresOfOneRun == BuildSpec => []OneRun
<1>1. BuildInit => Progress
  BY DEF BuildInit, Progress
<1>2. Progress => OneRun
  BY DEF Progress, OneRun
<1> QED BY <1>1, <1>2, ProgressStays, PTL DEF BuildSpec

(***************************************************************************)
(* The split of the destructive interactions.                              *)
(***************************************************************************)
(* A name that scan.py finds shared is shared for branch_check.py too,     *)
(* unless it is also an attribute of a dict.                               *)
LEMMA SharedAsGuard ==
  ASSUME NEW c, NEW d, NEW e, NEW key \in SharedKey(c, d, e, BUILTINS)
  PROVE  \/ key \in SharedKey(c, d, e, DICT_ATTRIBUTES)
         \/ key[1] # "SELF_ATTR" /\ key[2] \in DICT_ATTRIBUTES
<1> DEFINE name == Head(e)
           local == CollectLocalBinds(c, d)
           more == ImportNames(c) \cup {"self", "cls"}
           closure == \E outer \in EnclosingFunctions(c, d) : name \in CollectLocalBinds(c, outer)
           of(builtins) ==
             CASE e = None -> {}
               [] OwnAttr(e) -> {<<"SELF_ATTR", e[2]>>}
               [] e # None /\ ~OwnAttr(e) /\ name \notin local \cup builtins \cup more /\ closure ->
                    {<<"CLOSURE", name>>}
               [] e # None /\ ~OwnAttr(e) /\ name \notin local \cup builtins \cup more /\ ~closure
                    /\ name \in ModuleNames(c) -> {<<"GLOBAL", name>>}
               [] OTHER -> {}
<1>1. ASSUME NEW builtins PROVE SharedKey(c, d, e, builtins) = of(builtins)
  BY DEF SharedKey
<1> HIDE DEF closure, local, more, name
<1>2. CASE e = None
  BY <1>1, <1>2
<1>3. CASE e # None /\ OwnAttr(e)
  BY <1>1, <1>3
<1>4. CASE e # None /\ ~OwnAttr(e)
  <2>1. name \notin local \cup BUILTINS \cup more
    BY <1>1, <1>4
  <2>2. CASE name \in DICT_ATTRIBUTES
    <3>1. key = <<"CLOSURE", name>> \/ key = <<"GLOBAL", name>>
      BY <1>1, <1>4
    <3> QED BY <2>2, <3>1
  <2>3. CASE name \notin DICT_ATTRIBUTES
    <3>1. name \notin local \cup DICT_ATTRIBUTES \cup more
      BY <2>1, <2>3
    <3> QED BY <1>1, <1>4, <2>1, <3>1
  <2> QED BY <2>2, <2>3
<1> QED BY <1>2, <1>3, <1>4

(* An interaction in a condition: where it stands.                         *)
LEMMA TestAccess ==
  ASSUME NEW repo, IsRepo(repo), NEW y \in ScanRepo(repo), y.access.slot = "test"
  PROVE  LET c == repo[y.file].code
             i == y.access.line
         IN  /\ y.file \in DOMAIN repo /\ repo[y.file].where = "source"
             /\ i \in DOMAIN c /\ FnOf(c, i) \in AsyncFunctions(c) /\ c[i].k \in CONDITIONS
             /\ \E e \in c[i].test : y.access.key \in SharedKey(c, FnOf(c, i), e, BUILTINS)
<1>1. PICK j \in {n \in DOMAIN repo : repo[n].where = "source"} :
        \E a \in ScanFile(repo[j].code) : y = [file |-> j, access |-> a]
  BY DEF ScanRepo
<1> DEFINE c == repo[j].code
<1>2. PICK a \in ScanFile(c) : y = [file |-> j, access |-> a]
  BY <1>1
<1>3. a.slot = "test" /\ y.file = j /\ y.access = a
  BY <1>2
<1>4. PICK i \in {n \in DOMAIN c : FnOf(c, n) \in AsyncFunctions(c)} :
        a \in TargetAccesses(c, i) \cup CallAccesses(c, i) \cup ReadAccesses(c, i)
  BY <1>2 DEF ScanFile
<1>5. ASSUME NEW slot, NEW e, NEW form, NEW safe, a \in Accesses(c, i, slot, e, form, safe)
      PROVE  a.slot = slot /\ a.line = i /\ a.key \in SharedKey(c, FnOf(c, i), e, BUILTINS)
  BY <1>5 DEF Accesses
<1>6. ASSUME NEW slot, slot # "test", NEW e, NEW form, NEW safe
      PROVE  a \notin Accesses(c, i, slot, e, form, safe)
  BY <1>3, <1>5, <1>6
<1>7. c[i].test # {} => c[i].k \in CONDITIONS
  <2>1. j \in DOMAIN repo /\ i \in DOMAIN c
    BY <1>1, <1>4
  <2> QED BY <2>1 DEF IsRepo, IsFile
<1> HIDE DEF c
<1>8. a \notin TargetAccesses(c, i)
  <2>1. a \notin Accesses(c, i, "target", c[i].to, FormOfTarget(c[i].k), FALSE)
    BY <1>6
  <2>2. a \notin Accesses(c, i, "target", c[i].to, "read", FALSE)
    BY <1>6
  <2> QED BY <2>1, <2>2 DEF TargetAccesses
<1>9. a \notin CallAccesses(c, i)
  <2> DEFINE safe == Last(c[i].f) \in MEDIATING_METHODS /\ Last(Front(c[i].f)) \in SyncHinted
  <2>1. a \notin Accesses(c, i, "call", Front(c[i].f), FormOfCall(Last(c[i].f)), safe)
    BY <1>6
  <2>2. a \notin Accesses(c, i, "read", c[i].f, "read", FALSE)
    BY <1>6
  <2> QED BY <2>1, <2>2 DEF CallAccesses
<1>10. a \notin Accesses(c, i, "from", c[i].from, "read", FALSE)
  BY <1>6
<1>11. PICK e \in c[i].test : a \in Accesses(c, i, "test", e, "read", FALSE)
  BY <1>4, <1>8, <1>9, <1>10 DEF ReadAccesses
<1> USE DEF c
<1>12. a.line = i /\ a.key \in SharedKey(c, FnOf(c, i), e, BUILTINS)
  BY <1>5, <1>11
<1> QED BY <1>1, <1>3, <1>4, <1>7, <1>11, <1>12

(* What is split as data is in no condition, and what is split as bounded  *)
(* in none of a while.                                                     *)
LEMMA SplitAsCondition ==
  ASSUME NEW repo, IsRepo(repo), NEW y \in ScanRepo(repo), y.access.slot = "test",
         NEW key, y.access.key = key, ~(key[1] # "SELF_ATTR" /\ key[2] \in DICT_ATTRIBUTES)
  PROVE  /\ SplitOf(repo, key) # "data"
         /\ SplitOf(repo, key) = "bounded" => repo[y.file].code[y.access.line].k # "while"
<1> DEFINE c == repo[y.file].code
           i == y.access.line
<1>1. PICK e \in c[i].test : key \in SharedKey(c, FnOf(c, i), e, BUILTINS)
  BY TestAccess
<1>2. key \in SharedKey(c, FnOf(c, i), e, DICT_ATTRIBUTES)
  BY <1>1, SharedAsGuard
<1>3. ASSUME NEW kinds, c[i].k \in kinds PROVE key \in GuardNames(repo, kinds)
  <2>1. y.file \in {n \in DOMAIN repo : repo[n].where \in {"source", "excluded"}}
    BY TestAccess
  <2>2. i \in {n \in DOMAIN c : c[n].k \in kinds /\ FnOf(c, n) \in AsyncFunctions(c)}
    BY TestAccess, <1>3
  <2>3. key \in UNION {SharedKey(c, FnOf(c, i), b, DICT_ATTRIBUTES) : b \in c[i].test}
    BY <1>2
  <2>4. key \in UNION {UNION {SharedKey(c, FnOf(c, n), b, DICT_ATTRIBUTES) : b \in c[n].test} :
                         n \in {n \in DOMAIN c : /\ c[n].k \in kinds
                                                 /\ FnOf(c, n) \in AsyncFunctions(c)}}
    BY <2>2, <2>3
  <2> QED BY <2>1, <2>4 DEF GuardNames
<1>4. c[i].k \in CONDITIONS
  BY TestAccess
<1> QED BY <1>3, <1>4 DEF SplitOf

(* The split errs on the safe side only, whatever the repositories hold:   *)
(* what is flagged as data is in no condition, and what is called bounded  *)
(* in none of a while, except names that are also methods of a dict.       *)
THEOREM SplitErrsOnTheSafeSide == BuildSpec => []SplitIsConservative
<1> DEFINE Inv == TypeOK /\ Progress
<1>1. BuildInit => Inv
  BY DEF BuildInit, TypeOK, Progress
<1>2. Inv /\ [BuildNext]_buildVars => Inv'
  BY TypeStays, ProgressStays
<1>3. Inv => SplitIsConservative
  <2> SUFFICES ASSUME Inv, line = "sankey", NEW r \in branch,
                      NEW x \in Flagged(world[r], "data") \cup Flagged(world[r], "bounded"),
                      NEW y \in ScanRepo(world[r]),
                      y.access.slot = "test", y.access.key = x.access.key,
                      ~(x.access.key[1] # "SELF_ATTR" /\ x.access.key[2] \in DICT_ATTRIBUTES)
               PROVE  /\ x \in Flagged(world[r], "bounded")
                      /\ world[r][y.file].code[y.access.line].k # "while"
    BY DEF SplitIsConservative
  <2>1. IsRepo(world[r])
    BY WorldsAssumption DEF TypeOK, Progress
  <2>2. ASSUME NEW split, x \in Flagged(world[r], split) PROVE SplitOf(world[r], x.access.key) = split
    BY <2>2 DEF Flagged
  <2> QED BY <2>1, <2>2, SplitAsCondition
<1> QED BY <1>1, <1>2, <1>3, PTL DEF BuildSpec

(***************************************************************************)
(* Sums.                                                                   *)
(***************************************************************************)
\* The members of the sets F[r], each with its r.
Tagged(F, S) == UNION {{<<r, x>> : x \in F[r]} : r \in S}

LEMMA TaggedStep ==
  ASSUME NEW S, NEW F, IsFiniteSet(Tagged(F, S)), NEW r, r \notin S, IsFiniteSet(F[r])
  PROVE  /\ IsFiniteSet(Tagged(F, S \cup {r}))
         /\ Cardinality(Tagged(F, S \cup {r})) = Cardinality(F[r]) + Cardinality(Tagged(F, S))
<1> DEFINE T == {r} \X F[r]
<1>1. IsFiniteSet({r}) /\ Cardinality({r}) = 1
  BY FS_Singleton
<1>2. IsFiniteSet(T) /\ Cardinality(T) = 1 * Cardinality(F[r])
  BY <1>1, FS_Product
<1>3. Cardinality(F[r]) \in Nat /\ Cardinality(Tagged(F, S)) \in Nat
  BY FS_CardinalityType
<1>4. Tagged(F, S \cup {r}) = Tagged(F, S) \cup T
  BY DEF Tagged
<1>5. Tagged(F, S) \cap T = {}
  BY DEF Tagged
<1> HIDE DEF T
<1>6. /\ IsFiniteSet(Tagged(F, S) \cup T)
      /\ Cardinality(Tagged(F, S) \cup T) = Cardinality(Tagged(F, S)) + Cardinality(T) - Cardinality({})
  BY <1>2, <1>5, FS_Union
<1>7. Cardinality({}) = 0
  BY FS_EmptySet
<1>8. Cardinality(T) = Cardinality(F[r])
  BY <1>2, <1>3
<1>9. Cardinality(Tagged(F, S) \cup T) = Cardinality(F[r]) + Cardinality(Tagged(F, S))
  BY <1>3, <1>6, <1>7, <1>8
<1> QED
  BY <1>4, <1>6, <1>9

\* An induction over the subsets of a finite set.
LEMMA SubsetInduction ==
  ASSUME NEW S, IsFiniteSet(S), NEW P \in SUBSET SUBSET S, {} \in P,
         \A s \in SUBSET S : s # {} /\ (\E r \in s : s \ {r} \in P) => s \in P
  PROVE  P = SUBSET S
<1> DEFINE U == (SUBSET S) \ P
<1>1. SUFFICES ASSUME U # {} PROVE FALSE
  OBVIOUS
<1>2. U \in SUBSET SUBSET S
  OBVIOUS
<1>3. PICK s \in U : \A r \in s : s \ {r} \notin U
  BY <1>1, <1>2, MinimalSet
<1>4. s # {} /\ s \in SUBSET S
  BY <1>3
<1>5. PICK r \in s : TRUE
  BY <1>4
<1>6. s \ {r} \in SUBSET S
  BY <1>4
<1>7. s \ {r} \in P
  BY <1>3, <1>5, <1>6
<1> QED
  BY <1>3, <1>4, <1>5, <1>7

LEMMA TaggedFinite ==
  ASSUME NEW S, IsFiniteSet(S), NEW F, \A r \in S : IsFiniteSet(F[r])
  PROVE  \A s \in SUBSET S : IsFiniteSet(Tagged(F, s))
<1> DEFINE P == {s \in SUBSET S : IsFiniteSet(Tagged(F, s))}
<1>1. {} \in P
  <2>1. Tagged(F, {}) = {}
    BY DEF Tagged
  <2> QED BY <2>1, FS_EmptySet
<1>2. ASSUME NEW s \in SUBSET S, NEW r \in s, s \ {r} \in P PROVE s \in P
  <2>1. (s \ {r}) \cup {r} = s
    OBVIOUS
  <2> QED BY <1>2, <2>1, TaggedStep
<1>3. P \in SUBSET SUBSET S
  OBVIOUS
<1>4. \A s \in SUBSET S : s # {} /\ (\E r \in s : s \ {r} \in P) => s \in P
  BY <1>2
<1> HIDE DEF P
<1>5. P = SUBSET S
  BY <1>1, <1>3, <1>4, SubsetInduction
<1> QED BY <1>5 DEF P

\* h sums up the sizes of the F[r] as a fold does that takes c[s] out of s first.
Sums(F, S, c, h) ==
  /\ \A s \in SUBSET S : s # {} => c[s] \in s
  /\ h = [s \in SUBSET S |-> IF s = {} THEN 0 ELSE Cardinality(F[c[s]]) + h[s \ {c[s]}]]

(* A sum of sizes, as the folds compute it, is the number of the members.  *)
LEMMA SumStarts ==
  ASSUME NEW S, IsFiniteSet(S), NEW F, \A r \in S : IsFiniteSet(F[r]),
         NEW c, \A s \in SUBSET S : s # {} => c[s] \in s
  PROVE  \E g : Sums(F, S, c, g) /\ \A s \in SUBSET S : g[s] = Cardinality(Tagged(F, s))
<1> DEFINE g == [s \in SUBSET S |-> Cardinality(Tagged(F, s))]
<1>1. g[{}] = 0
  <2>1. Tagged(F, {}) = {}
    BY DEF Tagged
  <2> QED BY <2>1, FS_EmptySet
<1>2. ASSUME NEW s \in SUBSET S, s # {} PROVE g[s] = Cardinality(F[c[s]]) + g[s \ {c[s]}]
  <2>1. c[s] \in s
    BY <1>2
  <2>2. (s \ {c[s]}) \cup {c[s]} = s /\ s \ {c[s]} \in SUBSET S
    BY <2>1
  <2>3. IsFiniteSet(Tagged(F, s \ {c[s]})) /\ IsFiniteSet(F[c[s]])
    BY <2>1, <2>2, TaggedFinite
  <2>4. Cardinality(Tagged(F, (s \ {c[s]}) \cup {c[s]}))
          = Cardinality(F[c[s]]) + Cardinality(Tagged(F, s \ {c[s]}))
    BY <2>3, TaggedStep
  <2> QED BY <2>2, <2>4
<1>3. \A s \in SUBSET S : g[s] = Cardinality(Tagged(F, s))
  OBVIOUS
<1>4. g = [s \in SUBSET S |-> g[s]]
  OBVIOUS
<1> HIDE DEF g
<1>5. g = [s \in SUBSET S |-> IF s = {} THEN 0 ELSE Cardinality(F[c[s]]) + g[s \ {c[s]}]]
  BY <1>1, <1>2, <1>4
<1> QED BY <1>3, <1>5 DEF Sums

LEMMA SumIs ==
  ASSUME NEW S, IsFiniteSet(S), NEW F, \A r \in S : IsFiniteSet(F[r]),
         NEW c, NEW h, Sums(F, S, c, h)
  PROVE  h[S] = Cardinality(Tagged(F, S))
<1>1. \A s \in SUBSET S : s # {} => c[s] \in s
  BY DEF Sums
<1>2. PICK g : Sums(F, S, c, g) /\ \A s \in SUBSET S : g[s] = Cardinality(Tagged(F, s))
  BY <1>1, SumStarts
<1> DEFINE U == {s \in SUBSET S : h[s] # g[s]}
<1>3. U = {}
  <2>1. SUFFICES ASSUME U # {} PROVE FALSE
    OBVIOUS
  <2>2. U \in SUBSET SUBSET S
    OBVIOUS
  <2>3. PICK s \in U : \A x \in s : s \ {x} \notin U
    BY <2>1, <2>2, MinimalSet
  <2>4. CASE s = {}
    BY <1>2, <2>3, <2>4 DEF Sums
  <2>5. CASE s # {}
    <3>1. c[s] \in s /\ s \in SUBSET S
      BY <1>1, <2>3, <2>5
    <3>2. s \ {c[s]} \in SUBSET S
      BY <3>1
    <3>3. h[s \ {c[s]}] = g[s \ {c[s]}]
      BY <2>3, <3>1, <3>2
    <3>4. h[s] = Cardinality(F[c[s]]) + h[s \ {c[s]}]
      BY <2>5, <3>1 DEF Sums
    <3>5. g[s] = Cardinality(F[c[s]]) + g[s \ {c[s]}]
      BY <1>2, <2>5, <3>1 DEF Sums
    <3> QED BY <2>3, <3>3, <3>4, <3>5
  <2> QED BY <2>4, <2>5
<1>4. h[S] = g[S]
  BY <1>3
<1> QED BY <1>2, <1>4

(***************************************************************************)
(* The slices of the pie.                                                  *)
(***************************************************************************)
LEMMA BucketSum ==
  ASSUME NEW repos, IsFiniteSet(repos), NEW bucket,
         \A r \in repos : IsFiniteSet(Unmediated(InBucket(ScanRepo(world[r]), bucket)))
  PROVE  InBucketCount(repos, bucket)
           = Cardinality(Tagged([r \in repos |-> Unmediated(InBucket(ScanRepo(world[r]), bucket))],
                                repos))
<1> DEFINE F == [r \in repos |-> Unmediated(InBucket(ScanRepo(world[r]), bucket))]
           c == [s \in SUBSET repos |-> CHOOSE x \in s : TRUE]
           of(h) == [s \in SUBSET repos |->
                       IF s = {} THEN 0
                       ELSE Cardinality(Unmediated(InBucket(ScanRepo(world[CHOOSE x \in s : TRUE]), bucket)))
                              + h[s \ {CHOOSE x \in s : TRUE}]]
           h == CHOOSE f : f = of(f)
<1>1. InBucketCount(repos, bucket) = h[repos]
  BY DEF InBucketCount, MapThenSumSet, MapThenFoldSet
<1>2. \A r \in repos : IsFiniteSet(F[r])
  OBVIOUS
<1>3. \A s \in SUBSET repos : s # {} => c[s] \in s
  OBVIOUS
<1>4. ASSUME NEW f PROVE Sums(F, repos, c, f) <=> f = of(f)
  BY <1>3 DEF Sums
<1>5. PICK g : Sums(F, repos, c, g)
  BY <1>2, <1>3, SumStarts
<1> HIDE DEF of
<1>6. h = of(h)
  <2>1. g = of(g)
    BY <1>4, <1>5
  <2> QED BY <2>1
<1> HIDE DEF h, F, c
<1>7. Sums(F, repos, c, h)
  BY <1>4, <1>6
<1>8. h[repos] = Cardinality(Tagged(F, repos))
  BY <1>2, <1>7, SumIs
<1> QED
  BY <1>1, <1>8 DEF F

LEMMA MediatedSum ==
  ASSUME NEW repos, IsFiniteSet(repos),
         \A r \in repos : IsFiniteSet(Mediated(ScanRepo(world[r])))
  PROVE  MediatedCount(repos)
           = Cardinality(Tagged([r \in repos |-> Mediated(ScanRepo(world[r]))], repos))
<1> DEFINE F == [r \in repos |-> Mediated(ScanRepo(world[r]))]
           c == [s \in SUBSET repos |-> CHOOSE x \in s : TRUE]
           of(h) == [s \in SUBSET repos |->
                       IF s = {} THEN 0
                       ELSE Cardinality(Mediated(ScanRepo(world[CHOOSE x \in s : TRUE])))
                              + h[s \ {CHOOSE x \in s : TRUE}]]
           h == CHOOSE f : f = of(f)
<1>1. MediatedCount(repos) = h[repos]
  BY DEF MediatedCount, MapThenSumSet, MapThenFoldSet
<1>2. \A r \in repos : IsFiniteSet(F[r])
  OBVIOUS
<1>3. \A s \in SUBSET repos : s # {} => c[s] \in s
  OBVIOUS
<1>4. ASSUME NEW f PROVE Sums(F, repos, c, f) <=> f = of(f)
  BY <1>3 DEF Sums
<1>5. PICK g : Sums(F, repos, c, g)
  BY <1>2, <1>3, SumStarts
<1> HIDE DEF of
<1>6. h = of(h)
  <2>1. g = of(g)
    BY <1>4, <1>5
  <2> QED BY <2>1
<1> HIDE DEF h, F, c
<1>7. Sums(F, repos, c, h)
  BY <1>4, <1>6
<1>8. h[repos] = Cardinality(Tagged(F, repos))
  BY <1>2, <1>7, SumIs
<1> QED
  BY <1>1, <1>8 DEF F

(* A scan finds finitely many interactions.                                *)
LEMMA AccessesFinite ==
  ASSUME NEW c, NEW i, NEW slot, NEW e, NEW form, NEW safe
  PROVE  IsFiniteSet(Accesses(c, i, slot, e, form, safe))
<1> DEFINE keys == SharedKey(c, FnOf(c, i), e, BUILTINS)
           f == [key \in keys |-> [line |-> i, slot |-> slot, key |-> key, form |-> form,
                                   mediated |-> safe \/ Guarded(c, i)]]
<1>1. keys = {} \/ \E key : keys = {key}
  BY DEF SharedKey
<1>2. IsFiniteSet(keys)
  BY <1>1, FS_EmptySet, FS_Singleton
<1> HIDE DEF keys
<1>3. IsFiniteSet({f[key] : key \in keys})
  BY <1>2, FiniteImage
<1>4. Accesses(c, i, slot, e, form, safe) = {f[key] : key \in keys}
  BY DEF Accesses, keys
<1> QED BY <1>3, <1>4

LEMMA LineFinite ==
  ASSUME NEW c, NEW i, IsFiniteSet(c[i].test)
  PROVE  IsFiniteSet(TargetAccesses(c, i) \cup CallAccesses(c, i) \cup ReadAccesses(c, i))
<1>1. IsFiniteSet(TargetAccesses(c, i))
  BY AccessesFinite, FS_EmptySet DEF TargetAccesses
<1>2. IsFiniteSet(CallAccesses(c, i))
  <2> DEFINE f == c[i].f
             safe == Last(f) \in MEDIATING_METHODS /\ Last(Front(f)) \in SyncHinted
             call == IF Len(f) > 1 /\ Direct(Front(f))
                     THEN Accesses(c, i, "call", Front(f), FormOfCall(Last(f)), safe) ELSE {}
             read == IF c[i].k = "with" THEN {} ELSE Accesses(c, i, "read", f, "read", FALSE)
  <2>1. IsFiniteSet(call) /\ IsFiniteSet(read)
    BY AccessesFinite, FS_EmptySet
  <2>2. CallAccesses(c, i) = IF f = None THEN {} ELSE call \cup read
    BY DEF CallAccesses
  <2> HIDE DEF f, call, read
  <2> QED BY <2>1, <2>2, FS_EmptySet, FS_Union
<1>3. IsFiniteSet(ReadAccesses(c, i))
  <2> DEFINE of == [e \in c[i].test |-> Accesses(c, i, "test", e, "read", FALSE)]
             tests == UNION {Accesses(c, i, "test", e, "read", FALSE) : e \in c[i].test}
             from == Accesses(c, i, "from", c[i].from, "read", FALSE)
  <2>1. \A e \in c[i].test : IsFiniteSet(of[e])
    BY AccessesFinite
  <2>2. tests = UNION {of[e] : e \in c[i].test}
    OBVIOUS
  <2>3. of = [e \in c[i].test |-> of[e]]
    OBVIOUS
  <2> HIDE DEF of
  <2>4. IsFiniteSet(tests)
    <3>1. IsFiniteSet(UNION {of[e] : e \in c[i].test})
      BY <2>1, <2>3, FiniteFamily
    <3> QED BY <2>2, <3>1
  <2>5. IsFiniteSet(from)
    BY AccessesFinite
  <2>6. ReadAccesses(c, i) = {} \/ ReadAccesses(c, i) = from \cup tests
    BY DEF ReadAccesses
  <2> HIDE DEF from, tests
  <2> QED BY <2>4, <2>5, <2>6, FS_EmptySet, FS_Union
<1> QED BY <1>1, <1>2, <1>3, FS_Union

LEMMA FileFinite ==
  ASSUME NEW c, IsFile(c), Len(c) \in Nat
  PROVE  IsFiniteSet(ScanFile(c))
<1> DEFINE lines == {j \in DOMAIN c : FnOf(c, j) \in AsyncFunctions(c)}
           of == [i \in lines |-> TargetAccesses(c, i) \cup CallAccesses(c, i) \cup ReadAccesses(c, i)]
<1>1. IsFiniteSet(1..Len(c)) /\ DOMAIN c = 1..Len(c)
  BY FS_Interval DEF IsFile
<1>2. lines \in SUBSET (1..Len(c))
  BY <1>1
<1>3. IsFiniteSet(lines)
  BY <1>1, <1>2, FS_Subset
<1>4. \A i \in lines : IsFiniteSet(of[i])
  BY LineFinite DEF IsFile
<1>5. of = [i \in lines |-> of[i]] /\ ScanFile(c) = UNION {of[i] : i \in lines}
  BY DEF ScanFile
<1> HIDE DEF of, lines
<1> QED BY <1>3, <1>4, <1>5, FiniteFamily

LEMMA RepoFinite ==
  ASSUME NEW repo, IsRepo(repo)
  PROVE  IsFiniteSet(ScanRepo(repo))
<1> DEFINE files == {n \in DOMAIN repo : repo[n].where = "source"}
           of == [j \in files |-> {[file |-> j, access |-> a] : a \in ScanFile(repo[j].code)}]
<1>1. IsFiniteSet(1..Len(repo)) /\ DOMAIN repo = 1..Len(repo)
  BY FS_Interval DEF IsRepo
<1>2. files \in SUBSET (1..Len(repo))
  BY <1>1
<1>3. IsFiniteSet(files)
  BY <1>1, <1>2, FS_Subset
<1>4. ASSUME NEW j \in files PROVE IsFiniteSet(of[j])
  <2> DEFINE found == ScanFile(repo[j].code)
             f == [a \in found |-> [file |-> j, access |-> a]]
  <2>1. IsFiniteSet(found)
    BY FileFinite DEF IsRepo
  <2> HIDE DEF found
  <2>2. IsFiniteSet({f[a] : a \in found})
    BY <2>1, FiniteImage
  <2>3. of[j] = {f[a] : a \in found}
    BY DEF found
  <2> QED BY <2>2, <2>3
<1>5. of = [i \in files |-> of[i]]
  OBVIOUS
<1>6. ScanRepo(repo) = UNION {of[j] : j \in files}
  <2>1. ScanRepo(repo) = UNION {{[file |-> j, access |-> a] : a \in ScanFile(repo[j].code)} :
                                  j \in files}
    BY DEF ScanRepo
  <2>2. \A j \in files : of[j] = {[file |-> j, access |-> a] : a \in ScanFile(repo[j].code)}
    OBVIOUS
  <2> HIDE DEF of, files
  <2>3. {of[j] : j \in files}
          = {{[file |-> j, access |-> a] : a \in ScanFile(repo[j].code)} : j \in files}
    BY <2>2
  <2> QED BY <2>1, <2>3
<1> HIDE DEF of, files
<1> QED BY <1>3, <1>4, <1>5, <1>6, FiniteFamily

LEMMA PartsAre ==
  ASSUME NEW all
  PROVE  LET m == Mediated(all)
             u(bucket) == Unmediated(InBucket(all, bucket))
         IN  /\ all = m \cup u("READ_ONLY") \cup u("COMMUTATIVE") \cup u("DESTRUCTIVE")
             /\ \A b1, b2 \in {"READ_ONLY", "COMMUTATIVE", "DESTRUCTIVE"} :
                  u(b1) \cap m = {} /\ (b1 # b2 => u(b1) \cap u(b2) = {})
<1>1. \A x \in all : BucketOf(all, x) \in {"READ_ONLY", "COMMUTATIVE", "DESTRUCTIVE"}
  BY DEF BucketOf
<1> QED BY <1>1 DEF Unmediated, Mediated, InBucket

\* A member of a scan has a file and an access.
LEMMA ScanMember ==
  ASSUME NEW repo, NEW x \in ScanRepo(repo)
  PROVE  x = [file |-> x.file, access |-> x.access]
<1>1. PICK j, a : x = [file |-> j, access |-> a]
  BY DEF ScanRepo
<1> QED BY <1>1

LEMMA SlicesSum ==
  ASSUME NEW repos, IsFiniteSet(repos), \A r \in repos : IsFiniteSet(ScanRepo(world[r]))
  PROVE  MediatedCount(repos) + InBucketCount(repos, "READ_ONLY")
           + InBucketCount(repos, "COMMUTATIVE") + InBucketCount(repos, "DESTRUCTIVE")
           = Cardinality(Interactions(repos))
<1> DEFINE F(b) == [r \in repos |-> Unmediated(InBucket(ScanRepo(world[r]), b))]
           M == [r \in repos |-> Mediated(ScanRepo(world[r]))]
           A == [r \in repos |-> ScanRepo(world[r])]
           m == Tagged(M, repos)
           u(b) == Tagged(F(b), repos)
           all == Tagged(A, repos)
           buckets == {"READ_ONLY", "COMMUTATIVE", "DESTRUCTIVE"}
<1>1. ASSUME NEW r \in repos, NEW b PROVE IsFiniteSet(F(b)[r])
  <2>1. F(b)[r] \in SUBSET ScanRepo(world[r])
    BY DEF Unmediated, InBucket
  <2> QED BY <2>1, FS_Subset
<1>2. ASSUME NEW r \in repos PROVE IsFiniteSet(M[r])
  <2>1. M[r] \in SUBSET ScanRepo(world[r])
    BY DEF Mediated
  <2> QED BY <2>1, FS_Subset
<1>3. MediatedCount(repos) = Cardinality(m)
  BY <1>2, MediatedSum
<1>4. ASSUME NEW b PROVE InBucketCount(repos, b) = Cardinality(u(b))
  BY <1>1, BucketSum
<1>5. IsFiniteSet(m) /\ \A b : IsFiniteSet(u(b))
  <2>1. repos \in SUBSET repos
    OBVIOUS
  <2> HIDE DEF M, F
  <2> QED BY <1>1, <1>2, <2>1, TaggedFinite
<1>6. all = m \cup u("READ_ONLY") \cup u("COMMUTATIVE") \cup u("DESTRUCTIVE")
  <2>1. \A r \in repos : A[r] = M[r] \cup F("READ_ONLY")[r] \cup F("COMMUTATIVE")[r] \cup F("DESTRUCTIVE")[r]
    BY PartsAre
  <2> HIDE DEF A, M, F
  <2> QED BY <2>1 DEF Tagged
<1>7. /\ \A b \in buckets : m \cap u(b) = {}
      /\ \A b1, b2 \in buckets : b1 # b2 => u(b1) \cap u(b2) = {}
  <2>1. \A r \in repos : \A b1, b2 \in buckets :
          M[r] \cap F(b1)[r] = {} /\ (b1 # b2 => F(b1)[r] \cap F(b2)[r] = {})
    BY PartsAre
  <2> HIDE DEF M, F
  <2> QED BY <2>1 DEF Tagged
<1> HIDE DEF m, u, all
<1>8. /\ IsFiniteSet(m \cup u("READ_ONLY"))
      /\ Cardinality(m \cup u("READ_ONLY")) = Cardinality(m) + Cardinality(u("READ_ONLY"))
  BY <1>5, <1>7, DisjointUnion
<1>9. /\ IsFiniteSet((m \cup u("READ_ONLY")) \cup u("COMMUTATIVE"))
      /\ Cardinality((m \cup u("READ_ONLY")) \cup u("COMMUTATIVE"))
           = Cardinality(m \cup u("READ_ONLY")) + Cardinality(u("COMMUTATIVE"))
  <2>1. (m \cup u("READ_ONLY")) \cap u("COMMUTATIVE") = {}
    BY <1>7
  <2> QED BY <1>5, <1>8, <2>1, DisjointUnion
<1>10. /\ IsFiniteSet(all)
       /\ Cardinality(all) = Cardinality((m \cup u("READ_ONLY")) \cup u("COMMUTATIVE"))
                                + Cardinality(u("DESTRUCTIVE"))
  <2>1. ((m \cup u("READ_ONLY")) \cup u("COMMUTATIVE")) \cap u("DESTRUCTIVE") = {}
    BY <1>7
  <2> QED BY <1>5, <1>6, <1>9, <2>1, DisjointUnion
<1>11. Cardinality(Interactions(repos)) = Cardinality(all)
  <2> DEFINE f == [t \in all |-> [repo |-> t[1], file |-> t[2].file, access |-> t[2].access]]
  <2>1. \A t \in all : /\ t[1] \in repos /\ t[2] \in ScanRepo(world[t[1]]) /\ t = <<t[1], t[2]>>
                       /\ t[2] = [file |-> t[2].file, access |-> t[2].access]
    BY ScanMember DEF all, Tagged
  <2>2. \A r \in repos : \A x \in ScanRepo(world[r]) : <<r, x>> \in all
    BY DEF all, Tagged
  <2>3. f \in [all -> Interactions(repos)]
    <3>1. ASSUME NEW r \in repos, NEW x \in ScanRepo(world[r])
          PROVE  [repo |-> r, file |-> x.file, access |-> x.access] \in Interactions(repos)
      BY DEF Interactions
    <3>2. \A t \in all : f[t] \in Interactions(repos)
      BY <2>1, <3>1
    <3> QED BY <3>2
  <2>4. \A x, y \in all : f[x] = f[y] => x = y
    <3> SUFFICES ASSUME NEW x \in all, NEW y \in all, f[x] = f[y] PROVE x = y
      OBVIOUS
    <3>1. x[1] = y[1] /\ x[2].file = y[2].file /\ x[2].access = y[2].access
      OBVIOUS
    <3> HIDE DEF f
    <3>2. /\ x[2] = [file |-> x[2].file, access |-> x[2].access]
          /\ y[2] = [file |-> y[2].file, access |-> y[2].access]
      BY <2>1
    <3>3. x[2] = y[2]
      BY <3>1, <3>2
    <3>4. x = <<x[1], x[2]>> /\ y = <<y[1], y[2]>>
      BY <2>1
    <3> QED BY <3>1, <3>3, <3>4
  <2>5. \A t \in Interactions(repos) : \E x \in all : f[x] = t
    <3> SUFFICES ASSUME NEW t \in Interactions(repos) PROVE \E x \in all : f[x] = t
      OBVIOUS
    <3>1. PICK r \in repos : \E x \in ScanRepo(world[r]) : t = [repo |-> r, file |-> x.file, access |-> x.access]
      BY DEF Interactions
    <3>2. PICK x \in ScanRepo(world[r]) : t = [repo |-> r, file |-> x.file, access |-> x.access]
      BY <3>1
    <3>3. <<r, x>> \in all /\ f[<<r, x>>] = t
      BY <2>2, <3>2
    <3> QED BY <3>3
  <2> HIDE DEF f
  <2> QED BY <1>10, <2>3, <2>4, <2>5, Renamed
<1>12. /\ Cardinality(m) \in Nat /\ Cardinality(u("READ_ONLY")) \in Nat
       /\ Cardinality(u("COMMUTATIVE")) \in Nat /\ Cardinality(u("DESTRUCTIVE")) \in Nat
  BY <1>5, FS_CardinalityType
<1>13. Cardinality(all) = Cardinality(m) + Cardinality(u("READ_ONLY"))
                            + Cardinality(u("COMMUTATIVE")) + Cardinality(u("DESTRUCTIVE"))
  BY <1>8, <1>9, <1>10, <1>12
<1> QED BY <1>3, <1>4, <1>11, <1>13

LEMMA FlaggedSum ==
  ASSUME NEW repos, IsFiniteSet(repos), \A r \in repos : IsFiniteSet(ScanRepo(world[r]))
  PROVE  FlaggedTotal({r \in repos : HasDestructiveNames(world[r])})
           = InBucketCount(repos, "DESTRUCTIVE")
<1> DEFINE F == [r \in repos |-> Unmediated(InBucket(ScanRepo(world[r]), "DESTRUCTIVE"))]
           all == Tagged(F, repos)
           some == {r \in repos : HasDestructiveNames(world[r])}
           flagged == UNION {FlaggedIn(some, split) : split \in {"data", "bounded", "unbounded"}}
           f == [t \in all |-> [repo |-> t[1], flagged |-> t[2]]]
<1>1. ASSUME NEW r \in repos PROVE IsFiniteSet(F[r])
  <2>1. F[r] \in SUBSET ScanRepo(world[r])
    BY DEF Unmediated, InBucket
  <2> QED BY <2>1, FS_Subset
<1>2. InBucketCount(repos, "DESTRUCTIVE") = Cardinality(all)
  BY <1>1, BucketSum
<1>3. IsFiniteSet(all)
  <2>1. repos \in SUBSET repos
    OBVIOUS
  <2> HIDE DEF F
  <2> QED BY <1>1, <2>1, TaggedFinite
<1>4. ASSUME NEW r \in repos, NEW x
      PROVE  x \in F[r] <=> \E split \in {"data", "bounded", "unbounded"} : x \in Flagged(world[r], split)
  <2>1. SplitOf(world[r], x.access.key) \in {"data", "bounded", "unbounded"}
    BY DEF SplitOf
  <2> QED BY <2>1 DEF Flagged
<1>5. \A r \in repos : F[r] # {} => r \in some
  BY DEF HasDestructiveNames, Unmediated
<1>6. \A t \in all : t[1] \in repos /\ t[2] \in F[t[1]] /\ t = <<t[1], t[2]>>
  BY DEF Tagged
<1>7. \A r \in repos : \A x \in F[r] : <<r, x>> \in all
  BY DEF Tagged
<1> HIDE DEF F, all
<1>8. \A t : t \in flagged <=> \E r \in repos : \E x \in F[r] : t = [repo |-> r, flagged |-> x]
  <2>1. \A t : t \in flagged <=>
          \E split \in {"data", "bounded", "unbounded"} : \E r \in some :
            \E x \in Flagged(world[r], split) : t = [repo |-> r, flagged |-> x]
    BY DEF FlaggedIn
  <2> HIDE DEF flagged
  <2> QED BY <1>4, <1>5, <2>1
<1> HIDE DEF some, flagged
<1>9. f \in [all -> flagged]
  BY <1>6, <1>8
<1>10. \A x, y \in all : f[x] = f[y] => x = y
  BY <1>6
<1>11. ASSUME NEW t \in flagged PROVE \E x \in all : f[x] = t
  <2>1. PICK r \in repos : \E x \in F[r] : t = [repo |-> r, flagged |-> x]
    BY <1>8
  <2>2. PICK x \in F[r] : t = [repo |-> r, flagged |-> x]
    BY <2>1
  <2>3. <<r, x>> \in all /\ f[<<r, x>>] = t
    BY <1>7, <2>2
  <2> QED BY <2>3
<1> HIDE DEF f
<1>12. Cardinality(flagged) = Cardinality(all)
  BY <1>3, <1>9, <1>10, <1>11, Renamed
<1> QED BY <1>2, <1>12 DEF FlaggedTotal, flagged, some

(* The slices of the pie sum up to the total of the scan and are what was  *)
(* counted, for any repositories and after any runs that failed or were    *)
(* interrupted.                                                            *)
THEOREM PieSumsUp == BuildSpec => []SlicesAreCounts
<1> DEFINE Inv == TypeOK /\ Progress
<1>1. BuildInit => Inv
  BY DEF BuildInit, TypeOK, Progress
<1>2. Inv /\ [BuildNext]_buildVars => Inv'
  BY TypeStays, ProgressStays
<1>3. Inv => SlicesAreCounts
  <2> SUFFICES ASSUME Inv, line = "pie" PROVE SlicesAreCounts
    BY DEF SlicesAreCounts
  <2>1. cloned \in SUBSET DOMAIN world /\ IsFiniteSet(DOMAIN world)
    BY WorldsAssumption DEF TypeOK
  <2>2. IsFiniteSet(cloned)
    BY <2>1, FS_Subset
  <2>3. \A r \in cloned : IsFiniteSet(ScanRepo(world[r]))
    BY <2>1, RepoFinite, WorldsAssumption DEF TypeOK
  <2>4. refined = cloned /\ branch = {repo \in cloned : HasDestructiveNames(world[repo])}
    BY DEF Progress
  <2> QED BY <2>2, <2>3, <2>4, SlicesSum, FlaggedSum DEF SlicesAreCounts
<1> QED BY <1>1, <1>2, <1>3, PTL DEF BuildSpec

(***************************************************************************)
(* The bucket of what is only read.                                        *)
(***************************************************************************)
\* A name that is shared in an async function is not one of the builtins.
LEMMA SharedName ==
  ASSUME NEW repo, NEW x \in ScanRepo(repo), x.access.key[1] \in {"CLOSURE", "GLOBAL"}
  PROVE  x.access.key[2] \notin BUILTINS \cup {"self", "cls"}
<1>1. PICK j \in {n \in DOMAIN repo : repo[n].where = "source"} :
        \E a \in ScanFile(repo[j].code) : x = [file |-> j, access |-> a]
  BY DEF ScanRepo
<1> DEFINE c == repo[j].code
<1>2. PICK a \in ScanFile(c) : x = [file |-> j, access |-> a]
  BY <1>1
<1> HIDE DEF c
<1>3. PICK i \in {n \in DOMAIN c : FnOf(c, n) \in AsyncFunctions(c)} :
        a \in TargetAccesses(c, i) \cup CallAccesses(c, i) \cup ReadAccesses(c, i)
  BY DEF ScanFile
<1>4. ASSUME NEW slot, NEW e, NEW form, NEW safe, a \in Accesses(c, i, slot, e, form, safe)
      PROVE  \E b : a.key \in SharedKey(c, FnOf(c, i), b, BUILTINS)
  BY <1>4 DEF Accesses
<1>5. \E b : a.key \in SharedKey(c, FnOf(c, i), b, BUILTINS)
  <2>1. CASE a \in TargetAccesses(c, i)
    BY <1>4, <2>1 DEF TargetAccesses
  <2>2. CASE a \in CallAccesses(c, i)
    BY <1>4, <2>2 DEF CallAccesses
  <2>3. CASE a \in ReadAccesses(c, i)
    <3>1. CASE a \in Accesses(c, i, "from", c[i].from, "read", FALSE)
      BY <1>4, <3>1
    <3>2. CASE a \in UNION {Accesses(c, i, "test", e, "read", FALSE) : e \in c[i].test}
      <4>1. PICK e \in c[i].test : a \in Accesses(c, i, "test", e, "read", FALSE)
        BY <3>2
      <4> QED BY <1>4, <4>1
    <3> QED BY <2>3, <3>1, <3>2 DEF ReadAccesses
  <2> QED BY <1>3, <2>1, <2>2, <2>3
<1>6. a.key = x.access.key
  BY <1>2
<1>7. PICK b : x.access.key \in SharedKey(c, FnOf(c, i), b, BUILTINS)
  BY <1>5, <1>6
<1> QED BY <1>7 DEF SharedKey

(* What scan.py and Python take for the names of an async function agrees, *)
(* but for declarations.                                                   *)
LEMMA LocalIsBound ==
  ASSUME NEW c, NEW d, c[d].async, NEW name, ~DeclaredHere(c, d, name)
  PROVE  name \in CollectLocalBinds(c, d) <=> BoundHere(c, d, name)
BY DEF CollectLocalBinds, BoundHere

(* The key of what is written is the key the scan has for it, unless the   *)
(* write is one of those that are overlooked.                              *)
LEMMA WrittenKey ==
  ASSUME NEW c, NEW i, FnOf(c, i) \in AsyncFunctions(c), NEW key, ~Overlooked(c, i, key),
         key[1] \in {"CLOSURE", "GLOBAL"} => key[2] \notin BUILTINS \cup {"self", "cls"},
         NEW object, object # None, Len(object) = 1, ~BoundHere(c, FnOf(c, i), object[1]),
         key = <<IF {b \in EnclosingFunctions(c, FnOf(c, i)) : BoundHere(c, b, object[1])} # {}
                 THEN "CLOSURE" ELSE "GLOBAL", object[1]>>
  PROVE  key \in SharedKey(c, FnOf(c, i), object, BUILTINS)
<1> DEFINE d == FnOf(c, i)
           name == object[1]
           around == EnclosingFunctions(c, d)
           outer == {b \in around : BoundHere(c, b, name)}
           skipped == CollectLocalBinds(c, d) \cup BUILTINS \cup ImportNames(c) \cup {"self", "cls"}
           closure == \E b \in around : name \in CollectLocalBinds(c, b)
<1>1. name = Head(object) /\ ~OwnAttr(object)
  BY DEF OwnAttr
<1>2. key[2] = name /\ key[1] \in {"CLOSURE", "GLOBAL"}
  OBVIOUS
<1>3. name \notin CollectLocalBinds(c, d)
  <2>1. c[d].async
    BY DEF AsyncFunctions
  <2>2. ~(DeclaredHere(c, d, name) /\ name \in CollectLocalBinds(c, d))
    BY <1>2 DEF Overlooked
  <2> QED BY <2>1, <2>2, LocalIsBound
<1>4. name \notin skipped
  BY <1>2, <1>3 DEF Overlooked
<1>5. CASE outer # {}
  <2>1. key = <<"CLOSURE", name>>
    BY <1>5
  <2>2. PICK b \in around : BoundHere(c, b, name)
    BY <1>5
  <2>3. c[b].async
    BY <1>2, <2>1, <2>2 DEF Overlooked
  <2>4. name \in CollectLocalBinds(c, b)
    BY <2>2, <2>3, LocalIsBound DEF BoundHere
  <2>5. closure
    BY <2>2, <2>4
  <2> HIDE DEF d, name, skipped, closure
  <2> QED BY <1>1, <1>4, <2>1, <2>5 DEF SharedKey, d, name, skipped, closure
<1>6. CASE outer = {}
  <2>1. key = <<"GLOBAL", name>>
    BY <1>6
  <2>2. name \in ModuleNames(c) /\ \A b \in around : ~DeclaredHere(c, b, name) /\ c[b].name # name
    BY <1>2, <2>1 DEF Overlooked
  <2>3. ASSUME NEW b \in around PROVE name \notin CollectLocalBinds(c, b)
    <3>1. ~BoundHere(c, b, name)
      BY <1>6
    <3>2. CASE c[b].async
      BY <2>2, <3>1, <3>2, LocalIsBound
    <3>3. CASE ~c[b].async
      BY <2>2, <3>1, <3>3 DEF CollectLocalBinds, BoundHere
    <3> QED BY <3>2, <3>3
  <2>4. ~closure
    BY <2>3
  <2> HIDE DEF d, name, skipped, closure
  <2> QED BY <1>1, <1>4, <2>1, <2>2, <2>4 DEF SharedKey, d, name, skipped, closure
<1> QED BY <1>5, <1>6

LEMMA WriteIsSeen ==
  ASSUME NEW repo, NEW j \in DOMAIN repo, repo[j].where = "source",
         NEW i \in DOMAIN repo[j].code, FnOf(repo[j].code, i) \in AsyncFunctions(repo[j].code),
         NEW key, WritesKey(repo[j].code, i, key), ~Overlooked(repo[j].code, i, key),
         key[1] \in {"CLOSURE", "GLOBAL"} => key[2] \notin BUILTINS \cup {"self", "cls"}
  PROVE  \E y \in ScanRepo(repo) : y.access.key = key /\ y.access.form # "read"
<1> DEFINE c == repo[j].code
           d == FnOf(c, i)
           targets == BINDING \cup {"setitem", "for", "del", "with", "delitem"}
           called == Len(c[i].f) > 1 /\ FormOfCall(Last(c[i].f)) # "read"
           object == IF c[i].k \in targets THEN c[i].to ELSE IF called THEN Front(c[i].f) ELSE None
           outer == {b \in EnclosingFunctions(c, d) : BoundHere(c, b, object[1])}
<1>1. ASSUME NEW a \in TargetAccesses(c, i) \cup CallAccesses(c, i), a.key = key, a.form # "read"
      PROVE  \E y \in ScanRepo(repo) : y.access.key = key /\ y.access.form # "read"
  <2>1. a \in ScanFile(c)
    BY DEF ScanFile
  <2>2. [file |-> j, access |-> a] \in ScanRepo(repo)
    BY <2>1 DEF ScanRepo
  <2> QED BY <1>1, <2>2
<1> HIDE DEF c
<1>2. /\ object # None /\ Direct(object)
      /\ CASE OwnAttr(object) -> key = <<"SELF_ATTR", object[2]>>
           [] Len(object) = 1 /\ ~BoundHere(c, d, object[1]) ->
                key = <<IF outer # {} THEN "CLOSURE" ELSE "GLOBAL", object[1]>>
           [] OTHER -> FALSE
  BY DEF WritesKey, c
<1> HIDE DEF object, outer
<1>3. key \in SharedKey(c, d, object, BUILTINS)
  <2>1. CASE OwnAttr(object)
    <3>1. key = <<"SELF_ATTR", object[2]>>
      BY <1>2, <2>1 DEF OwnAttr
    <3>2. SharedKey(c, d, object, BUILTINS) = {<<"SELF_ATTR", object[2]>>}
      BY <1>2, <2>1 DEF SharedKey
    <3> QED BY <3>1, <3>2
  <2>2. CASE ~OwnAttr(object)
    <3>1. /\ Len(object) = 1 /\ ~BoundHere(c, d, object[1])
          /\ key = <<IF outer # {} THEN "CLOSURE" ELSE "GLOBAL", object[1]>>
      BY <1>2, <2>2
    <3>2. d \in AsyncFunctions(c) /\ ~Overlooked(c, i, key)
      BY DEF c
    <3> QED BY <1>2, <3>1, <3>2, WrittenKey DEF outer
  <2> QED BY <2>1, <2>2
<1>4. c[i].k \notin {"with", "delitem"}
  BY DEF Overlooked, c
<1> DEFINE made(slot, form, safe) == [line |-> i, slot |-> slot, key |-> key, form |-> form,
                                      mediated |-> safe \/ Guarded(c, i)]
<1>5. ASSUME NEW form
      PROVE  \E a \in Accesses(c, i, "target", object, form, FALSE) : a.key = key /\ a.form = form
  <2>1. made("target", form, FALSE) \in Accesses(c, i, "target", object, form, FALSE)
    BY <1>3 DEF Accesses
  <2> QED BY <2>1
<1>6. ASSUME NEW form, NEW safe
      PROVE  \E a \in Accesses(c, i, "call", object, form, safe) : a.key = key /\ a.form = form
  <2>1. made("call", form, safe) \in Accesses(c, i, "call", object, form, safe)
    BY <1>3 DEF Accesses
  <2> QED BY <2>1
<1>7. CASE c[i].k \in targets
  <2>1. object = c[i].to /\ c[i].k \in BINDING \cup {"setitem", "for", "del"}
    BY <1>4, <1>7 DEF object
  <2>2. TargetAccesses(c, i) = Accesses(c, i, "target", object, FormOfTarget(c[i].k), FALSE)
    BY <1>2, <2>1 DEF TargetAccesses, BINDING
  <2>3. FormOfTarget(c[i].k) # "read"
    BY DEF FormOfTarget
  <2>4. PICK a \in TargetAccesses(c, i) : a.key = key /\ a.form = FormOfTarget(c[i].k)
    <3> PICK form : form = FormOfTarget(c[i].k)
      OBVIOUS
    <3> PICK set : set = Accesses(c, i, "target", object, form, FALSE)
      OBVIOUS
    <3>1. PICK a \in set : a.key = key /\ a.form = form
      BY <1>5
    <3>2. TargetAccesses(c, i) = set
      BY <2>2
    <3> QED BY <3>1, <3>2
  <2> QED BY <1>1, <2>3, <2>4
<1>8. CASE c[i].k \notin targets
  <2>1. called /\ object = Front(c[i].f)
    BY <1>2, <1>8 DEF object
  <2> DEFINE safe == Last(c[i].f) \in MEDIATING_METHODS /\ Last(Front(c[i].f)) \in SyncHinted
  <2>2. c[i].f # None
    BY <2>1 DEF None
  <2>3. Accesses(c, i, "call", object, FormOfCall(Last(c[i].f)), safe) \subseteq CallAccesses(c, i)
    BY <1>2, <2>1, <2>2 DEF CallAccesses
  <2>4. PICK a \in CallAccesses(c, i) : a.key = key /\ a.form = FormOfCall(Last(c[i].f))
    <3> PICK form : form = FormOfCall(Last(c[i].f))
      OBVIOUS
    <3> HIDE DEF safe
    <3> PICK set : set = Accesses(c, i, "call", object, form, safe)
      OBVIOUS
    <3>1. PICK a \in set : a.key = key /\ a.form = form
      BY <1>6
    <3> QED BY <2>3, <3>1
  <2> QED BY <1>1, <2>1, <2>4
<1> QED BY <1>7, <1>8

(* What is in the bucket READ_ONLY is written nowhere in the scanned async *)
(* code, whatever the repositories hold, but for the writes of Overlooked. *)
THEOREM ReadOnlyIsNotWritten == BuildSpec => []ReadOnlyIsUnwritten
<1>1. ReadOnlyIsUnwritten
  <2> SUFFICES ASSUME NEW r \in results, NEW x \in InBucket(ScanRepo(world[r]), "READ_ONLY"),
                      NEW j \in DOMAIN world[r], world[r][j].where = "source",
                      NEW i \in DOMAIN world[r][j].code,
                      FnOf(world[r][j].code, i) \in AsyncFunctions(world[r][j].code),
                      WritesKey(world[r][j].code, i, x.access.key),
                      ~Overlooked(world[r][j].code, i, x.access.key)
               PROVE  FALSE
    BY DEF ReadOnlyIsUnwritten
  <2> DEFINE all == ScanRepo(world[r])
  <2>1. x \in all /\ BucketOf(all, x) = "READ_ONLY"
    BY DEF InBucket
  <2>2. PICK y \in all : y.access.key = x.access.key /\ y.access.form # "read"
    BY <2>1, SharedName, WriteIsSeen
  <2>3. BucketOf(all, x) # "READ_ONLY"
    <3> DEFINE same == {z \in all : z.access.key = x.access.key}
               forms == {z.access.form : z \in same} \ {"read"}
    <3>1. y.access.form \in forms
      BY <2>2
    <3> QED BY <3>1 DEF BucketOf
  <2> QED BY <2>1, <2>3
<1> QED BY <1>1, PTL DEF BuildSpec
=============================================================================
