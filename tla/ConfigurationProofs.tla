-------------------------- MODULE ConfigurationProofs --------------------------
(***************************************************************************)
(* Proofs about Configuration: the types of all that the parser and the    *)
(* command line fill in, that the parts of abt choose the same tools, that *)
(* compile and link commands fit each other, and that the parser ends with *)
(* what the file means, for every file, command line and environment.      *)
(***************************************************************************)
EXTENDS Configuration, FiniteSetTheorems, SequenceTheorems, WellFoundedInduction, TLAPS

-------------------------------------------------------------------------------
(* The inductive invariant *)

\* What the probes have found when main goes on.
SearchInv ==
  /\ phase = "sdk" \/ outcome = "builds" =>
       /\ ndkRoot = Found(NdkNames, "HOME/assets/android-ndk")
       /\ input.command # "info" => ndkRoot \in input.env.ndks
  /\ outcome = "builds" =>
       LET root == Found(SdkNames, "HOME/assets/android-sdk")
       IN  /\ input.command # "info" /\ root \in DOMAIN input.env.sdks
           /\ input.env.sdks[root] # {} /\ buildTools = Newest(input.env.sdks[root])

IInv ==
  /\ input \in Inputs /\ left \in Seq(Strings \X Seq(Strings)) /\ unread \in Seq(Seq(Tokens))
  /\ TypeOK /\ SearchInv

-------------------------------------------------------------------------------
(* Least and greatest numbers, and the numbers of a set in order *)

LEMMA Least ==
  ASSUME NEW S \in SUBSET Nat, S # {}
  PROVE  Min(S) \in S /\ \A j \in S : Min(S) <= j
<1>1. PICK x \in S : \A y \in S : ~(<<y, x>> \in OpToRel(<, Nat))
  BY NatLessThanWellFounded, WFMin
<1>2. \A y \in S : x <= y
  <2> SUFFICES ASSUME NEW y \in S PROVE x <= y
    OBVIOUS
  <2>1. x \in Nat /\ y \in Nat
    OBVIOUS
  <2>2. ~(y < x)
    BY <1>1, <2>1 DEF OpToRel
  <2> QED BY <2>1, <2>2
<1> QED BY <1>2 DEF Min

LEMMA Greatest ==
  ASSUME NEW n \in Nat, NEW S \in SUBSET (1..n), S # {}
  PROVE  Max(S) \in S /\ \A j \in S : j <= Max(S)
<1> DEFINE R == {n - x : x \in S}
<1>0. \A x \in S : x \in Nat /\ x <= n
  OBVIOUS
<1>1. R \in SUBSET Nat /\ R # {}
  <2>1. \A x \in S : n - x \in Nat
    BY <1>0
  <2> QED BY <2>1
<1>2. PICK r \in R : \A j \in R : r <= j
  BY <1>1, Least
<1>3. PICK x \in S : r = n - x
  OBVIOUS
<1>4. \A j \in S : x >= j
  <2> SUFFICES ASSUME NEW j \in S PROVE x >= j
    OBVIOUS
  <2>1. n - j \in R
    OBVIOUS
  <2> HIDE DEF R
  <2>2. n - x <= n - j
    BY <1>2, <1>3, <2>1
  <2> QED BY <1>0, <2>2
<1>5. Max(S) \in S /\ \A j \in S : Max(S) >= j
  BY <1>4 DEF Max
<1> QED BY <1>0, <1>5

\* A function on 1..n is a sequence.
LEMMA FunctionIsSeq ==
  ASSUME NEW T, NEW n \in Nat, NEW f \in [1..n -> T]
  PROVE  f \in Seq(T) /\ Len(f) = n
<1>1. f \in Seq(T)
  BY SeqDef
<1> QED BY <1>1, LenProperties

\* The numbers of S up to i: as many as i is in order.
Rank(S, i) == Cardinality({j \in S : j <= i})

LEMMA RankIsOneToOne ==
  ASSUME NEW n \in Nat, NEW S \in SUBSET (1..n)
  PROVE  /\ IsFiniteSet(S)
         /\ \A i \in S : Rank(S, i) \in 1..Cardinality(S)
         /\ \A i, k \in S : i # k => Rank(S, i) # Rank(S, k)
<1>1. IsFiniteSet(S)
  <2>1. IsFiniteSet(1..n)
    BY FS_Interval
  <2> QED BY <2>1, FS_Subset
<1>2. \A i \in S : /\ IsFiniteSet({j \in S : j <= i})
                   /\ Rank(S, i) \in Nat /\ Rank(S, i) <= Cardinality(S) /\ Rank(S, i) # 0
  <2> SUFFICES ASSUME NEW i \in S
               PROVE  /\ IsFiniteSet({j \in S : j <= i})
                      /\ Rank(S, i) \in Nat /\ Rank(S, i) <= Cardinality(S) /\ Rank(S, i) # 0
    OBVIOUS
  <2> DEFINE P == {j \in S : j <= i}
  <2>1. P \in SUBSET S /\ i \in P
    OBVIOUS
  <2>2. IsFiniteSet(P) /\ Cardinality(P) <= Cardinality(S)
    BY <1>1, <2>1, FS_Subset
  <2>3. Cardinality(P) \in Nat /\ Cardinality(P) # 0
    BY <2>1, <2>2, FS_CardinalityType, FS_EmptySet
  <2> QED BY <2>2, <2>3 DEF Rank
<1>3. ASSUME NEW i \in S, NEW k \in S, i < k PROVE Rank(S, i) # Rank(S, k)
  <2> DEFINE P == {j \in S : j <= i}
             Q == {j \in S : j <= k}
  <2>1. P \in SUBSET Q /\ k \in Q /\ k \notin P
    <3>1. i \in Nat /\ k \in Nat /\ \A j \in S : j \in Nat
      OBVIOUS
    <3>2. \A j \in S : j <= i => j <= k
      BY <1>3, <3>1
    <3>3. ~(k <= i) /\ k <= k
      BY <1>3, <3>1
    <3> QED BY <3>2, <3>3
  <2>2. IsFiniteSet(Q)
    BY <1>2
  <2>3. Cardinality(Q) # Cardinality(P)
    BY <2>1, <2>2, FS_Subset
  <2> QED BY <2>3 DEF Rank
<1>4. \A i, k \in S : i # k => i < k \/ k < i
  <2>1. \A j \in S : j \in Nat
    OBVIOUS
  <2> QED BY <2>1
<1>5. Cardinality(S) \in Nat
  BY <1>1, FS_CardinalityType
<1>6. \A i \in S : Rank(S, i) \in 1..Cardinality(S)
  <2> SUFFICES ASSUME NEW i \in S PROVE Rank(S, i) \in 1..Cardinality(S)
    OBVIOUS
  <2>1. Rank(S, i) \in Nat /\ Rank(S, i) <= Cardinality(S) /\ Rank(S, i) # 0
    BY <1>2
  <2> HIDE DEF Rank
  <2> QED BY <1>5, <2>1
<1>7. \A i, k \in S : i # k => Rank(S, i) # Rank(S, k)
  BY <1>3, <1>4
<1> QED BY <1>1, <1>6, <1>7

\* InOrder(S) has all numbers of S and no others.
LEMMA InOrderHasAll ==
  ASSUME NEW n \in Nat, NEW S \in SUBSET (1..n)
  PROVE  /\ InOrder(S) \in Seq(S)
         /\ \A i \in S : \E k \in DOMAIN InOrder(S) : InOrder(S)[k] = i
<1> DEFINE c == Cardinality(S)
           rank == [i \in S |-> Rank(S, i)]
<1>1. IsFiniteSet(S) /\ c \in Nat
  BY RankIsOneToOne, FS_CardinalityType
<1>2. rank \in Injection(S, 1..c)
  BY RankIsOneToOne DEF Injection, IsInjective
<1>3. IsFiniteSet(1..c) /\ Cardinality(1..c) = c
  BY <1>1, FS_Interval
<1>4. rank \in Surjection(S, 1..c)
  BY <1>2, <1>3, FS_Injection
<1>5. \A k \in 1..c : \E i \in S : Rank(S, i) = k
  BY <1>4 DEF Surjection
<1>6. \A k \in 1..c : InOrder(S)[k] \in S /\ Rank(S, InOrder(S)[k]) = k
  BY <1>5 DEF InOrder, Rank
<1>7. DOMAIN InOrder(S) = 1..c
  BY DEF InOrder
<1>8. InOrder(S) \in Seq(S)
  <2>1. InOrder(S) \in [1..c -> S]
    BY <1>6, <1>7 DEF InOrder
  <2> QED BY <1>1, <2>1, FunctionIsSeq
<1>9. ASSUME NEW i \in S PROVE \E k \in DOMAIN InOrder(S) : InOrder(S)[k] = i
  <2>1. Rank(S, i) \in 1..c
    BY RankIsOneToOne
  <2>2. InOrder(S)[Rank(S, i)] \in S /\ Rank(S, InOrder(S)[Rank(S, i)]) = Rank(S, i)
    BY <1>6, <2>1
  <2>3. InOrder(S)[Rank(S, i)] = i
    BY <2>2, RankIsOneToOne
  <2> QED BY <1>7, <2>1, <2>3
<1> QED BY <1>8, <1>9

\* Kept keeps the elements that are in the set, and no others.
LEMMA KeptHasAll ==
  ASSUME NEW T, NEW s \in Seq(T), NEW set
  PROVE  Kept(s, set) \in Seq(T \cap set) /\ Range(s) \cap set \subseteq Range(Kept(s, set))
<1> DEFINE S == {i \in DOMAIN s : s[i] \in set}
           order == InOrder(S)
<1>1. Len(s) \in Nat /\ S \in SUBSET (1..Len(s)) /\ \A i \in S : s[i] \in T \cap set
  OBVIOUS
<1>2. order \in Seq(S) /\ \A i \in S : \E k \in DOMAIN order : order[k] = i
  BY <1>1, InOrderHasAll
<1>3. Kept(s, set) = [k \in DOMAIN order |-> s[order[k]]]
  BY DEF Kept
<1> HIDE DEF order, S
<1>4. Len(order) \in Nat /\ DOMAIN order = 1..Len(order) /\ \A k \in DOMAIN order : order[k] \in S
  BY <1>2
<1>5. Kept(s, set) \in Seq(T \cap set)
  <2>1. Kept(s, set) \in [1..Len(order) -> T \cap set]
    BY <1>1, <1>3, <1>4
  <2> QED BY <1>4, <2>1, FunctionIsSeq
<1>6. ASSUME NEW i \in DOMAIN s, s[i] \in set
      PROVE  \E k \in DOMAIN Kept(s, set) : Kept(s, set)[k] = s[i]
  <2>1. i \in S
    BY <1>6 DEF S
  <2>2. PICK k \in DOMAIN order : order[k] = i
    BY <1>2, <2>1
  <2> QED BY <1>3, <2>2
<1>7. Range(s) \cap set \subseteq Range(Kept(s, set))
  BY <1>6 DEF Range
<1> QED BY <1>5, <1>7

-------------------------------------------------------------------------------
(* Sequences of any elements, and the commands made of them *)

IsList(s) == s \in Seq(Range(s))

LEMMA SeqIsList == ASSUME NEW T, NEW s \in Seq(T) PROVE IsList(s) /\ Range(s) \subseteq T
<1>1. Len(s) \in Nat /\ s \in [1..Len(s) -> T]
  BY LenProperties
<1>2. s \in [1..Len(s) -> Range(s)]
  BY <1>1 DEF Range
<1> QED BY <1>1, <1>2, FunctionIsSeq DEF IsList, Range

LEMMA ListFacts ==
  ASSUME NEW s, IsList(s)
  PROVE  /\ Len(s) \in Nat /\ DOMAIN s = 1..Len(s)
         /\ \A i \in 1..Len(s) : s[i] \in Range(s)
         /\ \A x \in Range(s) : \E i \in 1..Len(s) : s[i] = x
<1>1. Len(s) \in Nat /\ DOMAIN s = 1..Len(s)
  BY LenProperties DEF IsList
<1> QED BY <1>1 DEF Range

\* A concatenation has the elements of both parts, those of the first first.
LEMMA Joined ==
  ASSUME NEW s, NEW t, IsList(s), IsList(t)
  PROVE  /\ IsList(s \o t) /\ Range(s \o t) = Range(s) \cup Range(t)
         /\ Len(s \o t) = Len(s) + Len(t)
         /\ \A i \in 1..Len(s) : (s \o t)[i] = s[i]
         /\ \A i \in 1..Len(t) : (s \o t)[Len(s) + i] = t[i]
         /\ \A i \in DOMAIN (s \o t) : i <= Len(s) \/ i - Len(s) \in 1..Len(t)
<1> DEFINE S == Range(s) \cup Range(t)
           st == s \o t
<1>1. s \in Seq(S) /\ t \in Seq(S)
  BY SeqMonotonic DEF IsList
<1>2. Len(s) \in Nat /\ Len(t) \in Nat
  BY ListFacts
<1>3. /\ st \in Seq(S) /\ Len(st) = Len(s) + Len(t)
      /\ \A i \in 1..Len(s) + Len(t) : st[i] = IF i <= Len(s) THEN s[i] ELSE t[i - Len(s)]
  BY <1>1, ConcatProperties
<1>4. IsList(st) /\ Range(st) \subseteq S
  BY <1>3, SeqIsList
<1>5. DOMAIN st = 1..Len(s) + Len(t)
  BY <1>3, LenProperties
<1> HIDE DEF st
<1>6. \A i \in 1..Len(s) : st[i] = s[i] /\ i \in DOMAIN st
  BY <1>2, <1>3, <1>5
<1>7. \A i \in 1..Len(t) : st[Len(s) + i] = t[i] /\ Len(s) + i \in DOMAIN st
  <2> SUFFICES ASSUME NEW i \in 1..Len(t)
               PROVE  st[Len(s) + i] = t[i] /\ Len(s) + i \in DOMAIN st
    OBVIOUS
  <2>1. /\ Len(s) + i \in 1..Len(s) + Len(t) /\ ~(Len(s) + i <= Len(s))
        /\ Len(s) + i - Len(s) = i
    BY <1>2
  <2> QED BY <1>3, <1>5, <2>1
<1>8. S \subseteq Range(st)
  <2>1. \A x \in Range(s) : x \in Range(st)
    BY <1>6, ListFacts DEF Range
  <2>2. \A x \in Range(t) : x \in Range(st)
    BY <1>7, ListFacts DEF Range
  <2> QED BY <2>1, <2>2
<1>9. \A i \in DOMAIN st : i <= Len(s) \/ i - Len(s) \in 1..Len(t)
  BY <1>2, <1>5
<1> QED BY <1>3, <1>4, <1>6, <1>7, <1>8, <1>9 DEF st

\* Literal sequences.
LEMMA Literals ==
  /\ IsList(<<>>) /\ Range(<<>>) = {}
  /\ \A a : IsList(<<a>>) /\ Range(<<a>>) = {a} /\ Len(<<a>>) = 1 /\ <<a>>[1] = a
  /\ \A a, b : /\ IsList(<<a, b>>) /\ Range(<<a, b>>) = {a, b} /\ Len(<<a, b>>) = 2
               /\ <<a, b>>[1] = a /\ <<a, b>>[2] = b
  /\ \A a, b, c : IsList(<<a, b, c>>) /\ Range(<<a, b, c>>) = {a, b, c}
  /\ \A a, b, c, d : IsList(<<a, b, c, d>>) /\ Range(<<a, b, c, d>>) = {a, b, c, d}
  /\ \A a, b, c, d, e : IsList(<<a, b, c, d, e>>) /\ Range(<<a, b, c, d, e>>) = {a, b, c, d, e}
<1>1. IsList(<<>>) /\ Range(<<>>) = {}
  BY DEF IsList, Range
<1>2. \A a : IsList(<<a>>) /\ Range(<<a>>) = {a} /\ Len(<<a>>) = 1 /\ <<a>>[1] = a
  BY DEF IsList, Range
<1>3. \A a, b : /\ IsList(<<a, b>>) /\ Range(<<a, b>>) = {a, b} /\ Len(<<a, b>>) = 2
                /\ <<a, b>>[1] = a /\ <<a, b>>[2] = b
  BY DEF IsList, Range
<1>4. \A a, b, c : IsList(<<a, b, c>>) /\ Range(<<a, b, c>>) = {a, b, c}
  BY DEF IsList, Range
<1>5. \A a, b, c, d : IsList(<<a, b, c, d>>) /\ Range(<<a, b, c, d>>) = {a, b, c, d}
  BY DEF IsList, Range
<1>6. \A a, b, c, d, e : IsList(<<a, b, c, d, e>>) /\ Range(<<a, b, c, d, e>>) = {a, b, c, d, e}
  BY DEF IsList, Range
<1> QED BY <1>1, <1>2, <1>3, <1>4, <1>5, <1>6

\* A mapped sequence.
LEMMA Mapped ==
  ASSUME NEW s, IsList(s), NEW f, DOMAIN f = DOMAIN s
  PROVE  f = [i \in DOMAIN s |-> f[i]] => IsList(f) /\ Len(f) = Len(s)
<1> SUFFICES ASSUME f = [i \in DOMAIN s |-> f[i]] PROVE IsList(f) /\ Len(f) = Len(s)
  OBVIOUS
<1>1. Len(s) \in Nat /\ DOMAIN s = 1..Len(s)
  BY ListFacts
<1>2. f \in [1..Len(s) -> Range(f)]
  BY <1>1 DEF Range
<1> QED BY <1>1, <1>2, FunctionIsSeq DEF IsList

\* BuildConfig's lists are lists.
LEMMA ConfigLists ==
  ASSUME config \in Configs
  PROVE  IsList(config.cppSources) /\ IsList(config.includeDirs) /\ IsList(config.linkLibraries)
<1>1. /\ config.cppSources \in Seq(Places) /\ config.includeDirs \in Seq(Places)
      /\ config.linkLibraries \in Seq(Words)
  BY DEF Configs
<1> QED BY <1>1, SeqIsList

\* The options of a compilation: -flto is among them in a release build.
LEMMA CompileFlagsFacts ==
  ASSUME config \in Configs, NEW a
  PROVE  /\ IsList(CompileFlags(a))
         /\ <<"-flto">> \in Range(CompileFlags(a)) <=> config.buildType = "release"
<1> DEFINE general == <<Target(a), Sysroot, <<"-fPIC">>, <<"-std=c++17">>>>
           release == Release(<<<<"-O3">>, <<"-flto">>, <<"-DNDEBUG">>>>)
           debug == Debug(<<<<"-O0">>, <<"-g">>, <<"-DDEBUG">>>>)
           tuning == IF a \in DOMAIN Tuning THEN Tuning[a] ELSE <<>>
           dirs == [i \in DOMAIN config.includeDirs |-> <<"-I", config.includeDirs[i]>>]
           flto == <<"-flto">>
<1>1. CompileFlags(a) = (((general \o release) \o debug) \o tuning) \o dirs
  BY DEF CompileFlags
<1>2. IsList(general) /\ flto \notin Range(general)
  <2>1. IsList(general) /\ Range(general) = {Target(a), Sysroot, <<"-fPIC">>, <<"-std=c++17">>}
    BY Literals
  <2>2. flto # Target(a) /\ flto # Sysroot /\ flto # <<"-fPIC">> /\ flto # <<"-std=c++17">>
    BY DEF Target, Sysroot
  <2> QED BY <2>1, <2>2
<1>3. IsList(release) /\ (flto \in Range(release) <=> config.buildType = "release")
  <2>1. CASE config.buildType = "release"
    BY <2>1, Literals DEF Release
  <2>2. CASE config.buildType # "release"
    BY <2>2, Literals DEF Release
  <2> QED BY <2>1, <2>2
<1>4. IsList(debug) /\ flto \notin Range(debug)
  <2>1. flto # <<"-O0">> /\ flto # <<"-g">> /\ flto # <<"-DDEBUG">>
    OBVIOUS
  <2>2. CASE config.buildType = "release"
    BY <2>2, Literals DEF Debug
  <2>3. CASE config.buildType # "release"
    BY <2>1, <2>3, Literals DEF Debug
  <2> QED BY <2>2, <2>3
<1>5. IsList(tuning) /\ flto \notin Range(tuning)
  <2>1. /\ flto # <<"-march=armv8-a+simd">> /\ flto # <<"-march=armv7-a">>
        /\ flto # <<"-mfloat-abi=softfp">>
    OBVIOUS
  <2>2. CASE a = "arm64-v8a"
    <3>1. tuning = <<<<"-march=armv8-a+simd">>>>
      BY <2>2 DEF Tuning
    <3> QED BY <2>1, <3>1, Literals
  <2>3. CASE a = "armeabi-v7a"
    <3>1. tuning = <<<<"-march=armv7-a">>, <<"-mfloat-abi=softfp">>>>
      BY <2>3 DEF Tuning
    <3>2. /\ IsList(<<<<"-march=armv7-a">>, <<"-mfloat-abi=softfp">>>>)
          /\ Range(<<<<"-march=armv7-a">>, <<"-mfloat-abi=softfp">>>>)
               = {<<"-march=armv7-a">>, <<"-mfloat-abi=softfp">>}
      BY Literals, Zenon
    <3> QED BY <2>1, <3>1, <3>2
  <2>4. CASE a \notin {"arm64-v8a", "armeabi-v7a"}
    <3>1. tuning = <<>>
      BY <2>4 DEF Tuning
    <3> QED BY <3>1, Literals
  <2> QED BY <2>2, <2>3, <2>4
<1>6. IsList(dirs) /\ flto \notin Range(dirs)
  <2>1. IsList(dirs)
    BY ConfigLists, Mapped
  <2>2. \A i \in DOMAIN dirs : dirs[i] # flto
    OBVIOUS
  <2> QED BY <2>1, <2>2 DEF Range
<1> HIDE DEF general, release, debug, tuning, dirs, flto
<1>7. IsList(general \o release) /\ Range(general \o release) = Range(general) \cup Range(release)
  BY <1>2, <1>3, Joined
<1>8. /\ IsList((general \o release) \o debug)
      /\ Range((general \o release) \o debug) = Range(general) \cup Range(release) \cup Range(debug)
  BY <1>4, <1>7, Joined
<1>9. /\ IsList(((general \o release) \o debug) \o tuning)
      /\ Range(((general \o release) \o debug) \o tuning)
           = Range(general) \cup Range(release) \cup Range(debug) \cup Range(tuning)
  BY <1>5, <1>8, Joined
<1>10. /\ IsList(CompileFlags(a))
       /\ Range(CompileFlags(a))
           = Range(general) \cup Range(release) \cup Range(debug) \cup Range(tuning) \cup Range(dirs)
  BY <1>1, <1>6, <1>9, Joined
<1> QED BY <1>2, <1>3, <1>4, <1>5, <1>6, <1>10 DEF flto

\* The command that compiles a source: the compiler, of the options those that go with it, the
\* object at its end.
LEMMA CompileCommandFacts ==
  ASSUME config \in Configs, NEW src, NEW a
  PROVE  LET cc == CompileCommand(src, a) IN
           /\ IsList(cc) /\ cc[1] = Compiler(a, IsC(src)) /\ cc[Len(cc)] = <<"-o", Object(src, a)>>
           /\ <<"-flto">> \in Range(cc) <=> config.buildType = "release"
           /\ IsC(src) => <<"-std=c++17">> \notin Range(cc)
<1> DEFINE cxx == <<"-std=c++17">>
           flto == <<"-flto">>
           flags == CompileFlags(a)
           keep == Range(flags) \ IF IsC(src) THEN {cxx} ELSE {}
           kept == Kept(flags, keep)
           first == <<Compiler(a, IsC(src))>>
           last == <<<<"-c", src>>, <<"-o", Object(src, a)>>>>
           cc == CompileCommand(src, a)
<1>1. cc = (first \o kept) \o last
  BY DEF CompileCommand
<1>2. IsList(flags) /\ (flto \in Range(flags) <=> config.buildType = "release")
  BY CompileFlagsFacts
<1>3. flto # cxx
  OBVIOUS
<1>4. IsList(kept) /\ Range(kept) \subseteq keep /\ Range(flags) \cap keep \subseteq Range(kept)
  <2>1. flags \in Seq(Range(flags))
    BY <1>2 DEF IsList
  <2> HIDE DEF flags, keep
  <2>2. kept \in Seq(Range(flags) \cap keep)
    BY <2>1, KeptHasAll
  <2>3. Range(flags) \cap keep \subseteq Range(kept)
    BY <2>1, KeptHasAll
  <2>4. IsList(kept) /\ Range(kept) \subseteq Range(flags) \cap keep
    BY <2>2, SeqIsList
  <2> QED BY <2>3, <2>4
<1>5. flto \in Range(kept) <=> config.buildType = "release"
  <2> HIDE DEF flags, kept, flto, cxx
  <2> QED BY <1>2, <1>3, <1>4
<1>6. IsC(src) => cxx \notin Range(kept)
  <2> HIDE DEF kept, flags
  <2> QED BY <1>4
<1>7. IsList(first) /\ Range(first) = {Compiler(a, IsC(src))} /\ Len(first) = 1
      /\ first[1] = Compiler(a, IsC(src))
  BY Literals
<1>8. IsList(last) /\ Range(last) = {<<"-c", src>>, <<"-o", Object(src, a)>>} /\ Len(last) = 2
      /\ last[2] = <<"-o", Object(src, a)>>
  BY Literals
<1>9. \A flag \in {cxx, flto} : flag \notin Range(first) /\ flag \notin Range(last)
  <2>1. \A flag \in {cxx, flto} : /\ flag # Compiler(a, IsC(src))
                                  /\ flag # <<"-c", src>> /\ flag # <<"-o", Object(src, a)>>
    BY DEF Compiler
  <2> QED BY <1>7, <1>8, <2>1
<1> HIDE DEF kept, first, last, cc, flto, cxx
<1>10. /\ IsList(first \o kept) /\ Range(first \o kept) = Range(first) \cup Range(kept)
       /\ Len(first \o kept) = 1 + Len(kept) /\ (first \o kept)[1] = first[1]
       /\ Len(kept) \in Nat
  <2>1. 1 \in 1..Len(first)
    BY <1>7
  <2> QED BY <1>4, <1>7, <2>1, Joined, ListFacts
<1>11. /\ IsList(cc) /\ Range(cc) = Range(first) \cup Range(kept) \cup Range(last)
       /\ Len(cc) = 1 + Len(kept) + 2 /\ cc[1] = first[1] /\ cc[1 + Len(kept) + 2] = last[2]
  <2>1. 1 \in 1..Len(first \o kept) /\ 2 \in 1..Len(last)
    BY <1>8, <1>10
  <2> DEFINE s == first \o kept
  <2>2. cc = s \o last /\ IsList(s) /\ IsList(last)
    BY <1>1, <1>8, <1>10
  <2> HIDE DEF s
  <2>3. /\ IsList(s \o last) /\ Range(s \o last) = Range(s) \cup Range(last)
        /\ Len(s \o last) = Len(s) + Len(last)
        /\ \A i \in 1..Len(s) : (s \o last)[i] = s[i]
        /\ \A i \in 1..Len(last) : (s \o last)[Len(s) + i] = last[i]
    BY <2>2, Joined
  <2>4. /\ Len(s) = 1 + Len(kept) /\ Len(last) = 2 /\ s[1] = first[1]
        /\ Range(s) = Range(first) \cup Range(kept)
        /\ 1 \in 1..Len(s)
    BY <1>8, <1>10, <2>1 DEF s
  <2> QED BY <2>1, <2>2, <2>3, <2>4
<1>12. cc[Len(cc)] = <<"-o", Object(src, a)>>
  BY <1>8, <1>11
<1>13. flto \in Range(cc) <=> config.buildType = "release"
  BY <1>5, <1>9, <1>11
<1>14. IsC(src) => cxx \notin Range(cc)
  BY <1>6, <1>9, <1>11
<1> QED BY <1>7, <1>11, <1>12, <1>13, <1>14 DEF cc, flto, cxx

\* The command that links an architecture: each source's object before every library.
LEMMA LinkCommandFacts ==
  ASSUME config \in Configs, NEW a
  PROVE  LET link == LinkCommand(a) IN
           /\ IsList(link) /\ link[1] = Compiler(a, FALSE)
           /\ <<"-flto">> \in Range(link) <=> config.buildType = "release"
           /\ \A src \in Range(config.cppSources) :
                \E i \in DOMAIN link :
                  /\ link[i] = <<"in", Object(src, a)>>
                  /\ \A j \in DOMAIN link : link[j][1] = "-l" => i < j
<1> DEFINE flto == <<"-flto">>
           general == <<Target(a), Sysroot, <<"-shared">>, <<"--gc-sections">>,
                        <<"--undefined=ANativeActivity_onCreate">>>>
           release == Release(<<<<"-flto">>, <<"--strip-debug">>>>)
           first == <<Compiler(a, FALSE)>>
           objects == [i \in DOMAIN config.cppSources |-> <<"in", Object(config.cppSources[i], a)>>]
           output == <<<<"-o", a>>>>
           user == [i \in DOMAIN config.linkLibraries |-> <<"-l", config.linkLibraries[i]>>]
           system == <<<<"-l", Word("android")>>, <<"-l", Word("log")>>>>
           link == LinkCommand(a)
           before == (first \o (general \o release)) \o objects
           libs == user \o system
<1>1. link = (before \o output) \o libs
  BY DEF LinkCommand, LinkFlags, LinkLibFlags
<1>2. /\ IsList(general) /\ flto \notin Range(general)
      /\ \A f \in Range(general) : f[1] # "-l"
  <2>1. IsList(general) /\ Range(general) = {Target(a), Sysroot, <<"-shared">>, <<"--gc-sections">>,
                                             <<"--undefined=ANativeActivity_onCreate">>}
    <3> DEFINE shared == <<"-shared">>
               sections == <<"--gc-sections">>
               undefined == <<"--undefined=ANativeActivity_onCreate">>
    <3>1. general = <<Target(a), Sysroot, shared, sections, undefined>>
      OBVIOUS
    <3> HIDE DEF general, shared, sections, undefined
    <3>2. IsList(general) /\ Range(general) = {Target(a), Sysroot, shared, sections, undefined}
      BY <3>1, Literals
    <3> QED BY <3>2 DEF shared, sections, undefined
  <2>2. Target(a) # flto /\ Target(a)[1] # "-l" /\ Sysroot # flto /\ Sysroot[1] # "-l"
    BY DEF Target, Sysroot
  <2>3. \A f \in {<<"-shared">>, <<"--gc-sections">>, <<"--undefined=ANativeActivity_onCreate">>} :
          f # flto /\ f[1] # "-l"
    OBVIOUS
  <2> HIDE DEF general, flto
  <2> QED BY <2>1, <2>2, <2>3
<1>3. /\ IsList(release) /\ (flto \in Range(release) <=> config.buildType = "release")
      /\ \A f \in Range(release) : f[1] # "-l"
  <2>1. CASE config.buildType = "release"
    <3>1. release = <<flto, <<"--strip-debug">>>>
      BY <2>1 DEF Release
    <3>2. /\ IsList(<<flto, <<"--strip-debug">>>>)
          /\ Range(<<flto, <<"--strip-debug">>>>) = {flto, <<"--strip-debug">>}
      BY Literals, Zenon
    <3>3. flto[1] # "-l"
      OBVIOUS
    <3> HIDE DEF release, flto
    <3> QED BY <2>1, <3>1, <3>2, <3>3
  <2>2. CASE config.buildType # "release"
    BY <2>2, Literals DEF Release
  <2> QED BY <2>1, <2>2
<1>4. /\ IsList(first) /\ Range(first) = {Compiler(a, FALSE)} /\ Len(first) = 1
      /\ first[1] = Compiler(a, FALSE) /\ flto \notin Range(first)
      /\ \A f \in Range(first) : f[1] # "-l"
  <2>1. IsList(first) /\ Range(first) = {Compiler(a, FALSE)} /\ Len(first) = 1
        /\ first[1] = Compiler(a, FALSE)
    BY Literals
  <2>2. Compiler(a, FALSE) # flto /\ Compiler(a, FALSE)[1] # "-l"
    BY DEF Compiler
  <2> QED BY <2>1, <2>2
<1>5. /\ IsList(objects) /\ Len(objects) = Len(config.cppSources) /\ flto \notin Range(objects)
      /\ \A f \in Range(objects) : f[1] # "-l"
  <2>1. IsList(objects) /\ Len(objects) = Len(config.cppSources)
    BY ConfigLists, Mapped
  <2>2. \A i \in DOMAIN objects : objects[i] # flto /\ objects[i][1] # "-l"
    OBVIOUS
  <2> QED BY <2>1, <2>2 DEF Range
<1>6. /\ IsList(output) /\ Len(output) = 1 /\ flto \notin Range(output)
      /\ \A f \in Range(output) : f[1] # "-l"
  BY Literals
<1>7. IsList(user) /\ flto \notin Range(user)
  <2>1. IsList(user)
    BY ConfigLists, Mapped
  <2>2. \A i \in DOMAIN user : user[i] # flto
    OBVIOUS
  <2> QED BY <2>1, <2>2 DEF Range
<1>8. IsList(system) /\ flto \notin Range(system)
  <2>1. IsList(system) /\ Range(system) = {<<"-l", Word("android")>>, <<"-l", Word("log")>>}
    BY Literals, Zenon
  <2>2. flto # <<"-l", Word("android")>> /\ flto # <<"-l", Word("log")>>
    OBVIOUS
  <2> QED BY <2>1, <2>2
<1>9. \A src \in Range(config.cppSources) :
        \E p \in 1..Len(objects) : objects[p] = <<"in", Object(src, a)>>
  <2>1. DOMAIN config.cppSources = 1..Len(objects)
    BY <1>5, ConfigLists, ListFacts
  <2> QED BY <2>1 DEF Range
<1> HIDE DEF flto, general, release, first, objects, output, user, system, link
<1> DEFINE options == general \o release
           start == first \o options
           all == before \o output
<1>10. /\ IsList(options) /\ Range(options) = Range(general) \cup Range(release)
  BY <1>2, <1>3, Joined
<1> HIDE DEF options
<1>11. /\ IsList(start) /\ Range(start) = Range(first) \cup Range(options)
       /\ start[1] = first[1] /\ Len(start) \in Nat /\ 1 \in 1..Len(start)
  <2>1. 1 \in 1..Len(first)
    BY <1>4
  <2>2. /\ IsList(first \o options) /\ Range(first \o options) = Range(first) \cup Range(options)
        /\ Len(first \o options) = Len(first) + Len(options)
        /\ \A i \in 1..Len(first) : (first \o options)[i] = first[i]
        /\ \A i \in 1..Len(options) : (first \o options)[Len(first) + i] = options[i]
    <3>1. IsList(first) /\ IsList(options)
      BY <1>4, <1>10
    <3> HIDE DEF start
    <3> QED BY <3>1, Joined
  <2>3. Len(options) \in Nat
    BY <1>10, ListFacts
  <2> HIDE DEF start, all
  <2>4. Len(start) = 1 + Len(options) /\ start[1] = first[1]
    BY <1>4, <2>1, <2>2 DEF start
  <2>5. Len(start) \in Nat /\ 1 \in 1..Len(start)
    BY <2>3, <2>4
  <2>6. IsList(start) /\ Range(start) = Range(first) \cup Range(options)
    BY <2>2 DEF start
  <2> QED BY <2>4, <2>5, <2>6
<1> HIDE DEF start
<1>12. before = start \o objects
  BY DEF before, start, options
<1> HIDE DEF before
<1>13. /\ IsList(before) /\ Range(before) = Range(start) \cup Range(objects)
       /\ Len(before) = Len(start) + Len(objects)
       /\ \A i \in 1..Len(start) : before[i] = start[i]
       /\ \A i \in 1..Len(objects) : before[Len(start) + i] = objects[i]
  <2>1. /\ IsList(start \o objects) /\ Range(start \o objects) = Range(start) \cup Range(objects)
        /\ Len(start \o objects) = Len(start) + Len(objects)
        /\ \A i \in 1..Len(start) : (start \o objects)[i] = start[i]
        /\ \A i \in 1..Len(objects) : (start \o objects)[Len(start) + i] = objects[i]
    BY <1>5, <1>11, Joined
  <2> QED BY <1>12, <2>1
<1>14. /\ IsList(all) /\ Range(all) = Range(before) \cup Range(output)
       /\ Len(all) = Len(before) + 1 /\ \A i \in 1..Len(before) : all[i] = before[i]
  <2>1. /\ IsList(before \o output) /\ Range(before \o output) = Range(before) \cup Range(output)
        /\ Len(before \o output) = Len(before) + Len(output)
        /\ \A i \in 1..Len(before) : (before \o output)[i] = before[i]
        /\ \A i \in 1..Len(output) : (before \o output)[Len(before) + i] = output[i]
    BY <1>6, <1>13, Joined
  <2> QED BY <1>6, <2>1
<1>15. IsList(libs) /\ Range(libs) = Range(user) \cup Range(system)
  BY <1>7, <1>8, Joined
<1> HIDE DEF all, libs
<1>16. /\ IsList(link) /\ Range(link) = Range(all) \cup Range(libs)
       /\ Len(link) = Len(all) + Len(libs) /\ \A i \in 1..Len(all) : link[i] = all[i]
  BY <1>1, <1>14, <1>15, Joined DEF all
<1>17. /\ Len(start) \in Nat /\ Len(objects) \in Nat /\ Len(all) \in Nat /\ Len(libs) \in Nat
       /\ DOMAIN link = 1..Len(link)
  BY <1>5, <1>11, <1>14, <1>15, <1>16, ListFacts
<1>18. \A j \in DOMAIN link : link[j][1] = "-l" => j > Len(all)
  <2> SUFFICES ASSUME NEW j \in DOMAIN link, j <= Len(all) PROVE link[j][1] # "-l"
    BY <1>16, <1>17
  <2>1. j \in 1..Len(all)
    BY <1>16, <1>17
  <2>2. link[j] \in Range(all)
    BY <1>14, <1>16, <2>1, ListFacts
  <2>3. Range(all) = Range(first) \cup Range(general) \cup Range(release) \cup Range(objects)
                       \cup Range(output)
    BY <1>10, <1>11, <1>13, <1>14
  <2> QED BY <1>2, <1>3, <1>4, <1>5, <1>6, <2>2, <2>3
<1>19. ASSUME NEW src \in Range(config.cppSources)
       PROVE  \E i \in DOMAIN link : /\ link[i] = <<"in", Object(src, a)>>
                                     /\ \A j \in DOMAIN link : link[j][1] = "-l" => i < j
  <2>1. PICK p \in 1..Len(objects) : objects[p] = <<"in", Object(src, a)>>
    BY <1>9
  <2> DEFINE i == Len(start) + p
  <2>2. /\ i \in 1..Len(before) /\ i \in 1..Len(all) /\ i \in DOMAIN link
        /\ \A j \in DOMAIN link : j > Len(all) => i < j
    BY <1>13, <1>14, <1>16, <1>17
  <2>3. link[i] = objects[p]
    BY <1>13, <1>14, <1>16, <2>2
  <2> QED BY <1>18, <2>1, <2>2, <2>3
<1>20. link[1] = Compiler(a, FALSE)
  <2>1. 1 \in 1..Len(before) /\ 1 \in 1..Len(all)
    BY <1>11, <1>13, <1>14, <1>17
  <2> QED BY <1>4, <1>11, <1>13, <1>14, <1>16, <2>1
<1>21. flto \in Range(link) <=> config.buildType = "release"
  BY <1>2, <1>3, <1>4, <1>5, <1>6, <1>7, <1>8, <1>10, <1>11, <1>13, <1>14, <1>15, <1>16
<1> QED BY <1>16, <1>19, <1>20, <1>21 DEF link, flto

LEMMA CommandsFit == TypeOK => CommandsCohere
<1> SUFFICES ASSUME TypeOK, NEW a \in Range(config.architectures), NEW src \in Range(config.cppSources)
             PROVE  LET cc == CompileCommand(src, a)
                        link == LinkCommand(a)
                        has(cmd, flag) == \E i \in DOMAIN cmd : cmd[i] = flag
                    IN  /\ IsC(src) => ~has(cc, <<"-std=c++17">>) /\ cc[1][1] = "clang"
                        /\ has(cc, <<"-flto">>) <=> has(link, <<"-flto">>)
                        /\ Tail(cc[1]) = Tail(link[1])
                        /\ \E i \in DOMAIN link :
                             /\ link[i] = <<"in", cc[Len(cc)][2]>>
                             /\ \A j \in DOMAIN link : link[j][1] = "-l" => i < j
  BY DEF CommandsCohere
<1> DEFINE cc == CompileCommand(src, a)
           link == LinkCommand(a)
           has(cmd, flag) == \E i \in DOMAIN cmd : cmd[i] = flag
<1>1. config \in Configs
  BY DEF TypeOK
<1>2. /\ IsList(cc) /\ cc[1] = Compiler(a, IsC(src)) /\ cc[Len(cc)] = <<"-o", Object(src, a)>>
      /\ <<"-flto">> \in Range(cc) <=> config.buildType = "release"
      /\ IsC(src) => <<"-std=c++17">> \notin Range(cc)
  BY <1>1, CompileCommandFacts
<1>3. /\ IsList(link) /\ link[1] = Compiler(a, FALSE)
      /\ <<"-flto">> \in Range(link) <=> config.buildType = "release"
      /\ \E i \in DOMAIN link : /\ link[i] = <<"in", Object(src, a)>>
                                /\ \A j \in DOMAIN link : link[j][1] = "-l" => i < j
  BY <1>1, LinkCommandFacts
<1> HIDE DEF cc, link
<1>4. \A cmd, flag : has(cmd, flag) <=> flag \in Range(cmd)
  BY DEF Range
<1>5. IsC(src) => ~has(cc, <<"-std=c++17">>) /\ cc[1][1] = "clang"
  BY <1>2, <1>4 DEF Compiler
<1>6. has(cc, <<"-flto">>) <=> has(link, <<"-flto">>)
  BY <1>2, <1>3, <1>4
<1>7. Tail(cc[1]) = Tail(link[1])
  <2>1. \A w, x, y, z : Tail(<<w, x, y, z>>) = <<x, y, z>>
    OBVIOUS
  <2> QED BY <1>2, <1>3, <2>1 DEF Compiler
<1>8. cc[Len(cc)][2] = Object(src, a)
  BY <1>2
<1> QED BY <1>3, <1>5, <1>6, <1>7, <1>8 DEF cc, link

-------------------------------------------------------------------------------
(* The tools *)

\* Of the variables that are set, the parser and the bridge take the same one, when its value
\* is an NDK.
LEMMA SameNdk ==
  ASSUME IInv, outcome = "builds",
         NEW k \in DOMAIN NdkNames, input.env[NdkNames[k]] # "unset"
  PROVE  ParserNdk = ndkRoot
<1> DEFINE counted == {i \in DOMAIN NdkNames : input.env[NdkNames[i]] \notin {"unset"}}
           usable == {i \in DOMAIN NdkNames : input.env[NdkNames[i]] \notin {"unset", ""}}
<1>1. counted \in SUBSET Nat /\ usable \in SUBSET Nat /\ k \in counted /\ usable \subseteq counted
  <2>1. DOMAIN NdkNames \subseteq Nat
    BY DEF NdkNames
  <2>2. counted \subseteq Nat /\ usable \subseteq Nat /\ usable \subseteq counted
    BY <2>1
  <2>3. k \in counted
    OBVIOUS
  <2> QED BY <2>2, <2>3
<1>2. Min(counted) \in counted /\ \A j \in counted : Min(counted) <= j
  BY <1>1, Least
<1>3. ndkRoot = input.env[NdkNames[Min(counted)]]
  BY <1>1 DEF IInv, SearchInv, Found, FirstSet
<1>4. ndkRoot # ""
  BY ConfigurationAssumption DEF IInv, SearchInv
<1>5. Min(counted) \in usable
  BY <1>2, <1>3, <1>4
<1>6. Min(usable) \in usable /\ \A j \in usable : Min(usable) <= j
  BY <1>1, <1>5, Least
<1>7. Min(usable) = Min(counted)
  <2>1. Min(usable) <= Min(counted) /\ Min(counted) <= Min(usable)
    BY <1>1, <1>2, <1>5, <1>6
  <2>2. Min(usable) \in Nat /\ Min(counted) \in Nat
    BY <1>1, <1>2, <1>6
  <2> HIDE DEF usable, counted
  <2> QED BY <2>1, <2>2
<1> QED BY <1>3, <1>5, <1>7 DEF ParserNdk, FirstSet

LEMMA RunnableAapt2 ==
  ASSUME TypeOK, Aapt2 = "sdk",
         input.env.pathAapt2 \/ (opts.host = "auto" /\ input.env.sdkAapt2 = input.env.machine)
  PROVE  input.env.sdkAapt2 \in {input.env.machine, "script"}
<1>1. opts.host \in {"auto", "arm64", "x86_64"}
  BY DEF TypeOK
<1> QED BY <1>1 DEF Aapt2

\* Names of versions are ordered; a finite set of them has a greatest.
LEMMA BeforeIsTotal ==
  ASSUME NEW v \in Seq(Nat), NEW w \in Seq(Nat), v # w
  PROVE  Before(v, w) \/ Before(w, v)
<1> DEFINE D == {i \in DOMAIN v \cap DOMAIN w : v[i] # w[i]}
<1>1. /\ Len(v) \in Nat /\ DOMAIN v = 1..Len(v) /\ \A i \in DOMAIN v : v[i] \in Nat
      /\ Len(w) \in Nat /\ DOMAIN w = 1..Len(w) /\ \A i \in DOMAIN w : w[i] \in Nat
  OBVIOUS
<1>2. CASE D # {}
  <2>1. D \in SUBSET Nat
    BY <1>1
  <2>2. PICK i \in D : \A j \in D : i <= j
    BY <1>2, <2>1, Least
  <2>3. i \in Nat /\ i \in DOMAIN v /\ i \in DOMAIN w /\ v[i] # w[i]
    BY <1>1
  <2>4. \A j \in 1..i-1 : v[j] = w[j]
    <3> SUFFICES ASSUME NEW j \in 1..i-1 PROVE v[j] = w[j]
      OBVIOUS
    <3>1. j \in Nat /\ j < i /\ j \in DOMAIN v /\ j \in DOMAIN w
      BY <1>1, <2>3
    <3>2. ~(i <= j)
      BY <2>3, <3>1
    <3> QED BY <2>2, <3>1, <3>2
  <2>5. v[i] < w[i] \/ w[i] < v[i]
    <3>1. v[i] \in Nat /\ w[i] \in Nat
      BY <1>1, <2>3
    <3> QED BY <2>3, <3>1
  <2>6. \A j \in 1..i-1 : w[j] = v[j]
    BY <2>4
  <2> QED BY <2>3, <2>4, <2>5, <2>6 DEF Before
<1>3. CASE D = {}
  <2>1. Len(v) # Len(w)
    <3> SUFFICES ASSUME Len(v) = Len(w) PROVE FALSE
      OBVIOUS
    <3>1. \A i \in 1..Len(v) : v[i] = w[i]
      BY <1>1, <1>3
    <3> QED BY <3>1, SeqEqual
  <2>2. CASE Len(v) < Len(w)
    <3>1. \A i \in DOMAIN v : i \in DOMAIN w
      BY <1>1, <2>2
    <3>2. \A i \in DOMAIN v : v[i] = w[i]
      BY <1>3, <3>1
    <3> QED BY <2>2, <3>2 DEF Before
  <2>3. CASE Len(w) < Len(v)
    <3>1. \A i \in DOMAIN w : i \in DOMAIN v
      BY <1>1, <2>3
    <3>2. \A i \in DOMAIN w : w[i] = v[i]
      BY <1>3, <3>1
    <3> QED BY <2>3, <3>2 DEF Before
  <2>4. Len(v) < Len(w) \/ Len(w) < Len(v)
    <3>1. Len(v) \in Nat /\ Len(w) \in Nat
      BY <1>1
    <3> HIDE DEF D
    <3> QED BY <2>1, <3>1
  <2> QED BY <2>2, <2>3, <2>4
<1> QED BY <1>2, <1>3

LEMMA BeforeIsTransitive ==
  ASSUME NEW u \in Seq(Nat), NEW v \in Seq(Nat), NEW w \in Seq(Nat), Before(u, v), Before(v, w)
  PROVE  Before(u, w)
<1> DEFINE differ(x, y, i) == /\ i \in DOMAIN x \cap DOMAIN y /\ x[i] < y[i]
                              /\ \A j \in 1..i-1 : x[j] = y[j]
           prefix(x, y) == Len(x) < Len(y) /\ \A i \in DOMAIN x : x[i] = y[i]
<1>1. /\ Len(u) \in Nat /\ DOMAIN u = 1..Len(u) /\ \A i \in DOMAIN u : u[i] \in Nat
      /\ Len(v) \in Nat /\ DOMAIN v = 1..Len(v) /\ \A i \in DOMAIN v : v[i] \in Nat
      /\ Len(w) \in Nat /\ DOMAIN w = 1..Len(w) /\ \A i \in DOMAIN w : w[i] \in Nat
  OBVIOUS
<1>2. /\ (\E i : differ(u, v, i)) \/ prefix(u, v)
      /\ (\E i : differ(v, w, i)) \/ prefix(v, w)
  BY DEF Before
<1>3. ASSUME NEW i, differ(u, v, i), NEW k, differ(v, w, k) PROVE Before(u, w)
  <2>1. i \in Nat /\ k \in Nat /\ i >= 1 /\ k >= 1
    BY <1>1, <1>3
  <2>2. CASE i < k
    <3>1. v[i] = w[i] /\ i \in DOMAIN w /\ \A j \in 1..i-1 : v[j] = w[j]
      BY <1>1, <1>3, <2>1, <2>2
    <3> QED BY <1>3, <3>1 DEF Before
  <2>3. CASE k < i
    <3>1. u[k] = v[k] /\ k \in DOMAIN u /\ \A j \in 1..k-1 : u[j] = v[j]
      BY <1>1, <1>3, <2>1, <2>3
    <3> QED BY <1>3, <3>1 DEF Before
  <2>4. CASE i = k
    <3>1. u[i] < w[i]
      BY <1>1, <1>3, <2>4
    <3> QED BY <1>3, <2>4, <3>1 DEF Before
  <2> QED BY <2>1, <2>2, <2>3, <2>4
<1>4. ASSUME NEW i, differ(u, v, i), prefix(v, w) PROVE Before(u, w)
  <2>1. i \in Nat /\ i \in DOMAIN v /\ \A j \in 1..i-1 : j \in DOMAIN v
    BY <1>1, <1>4
  <2>2. \A j \in DOMAIN v : j \in DOMAIN w /\ v[j] = w[j]
    BY <1>1, <1>4
  <2>3. i \in DOMAIN w /\ v[i] = w[i] /\ \A j \in 1..i-1 : v[j] = w[j]
    BY <2>1, <2>2
  <2> QED BY <1>4, <2>3 DEF Before
<1>5. ASSUME prefix(u, v), NEW k, differ(v, w, k) PROVE Before(u, w)
  <2>1. k \in Nat /\ k >= 1
    BY <1>1, <1>5
  <2>2. CASE k <= Len(u)
    <3>1. k \in DOMAIN u /\ u[k] = v[k] /\ \A j \in 1..k-1 : u[j] = v[j]
      <4>1. k \in DOMAIN u /\ \A j \in 1..k-1 : j \in DOMAIN u
        BY <1>1, <2>1, <2>2
      <4> QED BY <1>5, <4>1
    <3> QED BY <1>5, <3>1 DEF Before
  <2>3. CASE k > Len(u)
    <3>1. Len(u) < Len(w)
      BY <1>1, <1>5, <2>1, <2>3
    <3>2. \A j \in DOMAIN u : j \in 1..k-1 /\ u[j] = v[j]
      BY <1>1, <1>5, <2>1, <2>3
    <3> QED BY <1>5, <3>1, <3>2 DEF Before
  <2> QED BY <1>1, <2>1, <2>2, <2>3
<1>6. ASSUME prefix(u, v), prefix(v, w) PROVE Before(u, w)
  <2>1. Len(u) < Len(w) /\ \A j \in DOMAIN u : j \in DOMAIN v /\ u[j] = v[j] /\ v[j] = w[j]
    BY <1>1, <1>6
  <2> QED BY <2>1 DEF Before
<1> QED BY <1>2, <1>3, <1>4, <1>5, <1>6

LEMMA NewestIsGreatest ==
  ASSUME NEW S \in SUBSET Seq(Nat), IsFiniteSet(S), S # {}
  PROVE  Newest(S) \in S /\ \A w \in S \ {Newest(S)} : Before(w, Newest(S))
<1> DEFINE below(v) == {w \in S : Before(w, v)}
           above(v) == Cardinality(S) - Cardinality(below(v))
           R == {above(v) : v \in S}
<1>1. \A v \in S : /\ below(v) \in SUBSET S /\ IsFiniteSet(below(v))
                   /\ Cardinality(below(v)) \in Nat /\ Cardinality(S) \in Nat
                   /\ Cardinality(below(v)) <= Cardinality(S)
  <2> SUFFICES ASSUME NEW v \in S
               PROVE  /\ below(v) \in SUBSET S /\ IsFiniteSet(below(v))
                      /\ Cardinality(below(v)) \in Nat /\ Cardinality(S) \in Nat
                      /\ Cardinality(below(v)) <= Cardinality(S)
    OBVIOUS
  <2>1. below(v) \in SUBSET S
    OBVIOUS
  <2> HIDE DEF below
  <2>2. IsFiniteSet(below(v)) /\ Cardinality(below(v)) <= Cardinality(S)
    BY <2>1, FS_Subset
  <2> QED BY <2>1, <2>2, FS_CardinalityType
<1>2. PICK v \in S : \A w \in S : above(v) <= above(w)
  <2>1. \A w \in S : above(w) \in Nat
    <3> HIDE DEF below
    <3> QED BY <1>1
  <2> HIDE DEF above
  <2>2. R \in SUBSET Nat /\ R # {}
    BY <2>1
  <2>3. PICK r \in R : \A x \in R : r <= x
    BY <2>2, Least
  <2> QED BY <2>3
<1>3. ASSUME NEW w \in S, w # v, ~Before(w, v) PROVE FALSE
  <2>1. Before(v, w)
    BY <1>3, BeforeIsTotal
  <2>2. \A u \in S : Before(u, v) => Before(u, w)
    BY <2>1, BeforeIsTransitive
  <2>3. ~Before(v, v)
    <3>1. Len(v) \in Nat /\ \A i \in DOMAIN v : v[i] \in Nat
      OBVIOUS
    <3> QED BY <3>1 DEF Before
  <2>4. below(v) \in SUBSET below(w) /\ v \in below(w) /\ v \notin below(v)
    BY <2>1, <2>2, <2>3
  <2> HIDE DEF below
  <2>5. Cardinality(below(v)) < Cardinality(below(w))
    <3>1. Cardinality(below(v)) <= Cardinality(below(w))
      BY <1>1, <2>4, FS_Subset
    <3>2. Cardinality(below(v)) # Cardinality(below(w))
      BY <1>1, <2>4, FS_Subset
    <3> QED BY <1>1, <3>1, <3>2
  <2>6. above(v) <= above(w)
    BY <1>2
  <2> QED BY <1>1, <2>5, <2>6
<1>4. \A w \in S \ {v} : Before(w, v)
  BY <1>3
<1> QED BY <1>4 DEF Newest

LEMMA ToolsFit == IInv => ToolsAgree
<1> SUFFICES ASSUME IInv, outcome = "builds" PROVE ToolsAgree
  BY DEF ToolsAgree
<1> DEFINE root == Found(SdkNames, "HOME/assets/android-sdk")
           versions == input.env.sdks[root]
<1>1. (\E i \in DOMAIN NdkNames : input.env[NdkNames[i]] # "unset") => ParserNdk = ndkRoot
  BY SameNdk
<1>2. input.env.pathAapt2 \/ (opts.host = "auto" /\ input.env.sdkAapt2 = input.env.machine)
        => (Aapt2 = "sdk" => input.env.sdkAapt2 \in {input.env.machine, "script"})
  BY RunnableAapt2 DEF IInv
<1>3. /\ versions \in SUBSET Seq(Nat) /\ IsFiniteSet(versions) /\ versions # {}
      /\ buildTools = Newest(versions)
  BY ConfigurationAssumption DEF IInv, SearchInv
<1> HIDE DEF versions
<1>4. buildTools \in versions /\ \A w \in versions \ {buildTools} : Before(w, buildTools)
  BY <1>3, NewestIsGreatest
<1>5. ASSUME \A v \in versions : Len(v) = Len(buildTools), NEW v \in versions \ {buildTools}
      PROVE  \E i \in DOMAIN v : /\ v[i] < buildTools[i]
                                 /\ \A j \in 1..i-1 : v[j] <= buildTools[j]
  <2>1. v \in Seq(Nat) /\ buildTools \in Seq(Nat) /\ Len(v) = Len(buildTools)
    BY <1>3, <1>4, <1>5
  <2>2. ~(Len(v) < Len(buildTools))
    BY <2>1
  <2>3. PICK i \in DOMAIN v \cap DOMAIN buildTools :
          v[i] < buildTools[i] /\ \A j \in 1..i-1 : v[j] = buildTools[j]
    BY <1>4, <2>2 DEF Before
  <2>4. \A j \in 1..i-1 : v[j] \in Nat
    BY <2>1
  <2> QED BY <2>3, <2>4
<1> QED BY <1>1, <1>2, <1>5 DEF ToolsAgree, versions

-------------------------------------------------------------------------------
(* Induction, and sequences of sequences put together *)

\* Induction, for a set of numbers.
LEMMA Inductive ==
  ASSUME NEW T \in SUBSET Nat, 0 \in T, \A n \in T : n + 1 \in T
  PROVE  T = Nat
<1> SUFFICES ASSUME Nat \ T # {} PROVE FALSE
  OBVIOUS
<1> DEFINE m == Min(Nat \ T)
<1>1. m \in Nat \ T /\ \A j \in Nat \ T : m <= j
  <2>1. Nat \ T \in SUBSET Nat
    OBVIOUS
  <2> QED BY <2>1, Least
<1> HIDE DEF m
<1>2. m # 0
  BY <1>1
<1>3. m - 1 \in Nat /\ ~(m <= m - 1)
  BY <1>1, <1>2
<1>4. m - 1 \in T
  BY <1>1, <1>3
<1>5. m - 1 + 1 = m
  BY <1>1
<1> QED BY <1>1, <1>4, <1>5

\* A function that gives the concatenation of the first i sequences, for every i up to n.
Sums(s, n, f) == f = [i \in 1..n |-> IF i = 1 THEN s[i] ELSE f[i-1] \o s[i]]

LEMMA SumsExist == ASSUME NEW s, NEW n \in Nat PROVE \E f : Sums(s, n, f)
<1> DEFINE T == {m \in Nat : \E f : Sums(s, m, f)}
<1>1. 0 \in T
  <2>1. Sums(s, 0, [i \in 1..0 |-> <<>>])
    BY DEF Sums
  <2> QED BY <2>1
<1>2. ASSUME NEW m \in T PROVE m + 1 \in T
  <2>1. m \in Nat /\ \E f : Sums(s, m, f)
    OBVIOUS
  <2>2. PICK f : Sums(s, m, f)
    BY <2>1
  <2> DEFINE last == IF m + 1 = 1 THEN s[m + 1] ELSE f[m] \o s[m + 1]
             g == [i \in 1..m + 1 |-> IF i <= m THEN f[i] ELSE last]
  <2>3. \A i \in 1..m : f[i] = IF i = 1 THEN s[i] ELSE f[i-1] \o s[i]
    BY <2>2 DEF Sums
  <2>4. \A i \in 1..m + 1 : (i <= m => i \in 1..m) /\ (~(i <= m) => i = m + 1)
    BY <2>1
  <2>5. \A i \in 1..m + 1 : i # 1 => i - 1 \in 1..m /\ i - 1 \in 1..m + 1 /\ i - 1 <= m
    BY <2>1
  <2>6. \A i \in 1..m + 1 : i # 1 => g[i - 1] = f[i - 1]
    BY <2>5
  <2>7. m + 1 - 1 = m
    BY <2>1
  <2>8. \A i \in 1..m + 1 : g[i] = IF i = 1 THEN s[i] ELSE g[i-1] \o s[i]
    <3> SUFFICES ASSUME NEW i \in 1..m + 1 PROVE g[i] = IF i = 1 THEN s[i] ELSE g[i-1] \o s[i]
      OBVIOUS
    <3>1. CASE i <= m
      <4>1. g[i] = f[i]
        BY <3>1
      <4>2. i \in 1..m
        BY <2>4, <3>1
      <4> HIDE DEF g
      <4> QED BY <2>3, <2>6, <4>1, <4>2
    <3>2. CASE ~(i <= m)
      <4>1. g[i] = last /\ i = m + 1
        BY <2>4, <3>2
      <4>2. i # 1 => g[i-1] = f[m]
        BY <2>6, <2>7, <4>1
      <4> HIDE DEF g
      <4> QED BY <4>1, <4>2
    <3> QED BY <3>1, <3>2
  <2>9. g = [i \in 1..m + 1 |-> g[i]]
    OBVIOUS
  <2> HIDE DEF g
  <2>10. Sums(s, m + 1, g)
    BY <2>8, <2>9 DEF Sums
  <2>11. m + 1 \in Nat
    BY <2>1
  <2> QED BY <2>10, <2>11
<1> HIDE DEF T
<1>3. T = Nat
  <2>1. T \in SUBSET Nat
    BY DEF T
  <2> QED BY <1>1, <1>2, <2>1, Inductive
<1> QED BY <1>3 DEF T

LEMMA SumsAt ==
  ASSUME NEW s, NEW n, NEW f, Sums(s, n, f), NEW i \in 1..n
  PROVE  f[i] = IF i = 1 THEN s[i] ELSE f[i-1] \o s[i]
BY DEF Sums

LEMMA SumsLast ==
  ASSUME NEW s, NEW n \in Nat, n # 0, NEW f, Sums(s, n + 1, f)
  PROVE  f[n + 1] = f[n] \o s[n + 1]
<1>1. PICK i \in 1..n + 1 : i = n + 1
  OBVIOUS
<1>2. f[i] = IF i = 1 THEN s[i] ELSE f[i-1] \o s[i]
  BY SumsAt
<1>3. i # 1 /\ i - 1 = n
  BY <1>1
<1>4. f[i] = f[i-1] \o s[i]
  BY <1>2, <1>3
<1> QED BY <1>1, <1>3, <1>4

\* One sequence more does not change those before.
LEMMA SumsAgree ==
  ASSUME NEW s, NEW t, NEW f, NEW g, NEW n \in Nat, Sums(s, n, f), Sums(t, n + 1, g),
         \A i \in 1..n : t[i] = s[i]
  PROVE  \A i \in 1..n : f[i] = g[i]
<1> DEFINE D == {i \in 1..n : f[i] # g[i]}
<1> SUFFICES ASSUME D # {} PROVE FALSE
  OBVIOUS
<1> DEFINE d == Min(D)
<1>1. d \in D /\ \A j \in D : d <= j
  <2>1. D \in SUBSET Nat
    OBVIOUS
  <2> QED BY <2>1, Least
<1> HIDE DEF d
<1>2. d \in 1..n /\ d \in 1..n + 1 /\ d \in Nat
  BY <1>1
<1>3. /\ f[d] = IF d = 1 THEN s[d] ELSE f[d-1] \o s[d]
      /\ g[d] = IF d = 1 THEN t[d] ELSE g[d-1] \o t[d]
  BY <1>2, SumsAt
<1>4. d # 1 => f[d-1] = g[d-1]
  <2> SUFFICES ASSUME d # 1 PROVE f[d-1] = g[d-1]
    OBVIOUS
  <2>1. d - 1 \in 1..n /\ ~(d <= d - 1)
    BY <1>2
  <2> QED BY <1>1, <2>1
<1>5. f[d] # g[d] /\ s[d] = t[d]
  BY <1>1, <1>2
<1> QED BY <1>3, <1>4, <1>5

LEMMA FlattenIs ==
  ASSUME NEW s, Len(s) \in Nat, Len(s) # 0
  PROVE  \E f : Sums(s, Len(s), f) /\ FlattenSeq(s) = f[Len(s)]
<1> DEFINE flatten == CHOOSE f : f = [i \in 1..Len(s) |-> IF i = 1 THEN s[i] ELSE f[i-1] \o s[i]]
<1>1. FlattenSeq(s) = flatten[Len(s)]
  BY DEF FlattenSeq
<1>2. \E f : f = [i \in 1..Len(s) |-> IF i = 1 THEN s[i] ELSE f[i-1] \o s[i]]
  BY SumsExist DEF Sums
<1>3. flatten = [i \in 1..Len(s) |-> IF i = 1 THEN s[i] ELSE flatten[i-1] \o s[i]]
  BY <1>2
<1> HIDE DEF flatten
<1>4. Sums(s, Len(s), flatten)
  BY <1>3 DEF Sums
<1> QED BY <1>1, <1>4

\* A sequence more is its elements more.
LEMMA FlattenAppend ==
  ASSUME NEW S, NEW s \in Seq(Seq(S)), NEW t \in Seq(S)
  PROVE  FlattenSeq(Append(s, t)) = FlattenSeq(s) \o t
<1> DEFINE n == Len(s)
           st == Append(s, t)
<1>1. /\ n \in Nat /\ st \in Seq(Seq(S)) /\ Len(st) = n + 1 /\ st[n + 1] = t
      /\ \A i \in 1..n : st[i] = s[i]
  BY AppendProperties
<1> HIDE DEF st
<1>2. PICK g : Sums(st, n + 1, g) /\ FlattenSeq(st) = g[n + 1]
  BY <1>1, FlattenIs
<1>3. CASE n = 0
  <2>1. FlattenSeq(s) = <<>>
    <3>1. s = <<>>
      BY <1>3
    <3> QED BY <1>3, <3>1 DEF FlattenSeq
  <2>2. 1 \in 1..n + 1
    BY <1>3
  <2>3. g[1] = st[1]
    BY <1>2, <2>2 DEF Sums
  <2>4. <<>> \o t = t
    OBVIOUS
  <2> QED BY <1>1, <1>2, <1>3, <2>1, <2>3, <2>4 DEF st
<1>4. CASE n # 0
  <2>1. PICK f : Sums(s, n, f) /\ FlattenSeq(s) = f[n]
    BY <1>1, <1>4, FlattenIs
  <2>3. \A i \in 1..n : g[i] = f[i]
    <3> HIDE DEF n
    <3>1. n \in Nat /\ \A i \in 1..n : st[i] = s[i]
      BY <1>1
    <3> QED BY <1>2, <2>1, <3>1, SumsAgree
  <2>4. n \in 1..n
    BY <1>1, <1>4
  <2>5. g[n + 1] = g[n] \o st[n + 1]
    <3> HIDE DEF n
    <3> QED BY <1>1, <1>2, <1>4, SumsLast
  <2> QED BY <1>1, <1>2, <2>1, <2>3, <2>4, <2>5 DEF st
<1> QED BY <1>3, <1>4

LEMMA FlattenNothing == FlattenSeq(<<>>) = <<>>
BY DEF FlattenSeq

LEMMA SumsHaveType ==
  ASSUME NEW S, NEW n \in Nat, NEW s, \A i \in 1..n : s[i] \in Seq(S), NEW f, Sums(s, n, f)
  PROVE  \A i \in 1..n : f[i] \in Seq(S)
<1> DEFINE D == {i \in 1..n : f[i] \notin Seq(S)}
<1> SUFFICES ASSUME D # {} PROVE FALSE
  OBVIOUS
<1> DEFINE d == Min(D)
<1>1. d \in D /\ \A j \in D : d <= j
  <2>1. D \in SUBSET Nat
    OBVIOUS
  <2> QED BY <2>1, Least
<1> HIDE DEF d
<1>2. d \in 1..n /\ f[d] \notin Seq(S) /\ s[d] \in Seq(S)
  BY <1>1
<1>3. f[d] = IF d = 1 THEN s[d] ELSE f[d-1] \o s[d]
  BY <1>2, SumsAt
<1>4. CASE d = 1
  BY <1>2, <1>3, <1>4
<1>5. CASE d # 1
  <2>1. d - 1 \in 1..n /\ ~(d <= d - 1)
    BY <1>2, <1>5
  <2>2. f[d-1] \in Seq(S)
    BY <1>1, <2>1
  <2>3. f[d-1] \o s[d] \in Seq(S)
    BY <1>2, <2>2
  <2> QED BY <1>2, <1>3, <1>5, <2>3
<1> QED BY <1>4, <1>5

LEMMA FlattenType == ASSUME NEW S, NEW s \in Seq(Seq(S)) PROVE FlattenSeq(s) \in Seq(S)
<1> DEFINE n == Len(s)
<1>1. n \in Nat /\ \A i \in 1..n : s[i] \in Seq(S)
  OBVIOUS
<1>2. CASE n = 0
  <2>1. s = <<>> /\ <<>> \in Seq(S)
    BY <1>2
  <2> QED BY <2>1, FlattenNothing
<1>3. CASE n # 0
  <2>1. PICK f : Sums(s, n, f) /\ FlattenSeq(s) = f[n]
    BY <1>1, <1>3, FlattenIs
  <2>2. n \in 1..n
    BY <1>1, <1>3
  <2> HIDE DEF n
  <2>3. \A i \in 1..n : f[i] \in Seq(S)
    BY <1>1, <2>1, SumsHaveType
  <2> QED BY <2>1, <2>2, <2>3
<1> QED BY <1>2, <1>3

\* The greatest of some numbers up to n, and of these and n + 1.
LEMMA GreatestNext ==
  ASSUME NEW n \in Nat, NEW S \in SUBSET (1..n)
  PROVE  Max(S \cup {n + 1}) = n + 1
<1> DEFINE R == S \cup {n + 1}
<1>1. R \in SUBSET (1..n + 1) /\ R # {} /\ n + 1 \in Nat /\ n + 1 \in R
  OBVIOUS
<1> HIDE DEF R
<1>2. Max(R) \in R /\ \A j \in R : j <= Max(R)
  BY <1>1, Greatest
<1>3. Max(R) \in 1..n + 1 /\ n + 1 <= Max(R)
  BY <1>1, <1>2
<1>4. Max(R) = n + 1
  BY <1>3
<1> QED BY <1>4 DEF R

\* The greatest of some numbers up to n, or 0.
LEMMA GreatestOrNone ==
  ASSUME NEW n \in Nat, NEW S \in SUBSET Nat
  PROVE  LET U == {0} \cup (S \cap 1..n)
         IN  Max(U) \in 0..n /\ Max(U) \in U /\ \A j \in U : j <= Max(U)
<1> DEFINE R == S \cap 1..n
           U == {0} \cup R
<1>1. R \in SUBSET (1..n) /\ U \in SUBSET (0..n) /\ 0 \in U
  OBVIOUS
<1>2. \E m \in U : \A j \in U : j <= m
  <2>1. CASE R = {}
    <3>1. U = {0}
      BY <2>1
    <3> QED BY <3>1
  <2>2. CASE R # {}
    <3> HIDE DEF R
    <3>1. Max(R) \in R /\ \A j \in R : j <= Max(R)
      BY <1>1, <2>2, Greatest
    <3>2. PICK m \in 1..n : m \in R /\ \A j \in R : j <= m
      BY <1>1, <3>1
    <3> QED BY <3>2
  <2> QED BY <2>1, <2>2
<1> HIDE DEF U
<1>3. Max(U) \in U /\ \A j \in U : j <= Max(U)
  BY <1>2 DEF Max
<1> QED BY <1>1, <1>3 DEF U

LEMMA WordFacts ==
  /\ \A w \in Words : w \in Seq(Letters) /\ Len(w) \in Nat /\ Len(w) # 0 /\ DOMAIN w = 1..Len(w)
  /\ \A w \in Seq(Letters) : Len(w) # 0 => w \in Words
  /\ \A x : Len(<<x>>) = 1 /\ DOMAIN <<x>> = 1..1 /\ <<x>>[1] = x
  /\ \A x \in Letters : <<x>> \in Words
<1>1. \A w \in Words : w \in Seq(Letters) /\ Len(w) \in Nat /\ Len(w) # 0 /\ DOMAIN w = 1..Len(w)
  <2> SUFFICES ASSUME NEW w \in Words
               PROVE  w \in Seq(Letters) /\ Len(w) \in Nat /\ Len(w) # 0 /\ DOMAIN w = 1..Len(w)
    OBVIOUS
  <2>1. w \in Seq(Letters) /\ w # <<>>
    BY DEF Words
  <2> QED BY <2>1, EmptySeq, LenProperties
<1>2. \A w \in Seq(Letters) : Len(w) # 0 => w \in Words
  BY DEF Words
<1>3. \A x : Len(<<x>>) = 1 /\ DOMAIN <<x>> = 1..1 /\ <<x>>[1] = x
  OBVIOUS
<1>4. ASSUME NEW x \in Letters PROVE <<x>> \in Words
  <2>1. <<x>> \in Seq(Letters) /\ Len(<<x>>) = 1
    OBVIOUS
  <2>2. Len(<<x>>) # 0
    BY <2>1
  <2> QED BY <1>2, <2>1, <2>2
<1> QED BY <1>1, <1>2, <1>3, <1>4

\* Words put together are a word.
LEMMA WordOfWords ==
  ASSUME NEW s \in Seq(Words), Len(s) # 0 PROVE FlattenSeq(s) \in Words
<1> DEFINE n == Len(s)
           front == SubSeq(s, 1, n - 1)
<1>1. n \in Nat /\ n # 0 /\ n - 1 \in Nat /\ n - 1 + 1 = n /\ s[n] \in Words
  OBVIOUS
<1>2. front \in Seq(Words) /\ s = Append(front, s[n])
  <2>1. front \in Seq(Words)
    OBVIOUS
  <2>2. PICK m \in Nat : m = n - 1
    BY <1>1
  <2>3. m + 1 = n
    BY <1>1, <2>2
  <2>4. SubSeq(s, 1, m + 1) = Append(SubSeq(s, 1, m), s[m + 1])
    BY <2>3
  <2>5. SubSeq(s, 1, n) = s
    BY SubSeqFull
  <2> QED BY <2>1, <2>2, <2>3, <2>4, <2>5
<1> HIDE DEF front, n
<1>3. front \in Seq(Seq(Letters)) /\ s[n] \in Seq(Letters)
  <2>1. Words \subseteq Seq(Letters)
    BY DEF Words
  <2> QED BY <1>1, <1>2, <2>1, SeqMonotonic
<1>4. FlattenSeq(s) = FlattenSeq(front) \o s[n]
  BY <1>2, <1>3, FlattenAppend
<1>5. FlattenSeq(front) \in Seq(Letters) /\ Len(FlattenSeq(front)) \in Nat
  BY <1>3, FlattenType
<1>6. FlattenSeq(s) \in Seq(Letters) /\ Len(FlattenSeq(s)) = Len(FlattenSeq(front)) + Len(s[n])
  BY <1>3, <1>4, <1>5, ConcatProperties
<1>7. Len(s[n]) \in Nat /\ Len(s[n]) # 0
  BY <1>1, WordFacts
<1> QED BY <1>5, <1>6, <1>7, WordFacts

\* A word whose letters stand for words stands for a word.
LEMMA WordOfLetters ==
  ASSUME NEW w \in Words, NEW f, f = [i \in DOMAIN w |-> f[i]], \A i \in DOMAIN w : f[i] \in Words
  PROVE  FlattenSeq(f) \in Words
<1>1. Len(w) \in Nat /\ Len(w) # 0 /\ DOMAIN w = 1..Len(w)
  BY WordFacts
<1>2. f \in [1..Len(w) -> Words]
  BY <1>1
<1>3. f \in Seq(Words) /\ Len(f) = Len(w)
  BY <1>1, <1>2, FunctionIsSeq
<1> QED BY <1>1, <1>3, WordOfWords

-------------------------------------------------------------------------------
(* The types: what the parser reads *)

Plain == Tokens \ {Hash}

LEMMA TokenFacts ==
  /\ Plain = Letters \cup {Quote} /\ Quote \notin Letters
  /\ Quote # Blank /\ <<Blank>> \in Seq(Plain)
  /\ \A x \in Strings : x # "" => Word(x) \in Words
  /\ \A t \in Texts : t[2] \in Strings
<1>1. \A x \in Texts \cup ({"var"} \X Strings) : Len(x) = 2
  <2>1. \A x \in {"text", "var"} \X Strings : x = <<x[1], x[2]>>
    OBVIOUS
  <2>2. \A a, b : Len(<<a, b>>) = 2
    OBVIOUS
  <2>3. \A x \in Texts \cup ({"var"} \X Strings) : x \in {"text", "var"} \X Strings
    BY DEF Texts
  <2> QED BY <2>1, <2>2, <2>3
<1>2. \A x \in {Open, Close, Blank, Quote, Hash} : Len(x) = 1
  <2>1. \A x : Len(<<x>>) = 1
    OBVIOUS
  <2> QED BY <2>1 DEF Open, Close, Blank, Quote, Hash
<1>3. /\ Quote \notin {Open, Close, Blank, Hash} /\ Hash \notin {Open, Close, Blank, Quote}
  BY DEF Open, Close, Blank, Quote, Hash
<1>4. Quote \notin Letters /\ Hash \notin Letters
  <2>1. ASSUME NEW q \in {Quote, Hash}, q \in Letters PROVE FALSE
    <3>1. q \in Texts \cup ({"var"} \X Strings) \/ q \in {Open, Close, Blank}
      BY <2>1 DEF Letters
    <3> QED BY <1>1, <1>2, <1>3, <3>1
  <2> QED BY <2>1
<1>5. Plain = Letters \cup {Quote}
  BY <1>3, <1>4 DEF Plain, Tokens
<1>6. Quote # Blank /\ <<Blank>> \in Seq(Plain)
  <2>1. Blank \in Plain
    BY <1>5 DEF Letters
  <2>2. \A x \in Plain : <<x>> \in Seq(Plain)
    OBVIOUS
  <2> QED BY <1>3, <2>1, <2>2
<1>7. ASSUME NEW x \in Strings, x # "" PROVE Word(x) \in Words
  <2>1. Text(x) \in Letters
    BY <1>7 DEF Text, Letters, Texts
  <2> QED BY <2>1, WordFacts DEF Word
<1>8. \A t \in Texts : t[2] \in Strings
  BY DEF Texts
<1> QED BY <1>4, <1>5, <1>6, <1>7, <1>8

LEMMA NoneIsString == "none" \in Strings
BY ConfigurationAssumption

LEMMA CommentsGo == ASSUME NEW line \in Seq(Tokens) PROVE WithoutComment(line) \in Seq(Plain)
<1> DEFINE S == At(line, Hash)
           m == Min(S)
<1>1. Len(line) \in Nat /\ DOMAIN line = 1..Len(line) /\ \A i \in DOMAIN line : line[i] \in Tokens
  OBVIOUS
<1>2. CASE S = {}
  <2>1. \A i \in 1..Len(line) : line[i] \in Plain
    BY <1>1, <1>2 DEF At, Plain
  <2>2. line \in [1..Len(line) -> Plain]
    <3>1. line \in [1..Len(line) -> Tokens]
      BY LenProperties
    <3> QED BY <2>1, <3>1
  <2> QED BY <1>1, <1>2, <2>2, FunctionIsSeq DEF WithoutComment
<1>3. CASE S # {}
  <2>1. S \in SUBSET Nat /\ S \subseteq 1..Len(line)
    BY <1>1 DEF At
  <2>2. m \in S /\ \A j \in S : m <= j
    BY <1>3, <2>1, Least
  <2> HIDE DEF m
  <2>3. \A i \in 1..m-1 : line[i] \in Plain
    <3> SUFFICES ASSUME NEW i \in 1..m-1 PROVE line[i] \in Plain
      OBVIOUS
    <3>1. m \in 1..Len(line)
      BY <2>1, <2>2
    <3>2. i \in DOMAIN line /\ ~(m <= i)
      BY <1>1, <3>1
    <3>3. line[i] # Hash
      BY <2>2, <3>2 DEF At
    <3> QED BY <1>1, <3>2, <3>3 DEF Plain
  <2>4. m - 1 \in Int
    BY <2>1, <2>2
  <2>5. SubSeq(line, 1, m - 1) \in Seq(Plain)
    BY <2>3, <2>4, SubSeqProperties
  <2> QED BY <1>3, <2>5 DEF WithoutComment, m
<1> QED BY <1>2, <1>3

\* The split on blanks, as far as it has come.
Reads(text, n, r) ==
  r = [i \in 0..n |-> IF i = 0 THEN [words |-> <<>>, word |-> <<>>, quoted |-> FALSE]
                      ELSE Read(r[i-1], text[i])]

LEMMA ReadsExist == ASSUME NEW text, NEW n \in Nat PROVE \E r : Reads(text, n, r)
<1> DEFINE none == [words |-> <<>>, word |-> <<>>, quoted |-> FALSE]
           T == {m \in Nat : \E r : Reads(text, m, r)}
<1>1. 0 \in T
  <2> DEFINE r == [i \in 0..0 |-> none]
  <2>1. \A i \in 0..0 : i = 0
    OBVIOUS
  <2>2. r = [i \in 0..0 |-> IF i = 0 THEN none ELSE Read(r[i-1], text[i])]
    BY <2>1
  <2>3. Reads(text, 0, r)
    BY <2>2 DEF Reads
  <2> QED BY <2>3
<1>2. ASSUME NEW m \in T PROVE m + 1 \in T
  <2>1. m \in Nat /\ m + 1 \in Nat /\ \E r : Reads(text, m, r)
    OBVIOUS
  <2>2. PICK r : Reads(text, m, r)
    BY <2>1
  <2> DEFINE last == Read(r[m], text[m + 1])
             g == [i \in 0..m + 1 |-> IF i <= m THEN r[i] ELSE last]
  <2>3. \A i \in 0..m : r[i] = IF i = 0 THEN none ELSE Read(r[i-1], text[i])
    BY <2>2 DEF Reads
  <2>4. \A i \in 0..m + 1 : (i <= m => i \in 0..m) /\ (~(i <= m) => i = m + 1 /\ i # 0 /\ i - 1 = m)
    BY <2>1
  <2>5. \A i \in 0..m + 1 : i # 0 => i - 1 \in 0..m + 1 /\ i - 1 <= m
    BY <2>1
  <2>6. \A i \in 0..m + 1 : i # 0 => g[i - 1] = r[i - 1]
    BY <2>5
  <2>7. g = [i \in 0..m + 1 |-> g[i]] /\ \A i \in 0..m + 1 : g[i] = IF i <= m THEN r[i] ELSE last
    OBVIOUS
  <2> HIDE DEF g
  <2>8. \A i \in 0..m + 1 : g[i] = IF i = 0 THEN none ELSE Read(g[i-1], text[i])
    BY <2>3, <2>4, <2>6, <2>7
  <2>9. Reads(text, m + 1, g)
    BY <2>7, <2>8 DEF Reads
  <2> QED BY <2>1, <2>9
<1> HIDE DEF T
<1>3. T = Nat
  <2>1. T \in SUBSET Nat
    BY DEF T
  <2> QED BY <1>1, <1>2, <2>1, Inductive
<1> QED BY <1>3 DEF T

LEMMA ArgumentsAreRead ==
  ASSUME NEW text, Len(text) \in Nat
  PROVE  \E r : Reads(text, Len(text), r) /\ Arguments(text) = Complete(r[Len(text)])
<1> DEFINE read == CHOOSE r : r = [i \in 0..Len(text) |->
                     IF i = 0 THEN [words |-> <<>>, word |-> <<>>, quoted |-> FALSE]
                     ELSE Read(r[i-1], text[i])]
<1>1. Arguments(text) = Complete(read[Len(text)])
  BY DEF Arguments
<1>2. \E r : r = [i \in 0..Len(text) |->
                    IF i = 0 THEN [words |-> <<>>, word |-> <<>>, quoted |-> FALSE]
                    ELSE Read(r[i-1], text[i])]
  BY ReadsExist DEF Reads
<1>3. Reads(text, Len(text), read)
  BY <1>2 DEF Reads
<1> HIDE DEF read
<1> QED BY <1>1, <1>3

\* The text without its quotation marks, letter by letter.
LEMMA UnquotedNext ==
  ASSUME NEW s \in Seq(Plain), NEW t \in Plain
  PROVE  /\ Unquoted(s) \in Seq(Letters)
         /\ Unquoted(Append(s, t)) = IF t = Quote THEN Unquoted(s) ELSE Append(Unquoted(s), t)
<1> DEFINE one(x) == IF x = Quote THEN <<>> ELSE <<x>>
           n == Len(s)
           st == Append(s, t)
           f == [i \in DOMAIN s |-> one(s[i])]
           g == [i \in DOMAIN st |-> one(st[i])]
<1>0. ASSUME NEW x \in Plain PROVE one(x) \in Seq(Letters)
  <2>1. x # Quote => x \in Letters
    BY TokenFacts
  <2> QED BY <2>1
<1>1. /\ n \in Nat /\ DOMAIN s = 1..n /\ \A i \in 1..n : s[i] \in Plain
      /\ DOMAIN st = 1..n + 1 /\ st[n + 1] = t /\ \A i \in 1..n : st[i] = s[i]
  BY AppendProperties
<1> HIDE DEF n, st
<1>2. f \in [1..n -> Seq(Letters)]
  BY <1>0, <1>1
<1>3. f \in Seq(Seq(Letters)) /\ Len(f) = n /\ one(t) \in Seq(Letters)
  BY <1>0, <1>1, <1>2, FunctionIsSeq
<1>4. g = Append(f, one(t))
  <2> DEFINE e == Append(f, one(t))
  <2>1. e \in Seq(Seq(Letters)) /\ DOMAIN e = 1..n + 1 /\ e[n + 1] = one(t) /\ \A i \in 1..n : e[i] = f[i]
    BY <1>1, <1>3, AppendProperties
  <2>2. \A i \in 1..n + 1 : i \in 1..n \/ i = n + 1
    BY <1>1
  <2>3. \A i \in 1..n : f[i] = one(st[i])
    BY <1>1
  <2> HIDE DEF e, f, one
  <2>4. \A i \in 1..n + 1 : e[i] = one(st[i])
    BY <1>1, <2>1, <2>2, <2>3
  <2>5. e = [i \in 1..n + 1 |-> e[i]]
    BY <2>1
  <2> QED BY <1>1, <2>4, <2>5 DEF e
<1>5. Unquoted(s) = FlattenSeq(f) /\ Unquoted(st) = FlattenSeq(g)
  BY DEF Unquoted
<1> HIDE DEF f, g
<1>6. Unquoted(st) = Unquoted(s) \o one(t)
  BY <1>3, <1>4, <1>5, FlattenAppend
<1>7. Unquoted(s) \in Seq(Letters)
  BY <1>3, <1>5, FlattenType
<1>8. Unquoted(s) \o <<>> = Unquoted(s)
  BY <1>7, ConcatEmptySeq
<1>9. Unquoted(s) \o <<t>> = Append(Unquoted(s), t)
  BY <1>7, AppendIsConcat
<1> QED BY <1>6, <1>7, <1>8, <1>9 DEF st

LEMMA NothingUnquoted == Unquoted(<<>>) = <<>>
<1>1. [i \in DOMAIN <<>> |-> IF <<>>[i] = Quote THEN <<>> ELSE <<<<>>[i]>>] = <<>>
  OBVIOUS
<1> QED BY <1>1, FlattenNothing DEF Unquoted

\* Whether quotation marks are open changes with each of them.
LEMMA QuotesNext ==
  ASSUME NEW T, NEW text \in Seq(T), NEW i \in Nat, i + 1 <= Len(text)
  PROVE  /\ ~InQuotes(text, 0)
         /\ InQuotes(text, i + 1) <=> (IF text[i + 1] = Quote THEN ~InQuotes(text, i) ELSE InQuotes(text, i))
<1> DEFINE Q == At(text, Quote)
           A == Q \cap 1..i
           B == Q \cap 1..i + 1
<1>1. DOMAIN text = 1..Len(text) /\ Len(text) \in Nat /\ i + 1 \in DOMAIN text
  OBVIOUS
<1>2. IsFiniteSet(A) /\ i + 1 \notin A
  <2>1. IsFiniteSet(1..i)
    BY FS_Interval
  <2> QED BY <2>1, FS_Subset
<1>3. B = IF text[i + 1] = Quote THEN A \cup {i + 1} ELSE A
  <2>1. \A j \in 1..i + 1 : j \in 1..i \/ j = i + 1
    OBVIOUS
  <2>2. i + 1 \in 1..i + 1 /\ \A j \in 1..i : j \in 1..i + 1
    OBVIOUS
  <2>3. i + 1 \in Q <=> text[i + 1] = Quote
    BY <1>1 DEF At
  <2> HIDE DEF Q
  <2> QED BY <2>1, <2>2, <2>3
<1> HIDE DEF A, B
<1>4. Cardinality(A) \in Nat /\ Cardinality(A \cup {i + 1}) = Cardinality(A) + 1
  BY <1>2, FS_AddElement, FS_CardinalityType
<1>5. \A c \in Nat : (c + 1) % 2 = 1 <=> c % 2 # 1
  OBVIOUS
<1>6. InQuotes(text, i) <=> Cardinality(A) % 2 = 1
  BY DEF InQuotes, A
<1>7. InQuotes(text, i + 1) <=> Cardinality(B) % 2 = 1
  BY DEF InQuotes, B
<1>8. ~InQuotes(text, 0)
  <2>1. Q \cap 1..0 = {}
    OBVIOUS
  <2>2. Cardinality({}) = 0
    BY FS_EmptySet
  <2> QED BY <2>1, <2>2 DEF InQuotes
<1> QED BY <1>3, <1>4, <1>5, <1>6, <1>7, <1>8

\* The cut before what comes after the i-th token.
LEMMA CutNext ==
  ASSUME NEW T, NEW text \in Seq(T), NEW i \in Nat, i <= Len(text)
  PROVE  /\ LastCut(text, i + 1) \in 0..i
         /\ LastCut(text, i + 2) = IF i + 1 \in Cuts(text) THEN i + 1 ELSE LastCut(text, i + 1)
<1> DEFINE C == Cuts(text)
           S == {0} \cup (C \cap 1..i)
           R == {0} \cup (C \cap 1..i + 1)
<1>num. C \in SUBSET Nat
  BY DEF Cuts, At
<1>1. i + 1 - 1 = i /\ i + 2 - 1 = i + 1
  OBVIOUS
<1>2. LastCut(text, i + 1) = Max(S) /\ LastCut(text, i + 2) = Max(R)
  BY <1>1 DEF LastCut
<1>3. R = IF i + 1 \in C THEN S \cup {i + 1} ELSE S
  <2>1. \A j \in 1..i + 1 : j \in 1..i \/ j = i + 1
    OBVIOUS
  <2>2. i + 1 \in 1..i + 1 /\ \A j \in 1..i : j \in 1..i + 1
    OBVIOUS
  <2> HIDE DEF C
  <2> QED BY <2>1, <2>2
<1> HIDE DEF C
<1>4. Max(S) \in 0..i
  BY <1>num, GreatestOrNone DEF S
<1>5. ASSUME i + 1 \in C PROVE Max(R) = i + 1
  <2>1. Max(R) \in 0..i + 1 /\ Max(R) \in R /\ \A j \in R : j <= Max(R)
    <3>1. i + 1 \in Nat
      OBVIOUS
    <3> QED BY <1>num, <3>1, GreatestOrNone DEF R
  <2>2. i + 1 \in R
    BY <1>3, <1>5
  <2>3. Max(R) \in 0..i + 1 /\ i + 1 <= Max(R)
    BY <2>1, <2>2
  <2> QED BY <2>3
<1> QED BY <1>2, <1>3, <1>4, <1>5 DEF C

\* What a text has of parts up to its i-th token.
PartAt(text, i) == IF i \in Cuts(text) /\ Part(text, i) # <<>> THEN <<Part(text, i)>> ELSE <<>>
Parts(text, n) == [i \in 1..n |-> PartAt(text, i)]

LEMMA PartsNext ==
  ASSUME NEW text \in Seq(Plain), NEW n \in Nat, n <= Len(text),
         \A i \in 1..n + 1 : PartAt(text, i) \in Seq(Words)
  PROVE  /\ FlattenSeq(Parts(text, n + 1)) = FlattenSeq(Parts(text, n)) \o PartAt(text, n + 1)
         /\ FlattenSeq(Parts(text, n)) \in Seq(Words)
<1> DEFINE s == Parts(text, n)
           t == PartAt(text, n + 1)
           e == Append(s, t)
<1>0. \A i \in 1..n + 1 : i \in 1..n \/ i = n + 1
  OBVIOUS
<1>1. n + 1 \in 1..n + 1 /\ \A i \in 1..n : i \in 1..n + 1
  OBVIOUS
<1>2. s \in [1..n -> Seq(Words)] /\ \A i \in 1..n : s[i] = PartAt(text, i)
  BY <1>1 DEF Parts
<1>3. s \in Seq(Seq(Words)) /\ Len(s) = n /\ t \in Seq(Words)
  BY <1>1, <1>2, FunctionIsSeq
<1> HIDE DEF s, t
<1>4. e \in Seq(Seq(Words)) /\ DOMAIN e = 1..n + 1 /\ e[n + 1] = t /\ \A i \in 1..n : e[i] = s[i]
  BY <1>3, AppendProperties
<1> HIDE DEF e
<1>5. e = [i \in 1..n + 1 |-> e[i]]
  BY <1>4
<1>6. \A i \in 1..n + 1 : e[i] = PartAt(text, i)
  BY <1>0, <1>2, <1>4 DEF t
<1>7. Parts(text, n + 1) = e
  BY <1>5, <1>6 DEF Parts
<1>8. FlattenSeq(e) = FlattenSeq(s) \o t
  BY <1>3, FlattenAppend DEF e
<1>9. FlattenSeq(s) \in Seq(Words)
  BY <1>3, FlattenType
<1> QED BY <1>7, <1>8, <1>9 DEF s, t

LEMMA PartIsWord ==
  ASSUME NEW text \in Seq(Plain), NEW i \in Nat, i <= Len(text)
  PROVE  /\ LastCut(text, i + 1) + 1 \in 1..i + 1
         /\ SubSeq(text, LastCut(text, i + 1) + 1, i) \in Seq(Plain)
         /\ Part(text, i + 1) = Unquoted(SubSeq(text, LastCut(text, i + 1) + 1, i))
         /\ Part(text, i + 1) \in Seq(Letters) /\ PartAt(text, i + 1) \in Seq(Words)
<1>1. LastCut(text, i + 1) \in 0..i
  BY CutNext
<1>2. PICK c \in 1..i + 1 : c = LastCut(text, i + 1) + 1
  BY <1>1
<1>3. SubSeq(text, c, i) \in Seq(Plain)
  OBVIOUS
<1>4. i + 1 - 1 = i
  OBVIOUS
<1>5. Part(text, i + 1) = Unquoted(SubSeq(text, c, i))
  BY <1>2, <1>4 DEF Part
<1>6. Part(text, i + 1) \in Seq(Letters)
  BY <1>3, <1>5, UnquotedNext, TokenFacts
<1>7. Part(text, i + 1) # <<>> => Part(text, i + 1) \in Words
  BY <1>6 DEF Words
<1>8. PartAt(text, i + 1) \in Seq(Words)
  BY <1>7 DEF PartAt
<1> QED BY <1>2, <1>3, <1>5, <1>6, <1>8

\* After i tokens the loop has the parts that have ended, less the quotation marks, and
\* what has come since the last cut.
Split(text, r, i) ==
  /\ r[i] = [words |-> FlattenSeq(Parts(text, i)),
             word |-> Unquoted(SubSeq(text, LastCut(text, i + 1) + 1, i)),
             quoted |-> InQuotes(text, i)]

LEMMA SplitNext ==
  ASSUME NEW text \in Seq(Plain), NEW i \in Nat, i + 1 <= Len(text), NEW r,
         r[i + 1] = Read(r[i], text[i + 1]), Split(text, r, i)
  PROVE  Split(text, r, i + 1)
<1> DEFINE t == text[i + 1]
           c == LastCut(text, i + 1)
           c2 == LastCut(text, i + 2)
           w == Unquoted(SubSeq(text, c + 1, i))
           parts == FlattenSeq(Parts(text, i))
           q == InQuotes(text, i)
           cut == i + 1 \in Cuts(text)
<1>1. t \in Plain /\ i <= Len(text) /\ i + 1 + 1 = i + 2 /\ Len(text) \in Nat
  OBVIOUS
<1>2. c2 = IF cut THEN i + 1 ELSE c
  BY <1>1, CutNext
<1>3. /\ c + 1 \in 1..i + 1 /\ SubSeq(text, c + 1, i) \in Seq(Plain) /\ Part(text, i + 1) = w
      /\ w \in Seq(Letters)
  BY <1>1, PartIsWord
<1>4. \A j \in 1..i + 1 : PartAt(text, j) \in Seq(Words)
  <2> SUFFICES ASSUME NEW j \in 1..i + 1 PROVE PartAt(text, j) \in Seq(Words)
    OBVIOUS
  <2>1. PICK k \in Nat : k = j - 1
    OBVIOUS
  <2>2. k + 1 = j /\ k <= Len(text)
    BY <1>1, <2>1
  <2> QED BY <2>2, PartIsWord
<1>5. FlattenSeq(Parts(text, i + 1)) = parts \o PartAt(text, i + 1) /\ parts \in Seq(Words)
  BY <1>1, <1>4, PartsNext
<1>6. InQuotes(text, i + 1) <=> IF t = Quote THEN ~q ELSE q
  BY QuotesNext
<1>7. cut <=> t = Blank /\ ~q
  <2>1. cut <=> t = Blank /\ ~InQuotes(text, i + 1)
    <3>1. i + 1 \in DOMAIN text /\ i + 1 # Len(text) + 1
      BY <1>1
    <3> QED BY <3>1 DEF Cuts, At
  <2> QED BY <1>6, <2>1, TokenFacts
<1>8. SubSeq(text, c + 1, i + 1) = Append(SubSeq(text, c + 1, i), t)
  <2>1. PICK k \in 1..i + 1 : k = c + 1
    BY <1>3
  <2>2. SubSeq(text, k, i + 1) = Append(SubSeq(text, k, i), t)
    BY <1>1
  <2> QED BY <2>1, <2>2
<1>9. r[i] = [words |-> parts, word |-> w, quoted |-> q]
  BY DEF Split
<1>10. r[i + 1] = Read(r[i], t)
  OBVIOUS
<1>11. q \in BOOLEAN
  BY DEF InQuotes
<1>fields. r[i].words = parts /\ r[i].word = w /\ r[i].quoted = q
  BY <1>9
<1>differ. Quote # Blank
  BY TokenFacts
<1>goal. Split(text, r, i + 1) <=>
           r[i + 1] = [words |-> FlattenSeq(Parts(text, i + 1)),
                       word |-> Unquoted(SubSeq(text, c2 + 1, i + 1)), quoted |-> InQuotes(text, i + 1)]
  BY <1>1 DEF Split
<1> HIDE DEF t, c, c2, w, parts, q, cut
<1>12. CASE cut
  <2>1. t = Blank /\ ~q /\ ~InQuotes(text, i + 1) /\ c2 = i + 1
    BY <1>2, <1>6, <1>7, <1>12, TokenFacts
  <2>2. Unquoted(SubSeq(text, c2 + 1, i + 1)) = <<>>
    <3>1. SubSeq(text, i + 1 + 1, i + 1) = <<>>
      BY SubSeqEmpty
    <3> QED BY <2>1, <3>1, NothingUnquoted
  <2>3. PartAt(text, i + 1) = IF w = <<>> THEN <<>> ELSE <<w>>
    BY <1>3, <1>12 DEF PartAt, cut
  <2>4. Complete(r[i]) = parts \o PartAt(text, i + 1)
    <3>1. parts \o <<>> = parts
      BY <1>5, ConcatEmptySeq
    <3>2. parts \o <<w>> = Append(parts, w)
      BY <1>5, AppendIsConcat
    <3> QED BY <1>fields, <2>3, <3>1, <3>2 DEF Complete
  <2>5. Read(r[i], t) = [words |-> Complete(r[i]), word |-> <<>>, quoted |-> FALSE]
    BY <1>fields, <1>differ, <2>1, Zenon DEF Read
  <2>6. InQuotes(text, i + 1) = FALSE
    BY <2>1
  <2> QED BY <1>5, <1>10, <1>goal, <2>2, <2>4, <2>5, <2>6
<1>13. CASE ~cut
  <2>1. c2 = c /\ PartAt(text, i + 1) = <<>>
    BY <1>2, <1>13 DEF PartAt, cut
  <2>2. FlattenSeq(Parts(text, i + 1)) = parts
    BY <1>5, <2>1, ConcatEmptySeq
  <2>3. Unquoted(SubSeq(text, c2 + 1, i + 1)) = IF t = Quote THEN w ELSE Append(w, t)
    BY <1>1, <1>3, <1>8, <2>1, UnquotedNext DEF w, t
  <2>4. CASE t = Quote
    <3>1. Read(r[i], t) = [r[i] EXCEPT !.quoted = ~@]
      BY <1>differ, <2>4, Zenon DEF Read
    <3>2. Read(r[i], t) = [words |-> parts, word |-> w, quoted |-> ~q]
      BY <1>9, <3>1
    <3>3. InQuotes(text, i + 1) = ~q
      BY <1>6, <1>11, <2>4 DEF InQuotes
    <3> QED BY <1>10, <1>goal, <2>2, <2>3, <2>4, <3>2, <3>3
  <2>5. CASE t # Quote
    <3>1. Read(r[i], t) = [r[i] EXCEPT !.word = Append(@, t)]
      BY <1>7, <1>fields, <1>13, <2>5, Zenon DEF Read
    <3>2. Read(r[i], t) = [words |-> parts, word |-> Append(w, t), quoted |-> q]
      <4>1. \A a, b, d, x : [[words |-> a, word |-> b, quoted |-> d] EXCEPT !.word = x] =
                               [words |-> a, word |-> x, quoted |-> d]
        OBVIOUS
      <4>2. Read(r[i], t) = [r[i] EXCEPT !.word = Append(w, t)]
        BY <1>fields, <3>1
      <4>3. [[words |-> parts, word |-> w, quoted |-> q] EXCEPT !.word = Append(w, t)] =
              [words |-> parts, word |-> Append(w, t), quoted |-> q]
        BY <4>1
      <4> HIDE DEF Read
      <4> QED BY ONLY <1>9, <4>2, <4>3
    <3>3. InQuotes(text, i + 1) = q
      BY <1>6, <1>11, <2>5 DEF InQuotes
    <3> QED BY <1>10, <1>goal, <2>2, <2>3, <2>5, <3>2, <3>3
  <2> QED BY <2>4, <2>5
<1> QED BY <1>12, <1>13

\* The loop finds the words that the reference reads, and they are words.
LEMMA ArgumentsAreWords ==
  ASSUME NEW text \in Seq(Plain)
  PROVE  Arguments(text) = WordsOf(text) /\ Arguments(text) \in Seq(Words)
<1> DEFINE n == Len(text)
<1>1. n \in Nat
  OBVIOUS
<1>2. PICK r : Reads(text, n, r) /\ Arguments(text) = Complete(r[n])
  BY <1>1, ArgumentsAreRead
<1>3. /\ r[0] = [words |-> <<>>, word |-> <<>>, quoted |-> FALSE]
      /\ \A i \in 0..n : i # 0 => r[i] = Read(r[i-1], text[i])
  BY <1>1, <1>2 DEF Reads
<1>4. Split(text, r, 0)
  <2>1. Parts(text, 0) = <<>>
    BY DEF Parts
  <2>2. FlattenSeq(Parts(text, 0)) = <<>>
    BY <2>1, FlattenNothing
  <2>3. LastCut(text, 0 + 1) \in 0..0
    BY <1>1, CutNext
  <2>4. SubSeq(text, LastCut(text, 0 + 1) + 1, 0) = <<>>
    <3>1. LastCut(text, 0 + 1) = 0
      BY <2>3
    <3>2. SubSeq(text, 0 + 1, 0) = <<>>
      BY SubSeqEmpty
    <3> QED BY <3>1, <3>2
  <2>5. InQuotes(text, 0) = FALSE
    <3>1. At(text, Quote) \cap 1..0 = {}
      OBVIOUS
    <3>2. Cardinality({}) = 0
      BY FS_EmptySet
    <3> QED BY <3>1, <3>2 DEF InQuotes
  <2> QED BY <1>3, <2>2, <2>4, <2>5, NothingUnquoted DEF Split
<1>5. \A i \in Nat : i <= n => Split(text, r, i)
  <2> DEFINE T == {i \in Nat : i <= n => Split(text, r, i)}
  <2>1. 0 \in T
    BY <1>4
  <2>2. ASSUME NEW i \in T PROVE i + 1 \in T
    <3>1. i \in Nat /\ i + 1 \in Nat /\ (i <= n => Split(text, r, i))
      OBVIOUS
    <3> SUFFICES ASSUME i + 1 <= n PROVE Split(text, r, i + 1)
      BY <3>1
    <3>2. i <= n /\ i + 1 \in 0..n /\ i + 1 # 0 /\ i + 1 - 1 = i
      BY <1>1, <3>1
    <3>3. r[i + 1] = Read(r[i], text[i + 1])
      BY <1>3, <3>2
    <3> QED BY <3>1, <3>2, <3>3, SplitNext
  <2> HIDE DEF T
  <2>3. T = Nat
    <3>1. T \in SUBSET Nat
      BY DEF T
    <3> QED BY <2>1, <2>2, <3>1, Inductive
  <2> QED BY <2>3 DEF T
<1>6. Split(text, r, n)
  BY <1>1, <1>5
<1>7. \A i \in 1..n + 1 : PartAt(text, i) \in Seq(Words)
  <2> SUFFICES ASSUME NEW i \in 1..n + 1 PROVE PartAt(text, i) \in Seq(Words)
    OBVIOUS
  <2>1. PICK k \in Nat : k = i - 1
    BY <1>1
  <2>2. k + 1 = i /\ k <= n
    BY <1>1, <2>1
  <2> QED BY <2>2, PartIsWord
<1>8. /\ FlattenSeq(Parts(text, n + 1)) = FlattenSeq(Parts(text, n)) \o PartAt(text, n + 1)
      /\ FlattenSeq(Parts(text, n)) \in Seq(Words)
  BY <1>1, <1>7, PartsNext
<1>9. /\ Part(text, n + 1) = r[n].word /\ r[n].words = FlattenSeq(Parts(text, n))
      /\ n + 1 \in Cuts(text)
  BY <1>1, <1>6, PartIsWord DEF Split, Cuts
<1>10. PartAt(text, n + 1) = IF r[n].word = <<>> THEN <<>> ELSE <<r[n].word>>
  BY <1>9 DEF PartAt
<1>11. Complete(r[n]) = FlattenSeq(Parts(text, n)) \o PartAt(text, n + 1)
  <2>1. FlattenSeq(Parts(text, n)) \o <<>> = FlattenSeq(Parts(text, n))
    BY <1>8, ConcatEmptySeq
  <2>2. \A x : FlattenSeq(Parts(text, n)) \o <<x>> = Append(FlattenSeq(Parts(text, n)), x)
    BY <1>8, AppendIsConcat
  <2> QED BY <1>9, <1>10, <2>1, <2>2 DEF Complete
<1>12. WordsOf(text) = FlattenSeq(Parts(text, n + 1))
  BY DEF WordsOf, Parts, PartAt
<1>13. PartAt(text, n + 1) \in Seq(Words)
  BY <1>1, <1>7
<1>14. FlattenSeq(Parts(text, n)) \o PartAt(text, n + 1) \in Seq(Words)
  BY <1>8, <1>13
<1> QED BY <1>2, <1>8, <1>11, <1>12, <1>14

\* What parseLine gives: a name, and a text whose words are the arguments.
LEMMA LineIsDirective ==
  ASSUME NEW text \in Seq(Plain)
  PROVE  /\ Call(text).name \in Strings /\ Call(text).args \in Seq(Words)
         /\ Call(text).name = ParseLine(text).name
         /\ Call(text).args = Arguments(ParseLine(text).inner)
<1> DEFINE open == Min(At(text, Open))
           close == Max(At(text, Close))
           name == {i \in 1..open-1 : text[i] # Blank}
           end == IF close > open THEN close - 1 ELSE Len(text)
           inner == SubSeq(text, open + 1, end)
           some == /\ At(text, Open) # {} /\ At(text, Close) # {}
                   /\ \E i \in name : name = {i} /\ text[i] \in Texts
<1>1. Len(text) \in Nat /\ DOMAIN text = 1..Len(text) /\ \A i \in DOMAIN text : text[i] \in Plain
  OBVIOUS
<1>2. ParseLine(text).name \in Strings /\ ParseLine(text).inner \in Seq(Plain)
  <2>1. CASE ~some
    <3>1. ParseLine(text) = [name |-> "none", inner |-> <<>>]
      BY <2>1 DEF ParseLine
    <3> HIDE DEF some
    <3> QED BY <3>1, NoneIsString
  <2>2. CASE some
    <3>1. ParseLine(text) = [name |-> text[Min(name)][2], inner |-> inner]
      BY <2>2 DEF ParseLine
    <3>2. PICK i \in name : name = {i} /\ text[i] \in Texts
      BY <2>2
    <3>3. /\ At(text, Open) \in SUBSET Nat /\ At(text, Close) \in SUBSET (1..Len(text))
          /\ At(text, Open) \subseteq DOMAIN text
      BY <1>1 DEF At
    <3>4. open \in 1..Len(text)
      BY <1>1, <2>2, <3>3, Least
    <3>5. close \in 1..Len(text)
      BY <1>1, <2>2, <3>3, Greatest
    <3> HIDE DEF open, close
    <3>6. name \in SUBSET Nat /\ name # {}
      BY <3>2
    <3>7. Min(name) = i
      <4> HIDE DEF name
      <4>1. Min(name) \in name
        BY <3>6, Least
      <4> QED BY <3>2, <4>1
    <3>8. text[Min(name)][2] \in Strings
      BY <3>2, <3>7, TokenFacts
    <3>9. end \in Int /\ end <= Len(text) /\ open + 1 \in Int /\ 1 <= open + 1
      BY <1>1, <3>4, <3>5
    <3> HIDE DEF end, name
    <3>10. \A k \in open+1..end : text[k] \in Plain
      BY <1>1, <3>9
    <3>11. inner \in Seq(Plain)
      BY <3>9, <3>10, SubSeqProperties
    <3> HIDE DEF inner
    <3> QED BY <3>1, <3>8, <3>11
  <2> QED BY <2>1, <2>2
<1>3. Arguments(ParseLine(text).inner) = WordsOf(ParseLine(text).inner)
      /\ Arguments(ParseLine(text).inner) \in Seq(Words)
  BY <1>2, ArgumentsAreWords
<1> QED BY <1>2, <1>3 DEF Call

LEMMA InPlaces == \A w \in Words : w \in Places /\ InProject(w) \in Places
<1> SUFFICES ASSUME NEW w \in Words PROVE w \in Places /\ InProject(w) \in Places
  OBVIOUS
<1> DEFINE P == Letters \cup {Inside}
           v == <<Inside>> \o w
<1>1. w \in Seq(Letters) /\ Len(w) \in Nat /\ Len(w) # 0
  BY WordFacts
<1>2. w \in Seq(P) /\ <<Inside>> \in Seq(P) /\ Len(<<Inside>>) = 1
  BY <1>1, SeqMonotonic
<1>3. v \in Seq(P) /\ Len(v) = 1 + Len(w)
  BY <1>2, ConcatProperties
<1>4. w # <<>> /\ v # <<>>
  BY <1>1, <1>3
<1> HIDE DEF v
<1>5. w \in Places /\ v \in Places
  BY <1>2, <1>3, <1>4 DEF Places
<1> QED BY <1>5 DEF InProject, v

\* The architectures that are kept are ones that abt knows.
LEMMA KeptIsSeq == ASSUME NEW T, NEW s \in Seq(T), NEW set PROVE Kept(s, set) \in Seq(set)
<1> DEFINE kept == Kept(s, set)
<1>1. kept \in Seq(T \cap set)
  BY KeptHasAll
<1> HIDE DEF kept
<1>2. Len(kept) \in Nat /\ kept \in [1..Len(kept) -> T \cap set]
  BY <1>1, LenProperties
<1>3. kept \in [1..Len(kept) -> set]
  BY <1>2
<1>4. kept \in Seq(set)
  BY <1>2, <1>3, FunctionIsSeq
<1> QED BY <1>4 DEF kept

LEMMA PathsAreSeq == ASSUME NEW ws \in Seq(Words) PROVE Paths(ws) \in Seq(Places)
<1> DEFINE n == Len(ws)
<1>1. n \in Nat /\ DOMAIN ws = 1..n /\ \A i \in 1..n : InProject(ws[i]) \in Places
  BY InPlaces
<1>2. Paths(ws) \in [1..n -> Places]
  BY <1>1 DEF Paths
<1> QED BY <1>1, <1>2, FunctionIsSeq

LEMMA ArchsAreKnown == ASSUME NEW ws \in Seq(Words) PROVE Archs(ws) \in Seq(KnownAbis)
<1> DEFINE abis == Kept(ws, {Word(a) : a \in KnownAbis})
           n == Len(abis)
<1>1. abis \in Seq({Word(a) : a \in KnownAbis})
  BY KeptIsSeq
<1>2. Archs(ws) = [i \in DOMAIN abis |-> abis[i][1][2]]
  BY DEF Archs
<1> HIDE DEF abis
<1>3. n \in Nat /\ DOMAIN abis = 1..n /\ \A i \in 1..n : \E a \in KnownAbis : abis[i] = Word(a)
  BY <1>1
<1>4. \A i \in 1..n : abis[i][1][2] \in KnownAbis
  BY <1>3 DEF Word, Text
<1>5. Archs(ws) \in [1..n -> KnownAbis]
  BY <1>2, <1>3, <1>4
<1> QED BY <1>3, <1>5, FunctionIsSeq

\* What one directive may give a field keeps BuildConfig one.
LEMMA FieldsKeepTypes ==
  ASSUME NEW c \in Configs
  PROVE  /\ \A v \in Words : /\ [c EXCEPT !["projectName"] = v] \in Configs
                             /\ [c EXCEPT !["packageName"] = v] \in Configs
                             /\ [c EXCEPT !["outputDir"] = v] \in Configs
                             /\ [c EXCEPT !["versionName"] = v] \in Configs
         /\ \A v \in Ints : /\ [c EXCEPT !["minSdkVersion"] = v] \in Configs
                            /\ [c EXCEPT !["targetSdkVersion"] = v] \in Configs
                            /\ [c EXCEPT !["versionCode"] = v] \in Configs
         /\ \A v \in {"debug", "release"} : [c EXCEPT !["buildType"] = v] \in Configs
         /\ \A v \in Seq(KnownAbis) : [c EXCEPT !["architectures"] = v] \in Configs
         /\ \A v \in Seq(Places) : /\ [c EXCEPT !["cppSources"] = v] \in Configs
                                  /\ [c EXCEPT !["includeDirs"] = v] \in Configs
         /\ \A v \in Seq(Words) : /\ [c EXCEPT !["linkLibraries"] = v] \in Configs
                                  /\ [c EXCEPT !["dependencies"] = v] \in Configs
<1>1. \A v \in Words : [c EXCEPT !["projectName"] = v] \in Configs
  BY DEF Configs
<1>2. \A v \in Words : [c EXCEPT !["packageName"] = v] \in Configs
  BY DEF Configs
<1>3. \A v \in Words : [c EXCEPT !["outputDir"] = v] \in Configs
  BY DEF Configs
<1>4. \A v \in Words : [c EXCEPT !["versionName"] = v] \in Configs
  BY DEF Configs
<1>5. \A v \in Ints : [c EXCEPT !["minSdkVersion"] = v] \in Configs
  BY DEF Configs
<1>6. \A v \in Ints : [c EXCEPT !["targetSdkVersion"] = v] \in Configs
  BY DEF Configs
<1>7. \A v \in Ints : [c EXCEPT !["versionCode"] = v] \in Configs
  BY DEF Configs
<1>8. \A v \in {"debug", "release"} : [c EXCEPT !["buildType"] = v] \in Configs
  BY DEF Configs
<1>9. \A v \in Seq(KnownAbis) : [c EXCEPT !["architectures"] = v] \in Configs
  BY DEF Configs
<1>10. \A v \in Seq(Places) : [c EXCEPT !["cppSources"] = v] \in Configs
  BY DEF Configs
<1>11. \A v \in Seq(Places) : [c EXCEPT !["includeDirs"] = v] \in Configs
  BY DEF Configs
<1>12. \A v \in Seq(Words) : [c EXCEPT !["linkLibraries"] = v] \in Configs
  BY DEF Configs
<1>13. \A v \in Seq(Words) : [c EXCEPT !["dependencies"] = v] \in Configs
  BY DEF Configs
<1> QED BY <1>1, <1>2, <1>3, <1>4, <1>5, <1>6, <1>7, <1>8, <1>9, <1>10, <1>11, <1>12, <1>13

\* What a directive may change, before it and after it.
ParserTypes == config \in Configs /\ DOMAIN known \subseteq Words /\ known \in [DOMAIN known -> Words]
Ended ==
  /\ phase' \in {"line", "end"} /\ outcome' \in {"none", "aborted"}
  /\ phase' = "end" <=> outcome' # "none"

\* No directive is in two arms of HandleDirective.
LEMMA DirectiveNames ==
  /\ DOMAIN Scalar = {"abt_project", "abt_set_package", "abt_set_min_sdk", "abt_set_target_sdk",
                      "abt_output_dir"}
  /\ DOMAIN Listed = {"abt_add_sources", "abt_add_includes", "abt_link_libraries"}
BY DEF Scalar, Listed

LEMMA DirectiveFields ==
  /\ Scalar["abt_project"] = "projectName" /\ Scalar["abt_set_package"] = "packageName"
  /\ Scalar["abt_set_min_sdk"] = "minSdkVersion" /\ Scalar["abt_set_target_sdk"] = "targetSdkVersion"
  /\ Scalar["abt_output_dir"] = "outputDir"
  /\ Listed["abt_add_sources"] = "cppSources" /\ Listed["abt_add_includes"] = "includeDirs"
  /\ Listed["abt_link_libraries"] = "linkLibraries"
BY DEF Scalar, Listed

LEMMA DirectiveKeepsTypes ==
  ASSUME ParserTypes, phase = "line", outcome = "none", NEW name \in Strings, NEW args \in Seq(Words),
         HandleDirective(name, args)
  PROVE  ParserTypes' /\ Ended
<1> DEFINE n == Len(args)
<1>1. n \in Nat /\ DOMAIN args = 1..n /\ \A i \in 1..n : args[i] \in Words
  OBVIOUS
<1>2. n >= 1 => args[1] \in Words
  BY <1>1
<1>3. n >= 2 => args[1] \in Words /\ args[2] \in Words
  BY <1>1
<1> HIDE DEF n
<1>same. UNCHANGED <<config, known, phase, outcome>> => ParserTypes' /\ Ended
  BY DEF ParserTypes, Ended
<1>end. Finish("aborted") /\ UNCHANGED <<config, known>> => ParserTypes' /\ Ended
  BY DEF ParserTypes, Ended, Finish
<1>set. config' \in Configs /\ UNCHANGED <<known, phase, outcome>> => ParserTypes' /\ Ended
  BY DEF ParserTypes, Ended
<1>4. CASE name = "set" /\ n >= 2
  <2>1. /\ known' = [v \in DOMAIN known \cup {args[1]} |-> IF v = args[1] THEN args[2] ELSE known[v]]
        /\ UNCHANGED <<config, phase, outcome>>
    BY <1>4, DirectiveNames DEF HandleDirective, n
  <2>2. DOMAIN known' = DOMAIN known \cup {args[1]}
    BY <2>1
  <2>3. DOMAIN known' \subseteq Words
    BY <1>3, <1>4, <2>2 DEF ParserTypes
  <2>4. \A v \in DOMAIN known : known[v] \in Words
    BY DEF ParserTypes
  <2>5. known' \in [DOMAIN known' -> Words]
    BY <1>3, <1>4, <2>1, <2>2, <2>4
  <2> QED BY <2>1, <2>3, <2>5 DEF ParserTypes, Ended
<1>5. CASE name = "abt_project" /\ n >= 1
  <2>1. config' = [config EXCEPT !["projectName"] = args[1]] /\ UNCHANGED <<known, phase, outcome>>
    BY <1>5, DirectiveNames, DirectiveFields DEF HandleDirective, Numeric, n
  <2> QED BY <1>2, <1>5, <1>set, <2>1, FieldsKeepTypes DEF ParserTypes
<1>6. CASE name = "abt_set_package" /\ n >= 1
  <2>1. config' = [config EXCEPT !["packageName"] = args[1]] /\ UNCHANGED <<known, phase, outcome>>
    BY <1>6, DirectiveNames, DirectiveFields DEF HandleDirective, Numeric, n
  <2> QED BY <1>2, <1>6, <1>set, <2>1, FieldsKeepTypes DEF ParserTypes
<1>7. CASE name = "abt_output_dir" /\ n >= 1
  <2>1. config' = [config EXCEPT !["outputDir"] = args[1]] /\ UNCHANGED <<known, phase, outcome>>
    BY <1>7, DirectiveNames, DirectiveFields DEF HandleDirective, Numeric, n
  <2> QED BY <1>2, <1>7, <1>set, <2>1, FieldsKeepTypes DEF ParserTypes
<1>8. CASE name = "abt_set_min_sdk" /\ n >= 1
  <2>1. CASE ~IsNumber(args[1])
    <3>1. Finish("aborted") /\ UNCHANGED <<config, known>>
      BY <1>8, <2>1, DirectiveNames, DirectiveFields DEF HandleDirective, Numeric, n
    <3> QED BY <1>end, <3>1
  <2>2. CASE IsNumber(args[1])
    <3>1. config' = [config EXCEPT !["minSdkVersion"] = Number(args[1])] /\ UNCHANGED <<known, phase, outcome>>
      BY <1>8, <2>2, DirectiveNames, DirectiveFields DEF HandleDirective, Numeric, n
    <3>2. Number(args[1]) \in Ints
      BY <2>2 DEF Ints, Number, IsNumber
    <3> QED BY <1>set, <3>1, <3>2, FieldsKeepTypes DEF ParserTypes
  <2> QED BY <2>1, <2>2
<1>9. CASE name = "abt_set_target_sdk" /\ n >= 1
  <2>1. CASE ~IsNumber(args[1])
    <3>1. Finish("aborted") /\ UNCHANGED <<config, known>>
      BY <1>9, <2>1, DirectiveNames, DirectiveFields DEF HandleDirective, Numeric, n
    <3> QED BY <1>end, <3>1
  <2>2. CASE IsNumber(args[1])
    <3>1. config' = [config EXCEPT !["targetSdkVersion"] = Number(args[1])] /\ UNCHANGED <<known, phase, outcome>>
      BY <1>9, <2>2, DirectiveNames, DirectiveFields DEF HandleDirective, Numeric, n
    <3>2. Number(args[1]) \in Ints
      BY <2>2 DEF Ints, Number, IsNumber
    <3> QED BY <1>set, <3>1, <3>2, FieldsKeepTypes DEF ParserTypes
  <2> QED BY <2>1, <2>2
<1>10. CASE name = "abt_add_sources"
  <2>1. /\ config' = [config EXCEPT !["cppSources"] = config["cppSources"] \o Paths(args)]
        /\ UNCHANGED <<known, phase, outcome>>
    BY <1>10, DirectiveNames, DirectiveFields DEF HandleDirective
  <2>2. config["cppSources"] \in Seq(Places) /\ Paths(args) \in Seq(Places)
    BY PathsAreSeq DEF ParserTypes, Configs
  <2>3. config["cppSources"] \o Paths(args) \in Seq(Places)
    BY <2>2
  <2> QED BY <1>set, <2>1, <2>3, FieldsKeepTypes DEF ParserTypes
<1>11. CASE name = "abt_add_includes"
  <2>1. /\ config' = [config EXCEPT !["includeDirs"] = config["includeDirs"] \o Paths(args)]
        /\ UNCHANGED <<known, phase, outcome>>
    BY <1>11, DirectiveNames, DirectiveFields DEF HandleDirective
  <2>2. config["includeDirs"] \in Seq(Places) /\ Paths(args) \in Seq(Places)
    BY PathsAreSeq DEF ParserTypes, Configs
  <2>3. config["includeDirs"] \o Paths(args) \in Seq(Places)
    BY <2>2
  <2> QED BY <1>set, <2>1, <2>3, FieldsKeepTypes DEF ParserTypes
<1>12. CASE name = "abt_link_libraries"
  <2>1. /\ config' = [config EXCEPT !["linkLibraries"] = config["linkLibraries"] \o args]
        /\ UNCHANGED <<known, phase, outcome>>
    BY <1>12, DirectiveNames, DirectiveFields DEF HandleDirective
  <2>2. config["linkLibraries"] \in Seq(Words)
    BY DEF ParserTypes, Configs
  <2>3. config["linkLibraries"] \o args \in Seq(Words)
    BY <2>2
  <2> QED BY <1>set, <2>1, <2>3, FieldsKeepTypes DEF ParserTypes
<1>13. CASE name = "abt_dependency" /\ n >= 1
  <2>1. /\ config' = [config EXCEPT !["dependencies"] = Append(config.dependencies, args[1])]
        /\ UNCHANGED <<known, phase, outcome>>
    BY <1>13, DirectiveNames DEF HandleDirective, n
  <2>2. config.dependencies \in Seq(Words)
    BY DEF ParserTypes, Configs
  <2>3. Append(config.dependencies, args[1]) \in Seq(Words)
    BY <1>2, <1>13, <2>2
  <2> QED BY <1>set, <2>1, <2>3, FieldsKeepTypes DEF ParserTypes
<1>14. CASE name = "abt_architectures"
  <2>1. /\ config' = [config EXCEPT !["architectures"] = Archs(args)]
        /\ UNCHANGED <<known, phase, outcome>>
    BY <1>14, DirectiveNames DEF HandleDirective
  <2>2. Archs(args) \in Seq(KnownAbis)
    BY ArchsAreKnown
  <2> QED BY <1>set, <2>1, <2>2, FieldsKeepTypes DEF ParserTypes
<1>15. CASE name = "abt_build_type" /\ n >= 1
  <2>1. /\ config' = [config EXCEPT !["buildType"] = IF args[1] = Word("release") THEN "release" ELSE "debug"]
        /\ UNCHANGED <<known, phase, outcome>>
    BY <1>15, DirectiveNames DEF HandleDirective, n
  <2> QED BY <1>set, <2>1, FieldsKeepTypes DEF ParserTypes
<1>16. CASE name = "abt_version" /\ n >= 2
  <2>1. [config EXCEPT !["versionName"] = args[1]] \in Configs
    BY <1>3, <1>16, FieldsKeepTypes DEF ParserTypes
  <2>2. CASE ~IsNumber(args[2])
    <3>1. /\ Finish("aborted") /\ UNCHANGED known
          /\ config' = [config EXCEPT !["versionName"] = args[1]]
      BY <1>16, <2>2, DirectiveNames DEF HandleDirective, n
    <3> QED BY <2>1, <3>1 DEF ParserTypes, Ended, Finish
  <2>3. CASE IsNumber(args[2])
    <3>1. /\ config' = [[config EXCEPT !["versionName"] = args[1]] EXCEPT !["versionCode"] = Number(args[2])]
          /\ UNCHANGED <<known, phase, outcome>>
      BY <1>16, <2>3, DirectiveNames DEF HandleDirective, n
    <3>2. Number(args[2]) \in Ints
      BY <2>3 DEF Ints, Number, IsNumber
    <3> QED BY <1>set, <2>1, <3>1, <3>2, FieldsKeepTypes
  <2> QED BY <2>2, <2>3
<1>17. CASE /\ ~(name = "set" /\ n >= 2) /\ ~(name \in DOMAIN Scalar /\ n >= 1) /\ name \notin DOMAIN Listed
         /\ ~(name = "abt_dependency" /\ n >= 1) /\ name # "abt_architectures"
         /\ ~(name = "abt_build_type" /\ n >= 1) /\ ~(name = "abt_version" /\ n >= 2)
  <2>1. UNCHANGED <<config, known, phase, outcome>>
    BY <1>17 DEF HandleDirective, n
  <2> QED BY <1>same, <2>1
<1> QED BY <1>4, <1>5, <1>6, <1>7, <1>8, <1>9, <1>10, <1>11, <1>12, <1>13, <1>14, <1>15, <1>16, <1>17, DirectiveNames

-------------------------------------------------------------------------------
(* The steps *)

LEMMA DefaultsAreConfig == Defaults \in Configs
<1>1. /\ Word("1.0") \in Words /\ Word("build") \in Words
      /\ Word("MyApp") \in Words /\ Word("com.example.myapp") \in Words
  BY ConfigurationAssumption, TokenFacts
<1>2. Word("24") \in Ints /\ Word("34") \in Ints /\ Word("1") \in Ints
  BY DEF Ints, Word
<1>3. <<"arm64-v8a">> \in Seq(KnownAbis)
  BY DEF KnownAbis
<1>4. <<>> \in Seq(Places) /\ <<>> \in Seq(Words)
  OBVIOUS
<1> QED BY <1>1, <1>2, <1>3, <1>4 DEF Defaults, Configs

LEMMA BuiltInTypes == DOMAIN BuiltIn \subseteq Words /\ BuiltIn \in [DOMAIN BuiltIn -> Words]
<1>1. /\ Word("ANDROID_NDK") \in Words /\ Word("CMAKE_SOURCE_DIR") \in Words
      /\ Word("CMAKE_CURRENT_SOURCE_DIR") \in Words
      /\ Word("NDK") \in Words /\ Word("PROJECT") \in Words
  BY ConfigurationAssumption, TokenFacts
<1> QED BY <1>1 DEF BuiltIn

LEMMA InitIInv == Init => IInv
<1> SUFFICES ASSUME Init PROVE IInv
  OBVIOUS
<1>empty. <<>> \in Seq(Strings) /\ <<>> \in Seq(Seq(Tokens)) /\ <<>> \in Seq(Tokens \ {Hash})
  OBVIOUS
<1>1. input \in Inputs /\ left \in Seq(Strings \X Seq(Strings)) /\ unread \in Seq(Seq(Tokens))
  BY <1>empty, ConfigurationAssumption DEF Init
<1>2. opts \in [release : BOOLEAN, host : {"auto", "arm64", "x86_64"}, arches : Seq(Strings)]
  BY <1>empty DEF Init
<1>3. config \in Configs
  BY DefaultsAreConfig DEF Init
<1>4. DOMAIN BuiltIn \subseteq Words /\ BuiltIn \in [DOMAIN BuiltIn -> Words]
  BY BuiltInTypes
<1>5. DOMAIN known \subseteq Words /\ known \in [DOMAIN known -> Words]
  BY <1>4 DEF Init
<1>6. accum \in Seq(Tokens \ {Hash}) /\ depth \in Nat /\ (depth = 0 => accum = <<>>)
  BY <1>empty DEF Init
<1>7. phase = "args" /\ outcome = "none"
  BY DEF Init
<1>8. TypeOK
  BY <1>2, <1>3, <1>5, <1>6, <1>7 DEF TypeOK
<1>9. SearchInv
  BY <1>7 DEF SearchInv
<1> QED BY <1>1, <1>8, <1>9 DEF IInv

\* Only NextLine changes these.
ParserKept == UNCHANGED <<known, accum, depth>>

\* What a step that leaves the parser alone has to show.
LEMMA TypesOfStep ==
  ASSUME TypeOK, ParserKept, config' \in Configs,
         opts' \in [release : BOOLEAN, host : {"auto", "arm64", "x86_64"}, arches : Seq(Strings)],
         \/ phase' \in {"args", "open", "line", "override", "ndk", "sdk"} /\ outcome' = "none"
         \/ phase' = "end" /\ outcome' \in {"usage", "removed build", "aborted", "ndk not found",
                                            "sdk not found", "exit0", "builds"}
  PROVE  TypeOK'
BY DEF TypeOK, ParserKept

LEMMA ParseArgStep == IInv /\ ParseArg => IInv'
<1> SUFFICES ASSUME IInv, ParseArg PROVE IInv'
  OBVIOUS
<1>1. Head(left) \in Strings \X Seq(Strings) /\ left' \in Seq(Strings \X Seq(Strings))
  BY DEF IInv, ParseArg
<1>2. opts \in [release : BOOLEAN, host : {"auto", "arm64", "x86_64"}, arches : Seq(Strings)]
  BY DEF IInv, TypeOK
<1> DEFINE values == Head(left)[2]
<1>3. values \in Seq(Strings)
  BY <1>1
<1> HIDE DEF values
<1>4. \A name : Option(opts, name, values)
                  \in [release : BOOLEAN, host : {"auto", "arm64", "x86_64"}, arches : Seq(Strings)]
  <2> SUFFICES ASSUME NEW name
               PROVE  Option(opts, name, values)
                  \in [release : BOOLEAN, host : {"auto", "arm64", "x86_64"}, arches : Seq(Strings)]
    OBVIOUS
  <2>1. opts.arches \o values \in Seq(Strings)
    BY <1>2, <1>3
  <2>2. [opts EXCEPT !.arches = @ \o values]
          \in [release : BOOLEAN, host : {"auto", "arm64", "x86_64"}, arches : Seq(Strings)]
    BY <1>2, <2>1
  <2>3. /\ [opts EXCEPT !.release = TRUE]
            \in [release : BOOLEAN, host : {"auto", "arm64", "x86_64"}, arches : Seq(Strings)]
        /\ [opts EXCEPT !.host = "arm64"]
            \in [release : BOOLEAN, host : {"auto", "arm64", "x86_64"}, arches : Seq(Strings)]
        /\ [opts EXCEPT !.host = "x86_64"]
            \in [release : BOOLEAN, host : {"auto", "arm64", "x86_64"}, arches : Seq(Strings)]
    BY <1>2
  <2> QED BY <1>2, <2>2, <2>3 DEF Option
<1>5. opts' \in [release : BOOLEAN, host : {"auto", "arm64", "x86_64"}, arches : Seq(Strings)]
  BY <1>2, <1>4 DEF ParseArg, values
<1>6. \/ phase' = "args" /\ outcome' = "none"
      \/ phase' = "end" /\ outcome' = "usage"
  BY DEF IInv, TypeOK, ParseArg, Finish
<1>7. config' \in Configs /\ ParserKept
  BY DEF IInv, TypeOK, ParseArg, ParserKept, parser
<1>8. TypeOK'
  BY <1>5, <1>6, <1>7, TypesOfStep DEF IInv
<1>9. SearchInv'
  BY <1>6 DEF SearchInv
<1> QED BY <1>1, <1>8, <1>9 DEF IInv, ParseArg, parser

LEMMA ArgsParsedStep == IInv /\ ArgsParsed => IInv'
<1> SUFFICES ASSUME IInv, ArgsParsed PROVE IInv'
  OBVIOUS
<1>1. \/ phase' = "open" /\ outcome' = "none"
      \/ phase' = "end" /\ outcome' \in {"usage", "removed build"}
  BY DEF IInv, TypeOK, ArgsParsed, Finish
<1>2. /\ config' \in Configs /\ ParserKept
      /\ opts' \in [release : BOOLEAN, host : {"auto", "arm64", "x86_64"}, arches : Seq(Strings)]
  BY DEF IInv, TypeOK, ArgsParsed, ParserKept, parser
<1>3. TypeOK'
  BY <1>1, <1>2, TypesOfStep DEF IInv
<1>4. SearchInv'
  BY <1>1 DEF SearchInv
<1> QED BY <1>3, <1>4 DEF IInv, ArgsParsed, parser

LEMMA OpenFileStep == IInv /\ OpenFile => IInv'
<1> SUFFICES ASSUME IInv, OpenFile PROVE IInv'
  OBVIOUS
<1>1. phase' \in {"override", "line"} /\ outcome' = "none"
  BY DEF IInv, TypeOK, OpenFile
<1>2. config \in Configs
  BY DEF IInv, TypeOK
<1>3. Word("MyApp") \in Words /\ Word("com.example.myapp") \in Words
  BY ConfigurationAssumption, TokenFacts
<1>4. [[config EXCEPT !["projectName"] = Word("MyApp")] EXCEPT
         !["packageName"] = Word("com.example.myapp")] \in Configs
  BY <1>2, <1>3, FieldsKeepTypes
<1>5. config' \in Configs
  BY <1>2, <1>4 DEF OpenFile
<1>6. /\ ParserKept
      /\ opts' \in [release : BOOLEAN, host : {"auto", "arm64", "x86_64"}, arches : Seq(Strings)]
  BY DEF IInv, TypeOK, OpenFile, ParserKept
<1>7. TypeOK'
  BY <1>1, <1>5, <1>6, TypesOfStep DEF IInv
<1>8. SearchInv'
  BY <1>1 DEF SearchInv
<1>9. unread' \in Seq(Seq(Tokens))
  BY ConfigurationAssumption DEF IInv, OpenFile
<1> QED BY <1>7, <1>8, <1>9 DEF IInv, OpenFile

LEMMA EndOfFileStep == IInv /\ EndOfFile => IInv'
<1> SUFFICES ASSUME IInv, EndOfFile PROVE IInv'
  OBVIOUS
<1>1. phase' = "override" /\ outcome' = "none"
  BY DEF IInv, TypeOK, EndOfFile
<1>2. /\ config' \in Configs /\ ParserKept
      /\ opts' \in [release : BOOLEAN, host : {"auto", "arm64", "x86_64"}, arches : Seq(Strings)]
  BY DEF IInv, TypeOK, EndOfFile, ParserKept, parser
<1>3. TypeOK'
  BY <1>1, <1>2, TypesOfStep DEF IInv
<1>4. SearchInv'
  BY <1>1 DEF SearchInv
<1> QED BY <1>3, <1>4 DEF IInv, EndOfFile, parser

LEMMA OverrideStep == IInv /\ Override => IInv'
<1> SUFFICES ASSUME IInv, Override PROVE IInv'
  OBVIOUS
<1>1. \/ phase' = "ndk" /\ outcome' = "none"
      \/ phase' = "end" /\ outcome' = "usage"
  BY DEF IInv, TypeOK, Override, Finish
<1>2. config \in Configs /\ opts.arches \in Seq(Strings)
  BY DEF IInv, TypeOK
<1> DEFINE type == IF opts.release THEN "release" ELSE config.buildType
           arches == IF opts.arches # <<>> THEN Kept(opts.arches, KnownAbis) ELSE config.architectures
<1>3. type \in {"debug", "release"}
  BY <1>2 DEF Configs
<1>4. arches \in Seq(KnownAbis)
  BY <1>2, KeptIsSeq DEF Configs
<1>5. config' = [[config EXCEPT !["buildType"] = type] EXCEPT !["architectures"] = arches]
  BY <1>2 DEF Override, Configs
<1> HIDE DEF type, arches
<1>6. [config EXCEPT !["buildType"] = type] \in Configs
  BY <1>2, <1>3, FieldsKeepTypes
<1>7. config' \in Configs
  BY <1>4, <1>5, <1>6, FieldsKeepTypes
<1>8. /\ ParserKept
      /\ opts' \in [release : BOOLEAN, host : {"auto", "arm64", "x86_64"}, arches : Seq(Strings)]
  BY DEF IInv, TypeOK, Override, ParserKept, parser
<1>9. TypeOK'
  BY <1>1, <1>7, <1>8, TypesOfStep DEF IInv
<1>10. SearchInv'
  BY <1>1 DEF SearchInv
<1> QED BY <1>9, <1>10 DEF IInv, Override, parser

LEMMA ProbeNdkStep == IInv /\ ProbeNdk => IInv'
<1> SUFFICES ASSUME IInv, ProbeNdk PROVE IInv'
  OBVIOUS
<1>1. \/ phase' = "sdk" /\ outcome' = "none"
      \/ phase' = "end" /\ outcome' = "ndk not found"
  BY DEF IInv, TypeOK, ProbeNdk, Finish
<1>2. /\ config' \in Configs /\ ParserKept
      /\ opts' \in [release : BOOLEAN, host : {"auto", "arm64", "x86_64"}, arches : Seq(Strings)]
  BY DEF IInv, TypeOK, ProbeNdk, ParserKept, parser
<1>3. TypeOK'
  BY <1>1, <1>2, TypesOfStep DEF IInv
<1>4. ndkRoot' = Found(NdkNames, "HOME/assets/android-ndk") /\ input' = input
  BY DEF ProbeNdk
<1>5. phase' = "sdk" => input.command = "info" \/ ndkRoot' \in input.env.ndks
  BY DEF ProbeNdk, Finish
<1>6. Found(NdkNames, "HOME/assets/android-ndk")' = Found(NdkNames, "HOME/assets/android-ndk")
  BY <1>4 DEF Found, FirstSet, NdkNames
<1>7. SearchInv'
  BY <1>1, <1>4, <1>5, <1>6 DEF SearchInv
<1> QED BY <1>3, <1>7 DEF IInv, ProbeNdk, parser

LEMMA ProbeSdkStep == IInv /\ ProbeSdk => IInv'
<1> SUFFICES ASSUME IInv, ProbeSdk PROVE IInv'
  OBVIOUS
<1> DEFINE root == Found(SdkNames, "HOME/assets/android-sdk")
           versions == IF root \in DOMAIN input.env.sdks THEN input.env.sdks[root] ELSE {}
<1>1. phase' = "end" /\ outcome' \in {"exit0", "sdk not found", "builds"}
  BY DEF ProbeSdk, Finish
<1>2. /\ config' \in Configs /\ ParserKept
      /\ opts' \in [release : BOOLEAN, host : {"auto", "arm64", "x86_64"}, arches : Seq(Strings)]
  BY DEF IInv, TypeOK, ProbeSdk, ParserKept, parser
<1>3. TypeOK'
  BY <1>1, <1>2, TypesOfStep DEF IInv
<1>4. UNCHANGED <<input, ndkRoot>> /\ phase = "sdk" /\ buildTools' = Newest(versions)
  BY DEF ProbeSdk
<1>5. outcome' = "builds" => input.command # "info" /\ versions # {}
  BY DEF ProbeSdk, Finish
<1>6. /\ Found(NdkNames, "HOME/assets/android-ndk")' = Found(NdkNames, "HOME/assets/android-ndk")
      /\ Found(SdkNames, "HOME/assets/android-sdk")' = Found(SdkNames, "HOME/assets/android-sdk")
  BY <1>4 DEF Found, FirstSet, NdkNames, SdkNames
<1>7. /\ ndkRoot = Found(NdkNames, "HOME/assets/android-ndk")
      /\ input.command # "info" => ndkRoot \in input.env.ndks
  BY <1>4 DEF IInv, SearchInv
<1>8. outcome' = "builds" =>
        /\ input.command # "info" /\ root \in DOMAIN input.env.sdks
        /\ input.env.sdks[root] # {} /\ buildTools' = Newest(input.env.sdks[root])
  BY <1>4, <1>5
<1> HIDE DEF root
<1>9. SearchInv'
  BY <1>1, <1>4, <1>6, <1>7, <1>8 DEF SearchInv, root
<1> QED BY <1>3, <1>9 DEF IInv, ProbeSdk, parser

\* The parentheses of a line are finitely many.
LEMMA CountsAreNumbers ==
  ASSUME NEW T, NEW line \in Seq(T), NEW token PROVE Cardinality(At(line, token)) \in Nat
<1>1. Len(line) \in Nat /\ At(line, token) \subseteq 1..Len(line)
  BY DEF At
<1>2. IsFiniteSet(1..Len(line))
  BY <1>1, FS_Interval
<1>3. IsFiniteSet(At(line, token))
  BY <1>1, <1>2, FS_Subset
<1> QED BY <1>3, FS_CardinalityType

\* What a letter of a word is replaced by.
Expanded(x) == IF x[1] = "var" /\ Word(x[2]) \in DOMAIN known THEN known[Word(x[2])] ELSE <<x>>

LEMMA ExpandIsWord == ASSUME ParserTypes, NEW w \in Words PROVE Expand(w) \in Words
<1> DEFINE f == [i \in DOMAIN w |-> Expanded(w[i])]
<1>1. w \in Seq(Letters) /\ DOMAIN w = 1..Len(w)
  BY WordFacts
<1>2. \A x \in Letters : Expanded(x) \in Words
  BY WordFacts DEF ParserTypes, Expanded
<1>3. \A i \in DOMAIN w : f[i] \in Words
  BY <1>1, <1>2
<1>4. Expand(w) = FlattenSeq(f)
  BY DEF Expand, Expanded
<1> HIDE DEF f
<1>5. f = [i \in DOMAIN w |-> f[i]]
  BY DEF f
<1> QED BY <1>3, <1>4, <1>5, WordOfLetters

LEMMA NextLineStep == IInv /\ NextLine => IInv'
<1> SUFFICES ASSUME IInv, NextLine PROVE IInv'
  OBVIOUS
<1> DEFINE line == WithoutComment(Head(unread))
           text == accum \o <<Blank>> \o line
           opened == depth + Opened(line)
           d == ParseLine(text)
           words == Arguments(d.inner)
           args == [i \in DOMAIN words |-> Expand(words[i])]
<1>1. phase = "line" /\ outcome = "none"
  BY DEF IInv, TypeOK, NextLine
<1>2. Head(unread) \in Seq(Tokens) /\ unread' \in Seq(Seq(Tokens))
  BY DEF IInv, NextLine
<1>3. line \in Seq(Plain)
  BY <1>2, CommentsGo
<1> HIDE DEF line
<1>4. accum \in Seq(Plain) /\ depth \in Nat
  BY DEF IInv, TypeOK, Plain
<1>5. text \in Seq(Plain)
  <2>1. <<Blank>> \in Seq(Plain)
    BY TokenFacts
  <2> QED BY <1>3, <1>4, <2>1
<1>6. opened \in Nat /\ Closed(line) \in Nat
  BY <1>3, <1>4, CountsAreNumbers DEF Opened, Closed
<1>7. IF opened > Closed(line)
      THEN /\ accum' = text /\ depth' = opened - Closed(line)
           /\ UNCHANGED <<config, known, phase, outcome>>
      ELSE accum' = <<>> /\ depth' = 0 /\ HandleDirective(d.name, args)
  BY DEF NextLine, line
<1> HIDE DEF text, opened
<1>8. ParserTypes
  BY DEF IInv, TypeOK, ParserTypes
<1>9. accum' \in Seq(Plain) /\ depth' \in Nat /\ (depth' = 0 => accum' = <<>>)
  <2>1. CASE opened > Closed(line)
    BY <1>5, <1>6, <1>7, <2>1
  <2>2. CASE ~(opened > Closed(line))
    <3>1. <<>> \in Seq(Plain)
      OBVIOUS
    <3> QED BY <1>7, <2>2, <3>1
  <2> QED BY <2>1, <2>2
<1>10. ParserTypes' /\ Ended
  <2>1. CASE opened > Closed(line)
    BY <1>1, <1>7, <1>8, <2>1 DEF ParserTypes, Ended
  <2>2. CASE ~(opened > Closed(line))
    <3>1. d.name \in Strings /\ words \in Seq(Words)
      BY <1>5, LineIsDirective
    <3> HIDE DEF d, words
    <3>2. Len(words) \in Nat /\ DOMAIN words = 1..Len(words) /\ \A i \in DOMAIN words : words[i] \in Words
      BY <3>1
    <3>3. \A w \in Words : Expand(w) \in Words
      BY <1>8, ExpandIsWord
    <3>4. args \in [1..Len(words) -> Words]
      BY <3>2, <3>3
    <3>5. args \in Seq(Words)
      BY <3>2, <3>4, FunctionIsSeq
    <3> HIDE DEF args
    <3>6. HandleDirective(d.name, args)
      BY <1>7, <2>2
    <3> QED BY <1>1, <1>8, <3>1, <3>5, <3>6, DirectiveKeepsTypes
  <2> QED BY <2>1, <2>2
<1>11. TypeOK'
  <2>1. opts' \in [release : BOOLEAN, host : {"auto", "arm64", "x86_64"}, arches : Seq(Strings)]
    BY DEF IInv, TypeOK, NextLine
  <2> QED BY <1>9, <1>10, <2>1 DEF TypeOK, ParserTypes, Ended, Plain
<1>12. SearchInv'
  BY <1>10 DEF SearchInv, Ended
<1> QED BY <1>2, <1>11, <1>12 DEF IInv, NextLine

LEMMA NextIInv == IInv /\ [Next]_vars => IInv'
<1> SUFFICES ASSUME IInv, [Next]_vars PROVE IInv'
  OBVIOUS
<1>1. CASE ParseArg     BY <1>1, ParseArgStep
<1>2. CASE ArgsParsed   BY <1>2, ArgsParsedStep
<1>3. CASE OpenFile     BY <1>3, OpenFileStep
<1>4. CASE NextLine     BY <1>4, NextLineStep
<1>5. CASE EndOfFile    BY <1>5, EndOfFileStep
<1>6. CASE Override     BY <1>6, OverrideStep
<1>7. CASE ProbeNdk     BY <1>7, ProbeNdkStep
<1>8. CASE ProbeSdk     BY <1>8, ProbeSdkStep
<1>9. CASE UNCHANGED vars
  <2>1. /\ Found(NdkNames, "HOME/assets/android-ndk")' = Found(NdkNames, "HOME/assets/android-ndk")
        /\ Found(SdkNames, "HOME/assets/android-sdk")' = Found(SdkNames, "HOME/assets/android-sdk")
    BY <1>9 DEF vars, Found, FirstSet, NdkNames, SdkNames
  <2>2. SearchInv'
    BY <1>9, <2>1 DEF vars, tools, IInv, SearchInv
  <2>3. TypeOK'
    BY <1>9 DEF vars, parser, IInv, TypeOK
  <2> QED BY <1>9, <2>2, <2>3 DEF vars, parser, IInv
<1> QED BY <1>1, <1>2, <1>3, <1>4, <1>5, <1>6, <1>7, <1>8, <1>9 DEF Next

THEOREM Invariant == Spec => []IInv
<1> QED BY InitIInv, NextIInv, PTL DEF Spec

-------------------------------------------------------------------------------

\* Every variable of main and of ConfigParser has its type in every state, whatever the
\* command line and the file are: BuildConfig never has an empty word, a word with a comment
\* in it, a number that was not read as one, or an architecture that abt does not know.
THEOREM TypeCorrect == Spec => []TypeOK
<1>1. IInv => TypeOK
  BY DEF IInv
<1> QED BY <1>1, Invariant, PTL

\* Whatever the project is, no C file is compiled as C++17, objects compiled with -flto are
\* linked with it and no others, and the link of an architecture takes the object of every
\* source, made by the compiler of that architecture, before every library.
THEOREM CommandsMatch == Spec => []CommandsCohere
<1>1. IInv => CommandsCohere
  BY CommandsFit DEF IInv
<1> QED BY <1>1, Invariant, PTL

\* Whatever the environment is, a build has in ${ANDROID_NDK} the NDK that NDKBridge compiles
\* with when one of the three variables is set, calls an aapt2 that runs on the host when the
\* SDK or the PATH has one, and when all versions of the build-tools have as many digits it
\* uses the highest.
THEOREM ToolsMatch == Spec => []ToolsAgree
<1>1. IInv => ToolsAgree
  BY ToolsFit
<1> QED BY <1>1, Invariant, PTL

-------------------------------------------------------------------------------
(* ConfigIsMeaning: the values of arguments *)

\* What parseLine gives.
Directive == [name : Strings, args : Seq(Words)]

LEMMA DirectiveFacts ==
  ASSUME NEW d \in Directive
  PROVE  /\ d.name \in Strings /\ d.args \in Seq(Words) /\ Len(d.args) \in Nat
         /\ DOMAIN d.args = 1..Len(d.args) /\ \A k \in 1..Len(d.args) : d.args[k] \in Words
BY DEF Directive

Agree(ds, es, a, b, i) == \A j \in 1..i-1 : es[j] = ds[j] /\ b[j] = a[j]

\* A value depends on nothing but the directives before.
LEMMA StandsLocal ==
  ASSUME NEW i \in Nat, NEW ds, NEW es, NEW a, NEW b, Agree(ds, es, a, b, i), NEW x
  PROVE  Stands(es, b, i, x) = Stands(ds, a, i, x)
<1>1. Sets(es, b, i, x[2]) = Sets(ds, a, i, x[2])
  BY DEF Sets, Agree
<1>2. ASSUME Sets(ds, a, i, x[2]) # {}
      PROVE  a[Max(Sets(ds, a, i, x[2]))] = b[Max(Sets(ds, a, i, x[2]))]
  <2> DEFINE S == Sets(ds, a, i, x[2])
  <2>1. S \in SUBSET (1..i-1)
    BY DEF Sets
  <2>2. i = 0 => S = {}
    BY <2>1
  <2>3. i - 1 \in Nat /\ S # {}
    BY <1>2, <2>2
  <2> HIDE DEF S
  <2>4. Max(S) \in 1..i-1
    BY <2>1, <2>3, Greatest
  <2> QED BY <2>4 DEF S, Agree
<1> QED BY <1>1, <1>2 DEF Stands

LEMMA ValueLocal ==
  ASSUME NEW i \in Nat, NEW ds, NEW es, NEW a, NEW b, Agree(ds, es, a, b, i), NEW w
  PROVE  Value(es, b, i, w) = Value(ds, a, i, w)
<1>1. \A x : Stands(es, b, i, x) = Stands(ds, a, i, x)
  BY StandsLocal
<1> QED BY <1>1 DEF Value

\* The values of the i-th directive's arguments, when a has those of the ones before.
Row(ds, a, i) == [k \in DOMAIN ds[i].args |-> Value(ds, a, i, ds[i].args[k])]

LEMMA RowLocal ==
  ASSUME NEW i \in Nat, NEW ds, NEW es, NEW a, NEW b, Agree(ds, es, a, b, i),
         es[i] = ds[i]
  PROVE  Row(es, b, i) = Row(ds, a, i)
<1>1. ASSUME NEW w PROVE Value(es, b, i, w) = Value(ds, a, i, w)
  BY ValueLocal
<1> QED BY <1>1 DEF Row

Rows(ds, n, a) == a = [i \in 1..n |-> Row(ds, a, i)]

LEMMA RowsAt == ASSUME NEW ds, NEW n, NEW a, Rows(ds, n, a), NEW i \in 1..n PROVE a[i] = Row(ds, a, i)
BY DEF Rows

LEMMA RowsExist == ASSUME NEW ds, NEW n \in Nat PROVE \E a : Rows(ds, n, a)
<1> DEFINE T == {m \in Nat : \E a : Rows(ds, m, a)}
<1>1. 0 \in T
  <2>1. Rows(ds, 0, [i \in 1..0 |-> <<>>])
    BY DEF Rows
  <2> QED BY <2>1
<1>2. ASSUME NEW m \in T PROVE m + 1 \in T
  <2>1. m \in Nat /\ m + 1 \in Nat /\ \E a : Rows(ds, m, a)
    OBVIOUS
  <2>2. PICK a : Rows(ds, m, a)
    BY <2>1
  <2> DEFINE b == [i \in 1..m + 1 |-> IF i <= m THEN a[i] ELSE Row(ds, a, m + 1)]
  <2>3. \A i \in 1..m + 1 : (i <= m => i \in 1..m) /\ (~(i <= m) => i = m + 1)
    BY <2>1
  <2>4. \A i \in 1..m + 1 : \A j \in 1..i-1 : b[j] = a[j]
    BY <2>1
  <2>5. b = [i \in 1..m + 1 |-> b[i]]
    OBVIOUS
  <2>6. \A i \in 1..m + 1 : b[i] = IF i <= m THEN a[i] ELSE Row(ds, a, m + 1)
    OBVIOUS
  <2> HIDE DEF b
  <2>7. ASSUME NEW i \in 1..m + 1 PROVE b[i] = Row(ds, b, i)
    <3>1. i \in Nat /\ Agree(ds, ds, a, b, i)
      <4>1. i \in Nat
        BY <2>1
      <4>2. \A j \in 1..i-1 : b[j] = a[j]
        BY <2>4
      <4> QED BY <4>1, <4>2 DEF Agree
    <3>2. Row(ds, b, i) = Row(ds, a, i)
      BY <3>1, RowLocal
    <3>3. CASE i <= m
      BY <2>2, <2>3, <2>6, <3>2, <3>3, RowsAt
    <3>4. CASE ~(i <= m)
      BY <2>3, <2>6, <3>2, <3>4
    <3> QED BY <3>3, <3>4
  <2>8. Rows(ds, m + 1, b)
    BY <2>5, <2>7 DEF Rows
  <2> QED BY <2>1, <2>8
<1> HIDE DEF T
<1>3. T = Nat
  <2>1. T \in SUBSET Nat
    BY DEF T
  <2> QED BY <1>1, <1>2, <2>1, Inductive
<1> QED BY <1>3 DEF T

LEMMA RowsAgree ==
  ASSUME NEW ds, NEW es, NEW a, NEW b, NEW n \in Nat, Rows(ds, n, a), Rows(es, n + 1, b),
         \A i \in 1..n : es[i] = ds[i]
  PROVE  \A i \in 1..n : b[i] = a[i]
<1> DEFINE D == {i \in 1..n : b[i] # a[i]}
<1> SUFFICES ASSUME D # {} PROVE FALSE
  OBVIOUS
<1> DEFINE d == Min(D)
<1>1. d \in D /\ \A j \in D : d <= j
  <2>1. D \in SUBSET Nat
    OBVIOUS
  <2> QED BY <2>1, Least
<1> HIDE DEF d
<1>2. d \in 1..n /\ d \in 1..n + 1 /\ d \in Nat /\ b[d] # a[d]
  BY <1>1
<1>3. Agree(ds, es, a, b, d)
  <2> SUFFICES ASSUME NEW j \in 1..d-1 PROVE es[j] = ds[j] /\ b[j] = a[j]
    BY DEF Agree
  <2>1. j \in 1..n /\ ~(d <= j)
    BY <1>2
  <2> QED BY <1>1, <2>1
<1>4. a[d] = Row(ds, a, d) /\ b[d] = Row(es, b, d)
  BY <1>2, RowsAt
<1>5. Row(es, b, d) = Row(ds, a, d)
  BY <1>2, <1>3, RowLocal
<1> QED BY <1>2, <1>4, <1>5

LEMMA ValuesAre ==
  ASSUME NEW ds, NEW n \in Nat, DOMAIN ds = 1..n
  PROVE  Rows(ds, n, Values(ds))
<1> DEFINE args == CHOOSE a : a = [i \in DOMAIN ds |-> [k \in DOMAIN ds[i].args |-> Value(ds, a, i, ds[i].args[k])]]
<1>1. Values(ds) = args
  BY DEF Values
<1>2. \E a : a = [i \in DOMAIN ds |-> [k \in DOMAIN ds[i].args |-> Value(ds, a, i, ds[i].args[k])]]
  <2>1. PICK a : Rows(ds, n, a)
    BY RowsExist
  <2>2. a = [i \in DOMAIN ds |-> [k \in DOMAIN ds[i].args |-> Value(ds, a, i, ds[i].args[k])]]
    BY <2>1 DEF Rows, Row
  <2> QED BY <2>2
<1>3. args = [i \in DOMAIN ds |-> [k \in DOMAIN ds[i].args |-> Value(ds, args, i, ds[i].args[k])]]
  BY <1>2
<1> HIDE DEF args
<1>4. Rows(ds, n, args)
  BY <1>3 DEF Rows, Row
<1> QED BY <1>1, <1>4

\* The values of a directive more, and of those before.
LEMMA ValuesAppend ==
  ASSUME NEW ds \in Seq(Directive), NEW d \in Directive
  PROVE  LET n == Len(ds)  es == Append(ds, d)
         IN  /\ \A i \in 1..n : Values(es)[i] = Values(ds)[i]
             /\ Values(es)[n + 1] = [k \in DOMAIN d.args |-> Value(ds, Values(ds), n + 1, d.args[k])]
             /\ \A w : \A i \in 1..n + 1 : Value(es, Values(es), i, w) = Value(ds, Values(ds), i, w)
<1> DEFINE n == Len(ds)
           es == Append(ds, d)
<1>1. /\ n \in Nat /\ n + 1 \in Nat /\ DOMAIN ds = 1..n /\ DOMAIN es = 1..n + 1
      /\ es[n + 1] = d /\ \A i \in 1..n : es[i] = ds[i]
  BY AppendProperties
<1> HIDE DEF n, es
<1>2. Rows(ds, n, Values(ds)) /\ Rows(es, n + 1, Values(es))
  BY <1>1, ValuesAre
<1>3. \A i \in 1..n : Values(es)[i] = Values(ds)[i]
  BY <1>1, <1>2, RowsAgree
<1>4. ASSUME NEW w, NEW i \in 1..n + 1
      PROVE  Value(es, Values(es), i, w) = Value(ds, Values(ds), i, w)
  <2>1. i \in Nat /\ \A j \in 1..i-1 : j \in 1..n
    BY <1>1
  <2>2. Agree(ds, es, Values(ds), Values(es), i)
    BY <1>1, <1>3, <2>1 DEF Agree
  <2> QED BY <2>1, <2>2, ValueLocal
<1>5. Values(es)[n + 1] = [k \in DOMAIN d.args |-> Value(ds, Values(ds), n + 1, d.args[k])]
  <2>1. PICK i \in 1..n + 1 : i = n + 1
    BY <1>1
  <2>2. Values(es)[i] = Row(es, Values(es), i)
    BY <1>2, RowsAt
  <2>3. Values(es)[i] = [k \in DOMAIN d.args |-> Value(es, Values(es), i, d.args[k])]
    BY <1>1, <2>1, <2>2 DEF Row
  <2>4. \A w : Value(es, Values(es), i, w) = Value(ds, Values(ds), i, w)
    BY <1>4
  <2>5. Values(es)[i] = [k \in DOMAIN d.args |-> Value(ds, Values(ds), i, d.args[k])]
    BY <2>3, <2>4
  <2> QED BY <2>1, <2>5
<1> QED BY <1>3, <1>4, <1>5 DEF n, es

\* One sequence after the other, made into words of the project one by one.
LEMMA PathsJoin ==
  ASSUME NEW s \in Seq(Words), NEW t \in Seq(Words)
  PROVE  Paths(s \o t) = Paths(s) \o Paths(t)
<1> DEFINE n == Len(s)
           m == Len(t)
           st == s \o t
           ps == Paths(s)
           pt == Paths(t)
<1>1. n \in Nat /\ m \in Nat /\ DOMAIN s = 1..n /\ DOMAIN t = 1..m
  OBVIOUS
<1>2. /\ st \in Seq(Words) /\ DOMAIN st = 1..n + m
      /\ \A i \in 1..n + m : st[i] = IF i <= n THEN s[i] ELSE t[i - n]
  BY ConcatProperties
<1>3. ps \in Seq(Places) /\ pt \in Seq(Places)
  BY PathsAreSeq
<1>4. /\ DOMAIN ps = 1..n /\ \A i \in 1..n : ps[i] = InProject(s[i])
      /\ DOMAIN pt = 1..m /\ \A i \in 1..m : pt[i] = InProject(t[i])
  BY <1>1 DEF Paths
<1>5. Len(ps) = n /\ Len(pt) = m
  <2> HIDE DEF ps, pt, n, m
  <2> QED BY <1>1, <1>3, <1>4, LenProperties
<1> DEFINE p == ps \o pt
<1>6. /\ p \in Seq(Places) /\ DOMAIN p = 1..n + m
      /\ \A i \in 1..n + m : p[i] = IF i <= n THEN ps[i] ELSE pt[i - n]
  <2> HIDE DEF ps, pt
  <2>1. p \in Seq(Places) /\ Len(p) = Len(ps) + Len(pt)
    BY <1>3, ConcatProperties
  <2>2. \A i \in 1..n + m : p[i] = IF i <= n THEN ps[i] ELSE pt[i - n]
    BY <1>3, <1>5, ConcatProperties
  <2>3. DOMAIN p = 1..n + m
    BY <1>5, <2>1, LenProperties
  <2> QED BY <2>1, <2>2, <2>3
<1> HIDE DEF p, st, ps, pt, n, m
<1>7. \A i \in 1..n + m : (i <= n => i \in 1..n) /\ (~(i <= n) => i - n \in 1..m)
  BY <1>1
<1>8. \A i \in 1..n + m : p[i] = InProject(st[i])
  BY <1>2, <1>4, <1>6, <1>7
<1>9. Paths(st) = [i \in 1..n + m |-> InProject(st[i])]
  BY <1>2 DEF Paths
<1>10. p = [i \in 1..n + m |-> p[i]]
  <2>1. p \in [1..Len(p) -> Places] /\ DOMAIN p = 1..Len(p)
    BY <1>6, LenProperties
  <2> QED BY <1>6, <2>1
<1>11. Paths(st) = p
  BY <1>8, <1>9, <1>10
<1> QED BY <1>11 DEF p, st, ps, pt

\* Values are words, one for each argument.
LEMMA ValuesAreWords ==
  ASSUME NEW ds \in Seq(Directive), NEW i \in 1..Len(ds)
  PROVE  Values(ds)[i] \in Seq(Words) /\ Len(Values(ds)[i]) = Len(ds[i].args)
<1> DEFINE n == Len(ds)
           v == Values(ds)
           D == {j \in 1..n : ~(v[j] \in Seq(Words) /\ Len(v[j]) = Len(ds[j].args))}
<1> SUFFICES ASSUME D # {} PROVE FALSE
  OBVIOUS
<1> DEFINE d == Min(D)
<1>1. d \in D /\ \A j \in D : d <= j
  <2>1. D \in SUBSET Nat
    OBVIOUS
  <2> QED BY <2>1, Least
<1> HIDE DEF d
<1>2. d \in 1..n /\ d \in Nat /\ ~(v[d] \in Seq(Words) /\ Len(v[d]) = Len(ds[d].args))
  BY <1>1
<1>3. \A j \in 1..d-1 : j \in 1..n /\ v[j] \in Seq(Words) /\ Len(v[j]) = Len(ds[j].args)
  <2> SUFFICES ASSUME NEW j \in 1..d-1
               PROVE  j \in 1..n /\ v[j] \in Seq(Words) /\ Len(v[j]) = Len(ds[j].args)
    OBVIOUS
  <2>1. j \in 1..n /\ ~(d <= j)
    BY <1>2
  <2> QED BY <1>1, <2>1
<1>4. n \in Nat /\ DOMAIN ds = 1..n /\ ds[d] \in Directive
  BY <1>2
<1>5. v[d] = Row(ds, v, d)
  <2>1. Rows(ds, n, v)
    BY <1>4, ValuesAre
  <2> QED BY <1>2, <2>1, RowsAt
<1> HIDE DEF v, D, n
<1> DEFINE m == Len(ds[d].args)
<1>6. m \in Nat /\ DOMAIN ds[d].args = 1..m /\ \A k \in 1..m : ds[d].args[k] \in Words
  BY <1>4, DirectiveFacts
<1> HIDE DEF m
<1>7. ASSUME NEW x \in Letters PROVE Stands(ds, v, d, x) \in Words
  <2> DEFINE S == Sets(ds, v, d, x[2])
  <2>1. CASE x[1] # "var"
    BY <2>1, WordFacts DEF Stands
  <2>2. CASE x[1] = "var" /\ S # {}
    <3>1. S \in SUBSET (1..d-1) /\ \A j \in S : Len(ds[j].args) >= 2
      BY DEF Sets
    <3>2. d - 1 \in Nat
      BY <1>2
    <3>3. Max(S) \in S
      BY <2>2, <3>1, <3>2, Greatest
    <3> HIDE DEF S
    <3>4. v[Max(S)] \in Seq(Words) /\ Len(v[Max(S)]) >= 2
      BY <1>3, <3>1, <3>3
    <3>5. v[Max(S)][2] \in Words
      BY <3>4
    <3> QED BY <2>2, <3>5 DEF Stands, S
  <2>3. CASE x[1] = "var" /\ S = {}
    BY <2>3, BuiltInTypes, WordFacts DEF Stands
  <2> QED BY <2>1, <2>2, <2>3
<1>value. ASSUME NEW w \in Words PROVE Value(ds, v, d, w) \in Words
  <2> DEFINE f == [k \in DOMAIN w |-> Stands(ds, v, d, w[k])]
  <2>1. w \in Seq(Letters) /\ DOMAIN w = 1..Len(w)
    BY WordFacts
  <2>2. \A k \in DOMAIN w : f[k] \in Words
    BY <1>7, <2>1
  <2>3. Value(ds, v, d, w) = FlattenSeq(f)
    BY DEF Value
  <2> HIDE DEF f
  <2>4. f = [k \in DOMAIN w |-> f[k]]
    BY DEF f
  <2> QED BY <2>2, <2>3, <2>4, WordOfLetters
<1>8. v[d] \in [1..m -> Words]
  BY <1>5, <1>6, <1>value DEF Row
<1>9. v[d] \in Seq(Words) /\ Len(v[d]) = m
  BY <1>6, <1>8, FunctionIsSeq
<1> QED BY <1>2, <1>9 DEF m

-------------------------------------------------------------------------------
(* ConfigIsMeaning: one directive more *)

\* The values of the arguments of a directive that comes after others.
Given(ds, d) == Values(Append(ds, d))[Len(ds) + 1]

LEMMA Longer ==
  ASSUME NEW ds \in Seq(Directive), NEW d \in Directive
  PROVE  /\ Len(ds) \in Nat /\ DOMAIN ds = 1..Len(ds) /\ \A i \in 1..Len(ds) : ds[i] \in Directive
         /\ Append(ds, d) \in Seq(Directive) /\ DOMAIN Append(ds, d) = 1..Len(ds) + 1
         /\ Len(Append(ds, d)) = Len(ds) + 1
         /\ Append(ds, d)[Len(ds) + 1] = d /\ \A i \in 1..Len(ds) : Append(ds, d)[i] = ds[i]
         /\ Given(ds, d) \in Seq(Words) /\ Len(Given(ds, d)) = Len(d.args)
         /\ \A i \in 1..Len(ds) : Values(Append(ds, d))[i] = Values(ds)[i] /\ Values(ds)[i] \in Seq(Words)
<1> DEFINE n == Len(ds)
           es == Append(ds, d)
<1>1. /\ n \in Nat /\ DOMAIN ds = 1..n /\ \A i \in 1..n : ds[i] \in Directive
      /\ es \in Seq(Directive) /\ DOMAIN es = 1..n + 1 /\ Len(es) = n + 1
      /\ es[n + 1] = d /\ \A i \in 1..n : es[i] = ds[i]
  BY AppendProperties
<1>2. \A i \in 1..n : Values(es)[i] = Values(ds)[i]
  BY ValuesAppend
<1>3. \A i \in 1..n : Values(ds)[i] \in Seq(Words)
  BY ValuesAreWords
<1> HIDE DEF n, es
<1>4. PICK i \in 1..Len(es) : i = n + 1
  BY <1>1
<1>5. Values(es)[i] \in Seq(Words) /\ Len(Values(es)[i]) = Len(es[i].args)
  BY <1>1, ValuesAreWords
<1>6. Values(es)[n + 1] \in Seq(Words) /\ Len(Values(es)[n + 1]) = Len(d.args)
  BY <1>1, <1>4, <1>5
<1> QED BY <1>1, <1>2, <1>3, <1>6 DEF Given, n, es

LEMMA SaysAppend ==
  ASSUME NEW ds \in Seq(Directive), NEW d \in Directive, NEW name, NEW m \in Nat
  PROVE  /\ Says(ds, name, m) \in SUBSET (1..Len(ds))
         /\ Says(Append(ds, d), name, m) =
              IF d.name = name /\ Len(d.args) >= m THEN Says(ds, name, m) \cup {Len(ds) + 1}
              ELSE Says(ds, name, m)
<1> DEFINE n == Len(ds)
           es == Append(ds, d)
<1>1. /\ n \in Nat /\ DOMAIN ds = 1..n /\ DOMAIN es = 1..n + 1
      /\ es[n + 1] = d /\ \A i \in 1..n : es[i] = ds[i]
  BY Longer
<1> HIDE DEF n, es
<1>2. \A i : i \in 1..n + 1 <=> i \in 1..n \/ i = n + 1
  BY <1>1
<1>3. ~(n + 1 \in 1..n)
  BY <1>1
<1>4. Says(ds, name, m) \in SUBSET (1..n)
  BY <1>1 DEF Says
<1>5. ASSUME NEW i PROVE i \in Says(es, name, m) <=> \/ i \in Says(ds, name, m)
                                                     \/ i = n + 1 /\ d.name = name /\ Len(d.args) >= m
  BY <1>1, <1>2, <1>3 DEF Says
<1> QED BY <1>4, <1>5 DEF n, es

LEMMA LastAppend ==
  ASSUME NEW ds \in Seq(Directive), NEW d \in Directive, NEW name, NEW m \in Nat, NEW k, NEW default
  PROVE  LastSaid(Append(ds, d), name, m, k, default) =
           IF d.name = name /\ Len(d.args) >= m THEN Given(ds, d)[k]
           ELSE LastSaid(ds, name, m, k, default)
<1> DEFINE n == Len(ds)
           es == Append(ds, d)
           says == Says(ds, name, m)
<1>1. n \in Nat /\ says \in SUBSET (1..n)
  BY SaysAppend, Longer
<1>2. CASE d.name = name /\ Len(d.args) >= m
  <2>1. Says(es, name, m) = says \cup {n + 1}
    BY <1>2, SaysAppend
  <2>2. Max(says \cup {n + 1}) = n + 1 /\ says \cup {n + 1} # {}
    BY <1>1, GreatestNext
  <2> HIDE DEF says, n, es
  <2>3. LastSaid(es, name, m, k, default) = Values(es)[n + 1][k]
    BY <2>1, <2>2 DEF LastSaid
  <2> QED BY <1>2, <2>3 DEF Given, n, es
<1>3. CASE ~(d.name = name /\ Len(d.args) >= m)
  <2>1. Says(es, name, m) = says
    BY <1>3, SaysAppend
  <2>2. CASE says = {}
    BY <1>3, <2>1, <2>2 DEF LastSaid
  <2>3. CASE says # {}
    <3>1. Max(says) \in 1..n
      <4> HIDE DEF says, n
      <4> QED BY <1>1, <2>3, Greatest
    <3>2. Values(es)[Max(says)] = Values(ds)[Max(says)]
      BY <3>1, Longer
    <3> QED BY <1>3, <2>1, <2>3, <3>2 DEF LastSaid
  <2> QED BY <2>2, <2>3
<1> QED BY <1>2, <1>3

\* Of a function on the directives to sequences, put together.
LEMMA GatherAppend ==
  ASSUME NEW n \in Nat, NEW f, NEW g, f = [i \in 1..n |-> f[i]], g = [i \in 1..n + 1 |-> g[i]],
         \A i \in 1..n : g[i] = f[i] /\ f[i] \in Seq(Words), g[n + 1] \in Seq(Words)
  PROVE  /\ FlattenSeq(g) = FlattenSeq(f) \o g[n + 1]
         /\ FlattenSeq(f) \in Seq(Words)
<1>1. f \in [1..n -> Seq(Words)]
  OBVIOUS
<1>2. f \in Seq(Seq(Words)) /\ Len(f) = n
  BY <1>1, FunctionIsSeq
<1> DEFINE h == Append(f, g[n + 1])
<1>3. /\ h \in Seq(Seq(Words)) /\ Len(h) = n + 1 /\ h[n + 1] = g[n + 1]
      /\ \A i \in 1..n : h[i] = f[i]
  BY <1>2, AppendProperties
<1> HIDE DEF h
<1>4. h \in [1..n + 1 -> Seq(Words)]
  BY <1>3, LenProperties
<1>5. \A i \in 1..n + 1 : i \in 1..n \/ i = n + 1
  OBVIOUS
<1>6. \A i \in 1..n + 1 : h[i] = g[i]
  BY <1>3, <1>5
<1>7. h = g
  BY <1>4, <1>6
<1>8. FlattenSeq(h) = FlattenSeq(f) \o g[n + 1]
  BY <1>2, FlattenAppend DEF h
<1>9. FlattenSeq(f) \in Seq(Words)
  BY <1>2, FlattenType
<1> QED BY <1>7, <1>8, <1>9

LEMMA AllAppend ==
  ASSUME NEW ds \in Seq(Directive), NEW d \in Directive, NEW name
  PROVE  /\ All(ds, name) \in Seq(Words)
         /\ All(Append(ds, d), name) =
              IF d.name = name THEN All(ds, name) \o Given(ds, d) ELSE All(ds, name)
<1> DEFINE n == Len(ds)
           es == Append(ds, d)
           f == [i \in 1..n |-> IF ds[i].name = name THEN Values(ds)[i] ELSE <<>>]
           g == [i \in 1..n + 1 |-> IF es[i].name = name THEN Values(es)[i] ELSE <<>>]
<1>1. /\ n \in Nat /\ DOMAIN ds = 1..n /\ DOMAIN es = 1..n + 1
      /\ es[n + 1] = d /\ \A i \in 1..n : es[i] = ds[i]
      /\ Given(ds, d) \in Seq(Words) /\ Values(es)[n + 1] = Given(ds, d)
      /\ \A i \in 1..n : Values(es)[i] = Values(ds)[i] /\ Values(ds)[i] \in Seq(Words)
  BY Longer DEF Given
<1> HIDE DEF n, es
<1>2. All(ds, name) = FlattenSeq(f) /\ All(es, name) = FlattenSeq(g)
  BY <1>1 DEF All
<1>3. n + 1 \in 1..n + 1 /\ \A i \in 1..n : i \in 1..n + 1
  BY <1>1
<1>4. <<>> \in Seq(Words)
  OBVIOUS
<1>5. \A i \in 1..n : g[i] = f[i] /\ f[i] \in Seq(Words)
  BY <1>1, <1>3, <1>4
<1>6. g[n + 1] = IF d.name = name THEN Given(ds, d) ELSE <<>>
  BY <1>1, <1>3
<1>7. g[n + 1] \in Seq(Words)
  BY <1>1, <1>4, <1>6
<1>8. f = [i \in 1..n |-> f[i]] /\ g = [i \in 1..n + 1 |-> g[i]]
  OBVIOUS
<1> HIDE DEF f, g
<1>9. FlattenSeq(g) = FlattenSeq(f) \o g[n + 1] /\ FlattenSeq(f) \in Seq(Words)
  BY <1>1, <1>5, <1>7, <1>8, GatherAppend
<1>10. FlattenSeq(f) \o <<>> = FlattenSeq(f)
  BY <1>9, ConcatEmptySeq
<1> QED BY <1>2, <1>6, <1>9, <1>10 DEF es

LEMMA FirstsAppend ==
  ASSUME NEW ds \in Seq(Directive), NEW d \in Directive, NEW name
  PROVE  /\ Firsts(ds, name) \in Seq(Words)
         /\ Firsts(Append(ds, d), name) =
              IF d.name = name /\ Len(d.args) >= 1 THEN Append(Firsts(ds, name), Given(ds, d)[1])
              ELSE Firsts(ds, name)
<1> DEFINE n == Len(ds)
           es == Append(ds, d)
           says == Says(ds, name, 1)
           more == d.name = name /\ Len(d.args) >= 1
           f == [i \in 1..n |-> IF i \in says THEN <<Values(ds)[i][1]>> ELSE <<>>]
           g == [i \in 1..n + 1 |-> IF i \in Says(es, name, 1) THEN <<Values(es)[i][1]>> ELSE <<>>]
<1>1. /\ n \in Nat /\ DOMAIN ds = 1..n /\ DOMAIN es = 1..n + 1
      /\ \A i \in 1..n : Values(es)[i] = Values(ds)[i] /\ Values(ds)[i] \in Seq(Words)
      /\ Given(ds, d) \in Seq(Words) /\ Values(es)[n + 1] = Given(ds, d)
      /\ Len(Given(ds, d)) = Len(d.args)
  BY Longer DEF Given
<1>2. \A i \in says : i \in 1..n /\ Len(ds[i].args) >= 1
  BY <1>1 DEF Says
<1>3. \A i \in says : Values(ds)[i] \in Seq(Words) /\ Len(Values(ds)[i]) = Len(ds[i].args)
  BY <1>2, ValuesAreWords
<1>4. \A i \in says : Values(ds)[i][1] \in Words
  BY <1>2, <1>3
<1>5. says \in SUBSET (1..n) /\ Says(es, name, 1) = IF more THEN says \cup {n + 1} ELSE says
  BY SaysAppend
<1>6. more => Given(ds, d)[1] \in Words
  BY <1>1
<1> HIDE DEF n, es, says, more
<1>7. Firsts(ds, name) = FlattenSeq(f) /\ Firsts(es, name) = FlattenSeq(g)
  BY <1>1 DEF Firsts, says
<1>8. n + 1 \in 1..n + 1 /\ n + 1 \notin 1..n /\ \A i \in 1..n : i \in 1..n + 1 /\ i # n + 1
  BY <1>1
<1>9. <<>> \in Seq(Words) /\ \A w \in Words : <<w>> \in Seq(Words)
  OBVIOUS
<1>10. \A i \in 1..n : g[i] = f[i]
  BY <1>1, <1>5, <1>8
<1>11. \A i \in 1..n : f[i] \in Seq(Words)
  BY <1>4, <1>9
<1>12. g[n + 1] = IF more THEN <<Given(ds, d)[1]>> ELSE <<>>
  BY <1>1, <1>5, <1>8
<1>13. g[n + 1] \in Seq(Words)
  BY <1>6, <1>9, <1>12
<1>14. f = [i \in 1..n |-> f[i]] /\ g = [i \in 1..n + 1 |-> g[i]]
  OBVIOUS
<1> HIDE DEF f, g
<1>15. FlattenSeq(g) = FlattenSeq(f) \o g[n + 1] /\ FlattenSeq(f) \in Seq(Words)
  <2>1. \A i \in 1..n : g[i] = f[i] /\ f[i] \in Seq(Words)
    BY <1>10, <1>11
  <2> QED BY <1>1, <2>1, <1>13, <1>14, GatherAppend
<1>16. FlattenSeq(f) \o <<>> = FlattenSeq(f)
  BY <1>15, ConcatEmptySeq
<1>17. \A x : FlattenSeq(f) \o <<x>> = Append(FlattenSeq(f), x)
  BY <1>15, AppendIsConcat
<1> QED BY <1>7, <1>12, <1>15, <1>16, <1>17 DEF es, more

\* What a directive with these arguments makes of a BuildConfig c.
Has(name, args, what, n) == name = what /\ Len(args) >= n
After(c, name, args) ==
  [projectName |-> IF Has(name, args, "abt_project", 1) THEN args[1] ELSE c.projectName,
   packageName |-> IF Has(name, args, "abt_set_package", 1) THEN args[1] ELSE c.packageName,
   minSdkVersion |-> IF Has(name, args, "abt_set_min_sdk", 1) THEN Number(args[1]) ELSE c.minSdkVersion,
   targetSdkVersion |-> IF Has(name, args, "abt_set_target_sdk", 1) THEN Number(args[1]) ELSE c.targetSdkVersion,
   versionName |-> IF Has(name, args, "abt_version", 2) THEN args[1] ELSE c.versionName,
   versionCode |-> IF Has(name, args, "abt_version", 2) THEN Number(args[2]) ELSE c.versionCode,
   outputDir |-> IF Has(name, args, "abt_output_dir", 1) THEN args[1] ELSE c.outputDir,
   buildType |-> IF Has(name, args, "abt_build_type", 1)
                 THEN IF args[1] = Word("release") THEN "release" ELSE "debug" ELSE c.buildType,
   architectures |-> IF name = "abt_architectures" THEN Archs(args) ELSE c.architectures,
   cppSources |-> IF name = "abt_add_sources" THEN c.cppSources \o Paths(args) ELSE c.cppSources,
   includeDirs |-> IF name = "abt_add_includes" THEN c.includeDirs \o Paths(args) ELSE c.includeDirs,
   linkLibraries |-> IF name = "abt_link_libraries" THEN c.linkLibraries \o args ELSE c.linkLibraries,
   dependencies |-> IF Has(name, args, "abt_dependency", 1) THEN Append(c.dependencies, args[1])
                    ELSE c.dependencies]

LEMMA MeaningAppend ==
  ASSUME NEW ds \in Seq(Directive), NEW d \in Directive
  PROVE  Meaning(Append(ds, d)) = After(Meaning(ds), d.name, Given(ds, d))
<1> DEFINE es == Append(ds, d)
           v == Given(ds, d)
           M == Meaning(ds)
           A == After(M, d.name, v)
<1>1. Len(v) = Len(d.args) /\ v \in Seq(Words)
  BY Longer
<1> HIDE DEF v
<1>last. ASSUME NEW name, NEW m \in Nat, NEW k, NEW default
        PROVE  LastSaid(es, name, m, k, default) =
                 IF Has(d.name, v, name, m) THEN v[k] ELSE LastSaid(ds, name, m, k, default)
  BY <1>1, LastAppend DEF Has, v
<1>all. ASSUME NEW name
        PROVE  /\ All(ds, name) \in Seq(Words)
               /\ All(es, name) = IF d.name = name THEN All(ds, name) \o v ELSE All(ds, name)
  BY AllAppend DEF v
<1>paths. ASSUME NEW name
        PROVE  Paths(All(es, name)) = IF d.name = name THEN Paths(All(ds, name)) \o Paths(v)
                                      ELSE Paths(All(ds, name))
  BY <1>1, <1>all, PathsJoin
<1>firsts. ASSUME NEW name
        PROVE  Firsts(es, name) = IF Has(d.name, v, name, 1) THEN Append(Firsts(ds, name), v[1])
                                  ELSE Firsts(ds, name)
  BY <1>1, FirstsAppend DEF Has, v
<1> HIDE DEF es
<1>2. Meaning(es).projectName = A.projectName
  BY <1>last DEF Meaning, After
<1>3. Meaning(es).packageName = A.packageName
  BY <1>last DEF Meaning, After
<1>4. Meaning(es).minSdkVersion = A.minSdkVersion
  BY <1>last DEF Meaning, After
<1>5. Meaning(es).targetSdkVersion = A.targetSdkVersion
  BY <1>last DEF Meaning, After
<1>6. Meaning(es).versionName = A.versionName
  BY <1>last DEF Meaning, After
<1>7. Meaning(es).versionCode = A.versionCode
  BY <1>last DEF Meaning, After
<1>8. Meaning(es).outputDir = A.outputDir
  BY <1>last DEF Meaning, After
<1>9. Meaning(es).buildType = A.buildType
  <2> DEFINE was == LastSaid(ds, "abt_build_type", 1, 1, Word("debug"))
  <2>1. LastSaid(es, "abt_build_type", 1, 1, Word("debug")) =
          IF Has(d.name, v, "abt_build_type", 1) THEN v[1] ELSE was
    BY <1>last
  <2>2. Meaning(es).buildType =
          IF LastSaid(es, "abt_build_type", 1, 1, Word("debug")) = Word("release")
          THEN "release" ELSE "debug"
    BY DEF Meaning
  <2>3. M.buildType = IF was = Word("release") THEN "release" ELSE "debug"
    BY DEF Meaning
  <2>4. A.buildType = IF Has(d.name, v, "abt_build_type", 1)
                      THEN IF v[1] = Word("release") THEN "release" ELSE "debug" ELSE M.buildType
    BY DEF After
  <2> HIDE DEF was, A, M
  <2> QED BY <2>1, <2>2, <2>3, <2>4
<1>10. Meaning(es).architectures = A.architectures
  <2> DEFINE n == Len(ds)
             says == Says(ds, "abt_architectures", 0)
  <2>1. n \in Nat /\ says \in SUBSET (1..n) /\ Len(d.args) >= 0
    BY SaysAppend, Longer, DirectiveFacts
  <2>2. CASE d.name = "abt_architectures"
    <3>1. Says(es, "abt_architectures", 0) = says \cup {n + 1}
      BY <2>1, <2>2, SaysAppend DEF es
    <3>2. Max(says \cup {n + 1}) = n + 1 /\ says \cup {n + 1} # {}
      <4> HIDE DEF says, n
      <4> QED BY <2>1, GreatestNext
    <3> HIDE DEF says
    <3>3. Meaning(es).architectures = Archs(Values(es)[n + 1])
      BY <3>1, <3>2 DEF Meaning
    <3> QED BY <2>2, <3>3 DEF After, v, Given, es
  <2>3. CASE d.name # "abt_architectures"
    <3>1. Says(es, "abt_architectures", 0) = says
      BY <2>3, SaysAppend DEF es
    <3>2. ASSUME says # {} PROVE Values(es)[Max(says)] = Values(ds)[Max(says)]
      <4>1. Max(says) \in 1..n
        <5> HIDE DEF says, n
        <5> QED BY <2>1, <3>2, Greatest
      <4> QED BY <4>1, Longer DEF es
    <3> QED BY <2>3, <3>1, <3>2 DEF Meaning, After
  <2> QED BY <2>2, <2>3
<1>11. Meaning(es).cppSources = A.cppSources
  BY <1>paths DEF Meaning, After
<1>12. Meaning(es).includeDirs = A.includeDirs
  BY <1>paths DEF Meaning, After
<1>13. Meaning(es).linkLibraries = A.linkLibraries
  BY <1>all DEF Meaning, After
<1>14. Meaning(es).dependencies = A.dependencies
  BY <1>firsts DEF Meaning, After
<1> HIDE DEF M
<1>15. /\ Meaning(es) = [projectName |-> Meaning(es).projectName,
                    packageName |-> Meaning(es).packageName,
                    minSdkVersion |-> Meaning(es).minSdkVersion,
                    targetSdkVersion |-> Meaning(es).targetSdkVersion,
                    versionName |-> Meaning(es).versionName,
                    versionCode |-> Meaning(es).versionCode,
                    outputDir |-> Meaning(es).outputDir,
                    buildType |-> Meaning(es).buildType,
                    architectures |-> Meaning(es).architectures,
                    cppSources |-> Meaning(es).cppSources,
                    includeDirs |-> Meaning(es).includeDirs,
                    linkLibraries |-> Meaning(es).linkLibraries,
                    dependencies |-> Meaning(es).dependencies]
      /\ A = [projectName |-> A.projectName,
            packageName |-> A.packageName,
            minSdkVersion |-> A.minSdkVersion,
            targetSdkVersion |-> A.targetSdkVersion,
            versionName |-> A.versionName,
            versionCode |-> A.versionCode,
            outputDir |-> A.outputDir,
            buildType |-> A.buildType,
            architectures |-> A.architectures,
            cppSources |-> A.cppSources,
            includeDirs |-> A.includeDirs,
            linkLibraries |-> A.linkLibraries,
            dependencies |-> A.dependencies]
  BY DEF Meaning, After
<1> QED BY <1>2, <1>3, <1>4, <1>5, <1>6, <1>7, <1>8, <1>9, <1>10, <1>11, <1>12, <1>13, <1>14, <1>15 DEF es, v, M

\* A BuildConfig by its fields: one with these lists.
Lists(c, sources, dirs, libs, deps) ==
  [projectName |-> c.projectName, packageName |-> c.packageName, minSdkVersion |-> c.minSdkVersion,
   targetSdkVersion |-> c.targetSdkVersion, versionName |-> c.versionName,
   versionCode |-> c.versionCode, outputDir |-> c.outputDir, buildType |-> c.buildType,
   architectures |-> c.architectures, cppSources |-> sources, includeDirs |-> dirs,
   linkLibraries |-> libs, dependencies |-> deps]
ByFields(c) == Lists(c, c.cppSources, c.includeDirs, c.linkLibraries, c.dependencies)

LEMMA ExceptLists ==
  ASSUME NEW c, NEW x
  PROVE  /\ [ByFields(c) EXCEPT !["cppSources"] = x] =
              Lists(c, x, c.includeDirs, c.linkLibraries, c.dependencies)
         /\ [ByFields(c) EXCEPT !["includeDirs"] = x] =
              Lists(c, c.cppSources, x, c.linkLibraries, c.dependencies)
         /\ [ByFields(c) EXCEPT !["linkLibraries"] = x] =
              Lists(c, c.cppSources, c.includeDirs, x, c.dependencies)
         /\ [ByFields(c) EXCEPT !["dependencies"] = x] =
              Lists(c, c.cppSources, c.includeDirs, c.linkLibraries, x)
<1>1. [ByFields(c) EXCEPT !["cppSources"] = x] =
        Lists(c, x, c.includeDirs, c.linkLibraries, c.dependencies)
  BY DEF ByFields, Lists
<1>2. [ByFields(c) EXCEPT !["includeDirs"] = x] =
        Lists(c, c.cppSources, x, c.linkLibraries, c.dependencies)
  BY DEF ByFields, Lists
<1>3. [ByFields(c) EXCEPT !["linkLibraries"] = x] =
        Lists(c, c.cppSources, c.includeDirs, x, c.dependencies)
  BY DEF ByFields, Lists
<1>4. [ByFields(c) EXCEPT !["dependencies"] = x] =
        Lists(c, c.cppSources, c.includeDirs, c.linkLibraries, x)
  BY DEF ByFields, Lists
<1> QED BY <1>1, <1>2, <1>3, <1>4

\* What handleDirective does, unless std::stoi throws.
LEMMA DirectiveDoes ==
  ASSUME config \in Configs, NEW name, NEW args, Len(args) \in Nat,
         HandleDirective(name, args), phase = "line", phase' # "end"
  PROVE  /\ config' = After(config, name, args) /\ UNCHANGED <<phase, outcome>>
         /\ known' = IF Has(name, args, "set", 2)
                     THEN [v \in DOMAIN known \cup {args[1]} |-> IF v = args[1] THEN args[2] ELSE known[v]]
                     ELSE known
<1> DEFINE n == Len(args)
           C == After(config, name, args)
<1>0. ~Finish("aborted")
  BY DEF Finish
<1>f. config = ByFields(config)
  BY DEF Configs, ByFields, Lists
<1> SUFFICES /\ config' = C /\ UNCHANGED <<phase, outcome>>
             /\ known' = IF name = "set" /\ n >= 2
                         THEN [v \in DOMAIN known \cup {args[1]} |-> IF v = args[1] THEN args[2] ELSE known[v]]
                         ELSE known
  BY DEF Has
<1>1. CASE name = "set" /\ n >= 2
  <2>1. /\ known' = [v \in DOMAIN known \cup {args[1]} |-> IF v = args[1] THEN args[2] ELSE known[v]]
        /\ UNCHANGED <<config, phase, outcome>>
    BY <1>1, DirectiveNames DEF HandleDirective
  <2>2. C = config
    BY <1>1, <1>f DEF After, Has, ByFields, Lists
  <2> QED BY <1>1, <2>1, <2>2
<1>2. CASE name = "abt_project" /\ n >= 1
  <2>1. config' = [config EXCEPT !["projectName"] = args[1]] /\ UNCHANGED <<known, phase, outcome>>
    BY <1>0, <1>2, DirectiveNames, DirectiveFields DEF HandleDirective, Numeric
  <2>2. C = [ByFields(config) EXCEPT !["projectName"] = args[1]]
    BY <1>2 DEF After, Has, ByFields, Lists
  <2> QED BY <1>2, <1>f, <2>1, <2>2
<1>3. CASE name = "abt_set_package" /\ n >= 1
  <2>1. config' = [config EXCEPT !["packageName"] = args[1]] /\ UNCHANGED <<known, phase, outcome>>
    BY <1>0, <1>3, DirectiveNames, DirectiveFields DEF HandleDirective, Numeric
  <2>2. C = [ByFields(config) EXCEPT !["packageName"] = args[1]]
    BY <1>3 DEF After, Has, ByFields, Lists
  <2> QED BY <1>3, <1>f, <2>1, <2>2
<1>4. CASE name = "abt_output_dir" /\ n >= 1
  <2>1. config' = [config EXCEPT !["outputDir"] = args[1]] /\ UNCHANGED <<known, phase, outcome>>
    BY <1>0, <1>4, DirectiveNames, DirectiveFields DEF HandleDirective, Numeric
  <2>2. C = [ByFields(config) EXCEPT !["outputDir"] = args[1]]
    BY <1>4 DEF After, Has, ByFields, Lists
  <2> QED BY <1>4, <1>f, <2>1, <2>2
<1>5. CASE name = "abt_set_min_sdk" /\ n >= 1
  <2>1. config' = [config EXCEPT !["minSdkVersion"] = Number(args[1])] /\ UNCHANGED <<known, phase, outcome>>
    BY <1>0, <1>5, DirectiveNames, DirectiveFields DEF HandleDirective, Numeric
  <2>2. C = [ByFields(config) EXCEPT !["minSdkVersion"] = Number(args[1])]
    BY <1>5 DEF After, Has, ByFields, Lists
  <2> QED BY <1>5, <1>f, <2>1, <2>2
<1>6. CASE name = "abt_set_target_sdk" /\ n >= 1
  <2>1. config' = [config EXCEPT !["targetSdkVersion"] = Number(args[1])] /\ UNCHANGED <<known, phase, outcome>>
    BY <1>0, <1>6, DirectiveNames, DirectiveFields DEF HandleDirective, Numeric
  <2>2. C = [ByFields(config) EXCEPT !["targetSdkVersion"] = Number(args[1])]
    BY <1>6 DEF After, Has, ByFields, Lists
  <2> QED BY <1>6, <1>f, <2>1, <2>2
<1>7. CASE name = "abt_add_sources"
  <2>1. /\ config' = [config EXCEPT !["cppSources"] = config["cppSources"] \o Paths(args)]
        /\ UNCHANGED <<known, phase, outcome>>
    BY <1>7, DirectiveNames, DirectiveFields DEF HandleDirective
  <2>2. C = Lists(config, config.cppSources \o Paths(args), config.includeDirs,
                  config.linkLibraries, config.dependencies)
    BY <1>7 DEF After, Has, Lists
  <2> QED BY <1>7, <1>f, <2>1, <2>2, ExceptLists
<1>8. CASE name = "abt_add_includes"
  <2>1. /\ config' = [config EXCEPT !["includeDirs"] = config["includeDirs"] \o Paths(args)]
        /\ UNCHANGED <<known, phase, outcome>>
    BY <1>8, DirectiveNames, DirectiveFields DEF HandleDirective
  <2>2. C = Lists(config, config.cppSources, config.includeDirs \o Paths(args),
                  config.linkLibraries, config.dependencies)
    BY <1>8 DEF After, Has, Lists
  <2> QED BY <1>8, <1>f, <2>1, <2>2, ExceptLists
<1>9. CASE name = "abt_link_libraries"
  <2>1. /\ config' = [config EXCEPT !["linkLibraries"] = config["linkLibraries"] \o args]
        /\ UNCHANGED <<known, phase, outcome>>
    BY <1>9, DirectiveNames, DirectiveFields DEF HandleDirective
  <2>2. C = Lists(config, config.cppSources, config.includeDirs,
                  config.linkLibraries \o args, config.dependencies)
    BY <1>9 DEF After, Has, Lists
  <2> QED BY <1>9, <1>f, <2>1, <2>2, ExceptLists
<1>10. CASE name = "abt_dependency" /\ n >= 1
  <2>1. /\ config' = [config EXCEPT !["dependencies"] = Append(config.dependencies, args[1])]
        /\ UNCHANGED <<known, phase, outcome>>
    BY <1>10, DirectiveNames, DirectiveFields DEF HandleDirective
  <2>2. C = Lists(config, config.cppSources, config.includeDirs,
                  config.linkLibraries, Append(config.dependencies, args[1]))
    BY <1>10 DEF After, Has, Lists
  <2>3. C = [ByFields(config) EXCEPT !["dependencies"] = Append(config.dependencies, args[1])]
    BY <2>2, ExceptLists
  <2>4. config' = C
    BY ONLY <2>1, <2>3, <1>f
  <2> QED BY <1>10, <2>1, <2>4
<1>11. CASE name = "abt_architectures"
  <2>1. /\ config' = [config EXCEPT !["architectures"] = Archs(args)]
        /\ UNCHANGED <<known, phase, outcome>>
    BY <1>11, DirectiveNames, DirectiveFields DEF HandleDirective
  <2>2. C = [ByFields(config) EXCEPT !["architectures"] = Archs(args)]
    BY <1>11 DEF After, Has, ByFields, Lists
  <2> QED BY <1>11, <1>f, <2>1, <2>2
<1>12. CASE name = "abt_build_type" /\ n >= 1
  <2>1. /\ config' = [config EXCEPT !["buildType"] = IF args[1] = Word("release") THEN "release" ELSE "debug"]
        /\ UNCHANGED <<known, phase, outcome>>
    BY <1>12, DirectiveNames, DirectiveFields DEF HandleDirective
  <2>2. C = [ByFields(config) EXCEPT !["buildType"] = IF args[1] = Word("release") THEN "release" ELSE "debug"]
    BY <1>12 DEF After, Has, ByFields, Lists
  <2> QED BY <1>12, <1>f, <2>1, <2>2
<1>13. CASE name = "abt_version" /\ n >= 2
  <2>1. /\ config' = [config EXCEPT !["versionName"] = args[1], !["versionCode"] = Number(args[2])]
        /\ UNCHANGED <<known, phase, outcome>>
    BY <1>0, <1>13, DirectiveNames DEF HandleDirective
  <2>2. C = [ByFields(config) EXCEPT !["versionName"] = args[1], !["versionCode"] = Number(args[2])]
    BY <1>13 DEF After, Has, ByFields, Lists
  <2> QED BY <1>13, <1>f, <2>1, <2>2
<1> DEFINE other == /\ ~(name = "set" /\ n >= 2) /\ ~(name \in DOMAIN Scalar /\ n >= 1)
                    /\ name \notin DOMAIN Listed /\ ~(name = "abt_dependency" /\ n >= 1)
                    /\ name # "abt_architectures" /\ ~(name = "abt_build_type" /\ n >= 1)
                    /\ ~(name = "abt_version" /\ n >= 2)
<1>14. CASE other
  <2>1. UNCHANGED <<config, known, phase, outcome>>
    BY <1>14 DEF HandleDirective
  <2>2. C = config
    BY <1>14, <1>f, DirectiveNames DEF After, Has, ByFields, Lists
  <2> QED BY <1>14, <2>1, <2>2
<1> QED BY <1>1, <1>2, <1>3, <1>4, <1>5, <1>6, <1>7, <1>8, <1>9, <1>10, <1>11, <1>12, <1>13, <1>14, DirectiveNames

-------------------------------------------------------------------------------
(* ConfigIsMeaning: the lines *)

\* The parentheses of a text and of the next.
LEMMA CountsAdd ==
  ASSUME NEW T, NEW s \in Seq(T), NEW t \in Seq(T), NEW token
  PROVE  Cardinality(At(s \o t, token)) = Cardinality(At(s, token)) + Cardinality(At(t, token))
<1> DEFINE n == Len(s)
           m == Len(t)
           A == At(s, token)
           B == At(t, token)
           later == {n + i : i \in B}
<1>1. /\ n \in Nat /\ m \in Nat /\ DOMAIN s = 1..n /\ DOMAIN t = 1..m
      /\ DOMAIN (s \o t) = 1..n + m
      /\ \A i \in 1..n : (s \o t)[i] = s[i]
      /\ \A i \in 1..m : (s \o t)[n + i] = t[i]
  BY ConcatProperties
<1>2. A \subseteq 1..n /\ B \subseteq 1..m
  BY <1>1 DEF At
<1>3. IsFiniteSet(A) /\ IsFiniteSet(B)
  <2>1. IsFiniteSet(1..n) /\ IsFiniteSet(1..m)
    BY <1>1, FS_Interval
  <2> QED BY <1>2, <2>1, FS_Subset
<1>4. At(s \o t, token) = A \cup later
  <2>1. \A i \in 1..n + m : i \in 1..n \/ (i - n \in 1..m /\ n + (i - n) = i)
    BY <1>1
  <2>2. \A i \in 1..n : i \in 1..n + m
    BY <1>1
  <2>3. \A i \in 1..m : n + i \in 1..n + m
    BY <1>1
  <2> HIDE DEF n, m
  <2>4. \A i \in 1..n + m : (s \o t)[i] = token => i \in A \cup later
    BY <1>1, <2>1 DEF At
  <2>5. \A i \in A : i \in At(s \o t, token)
    BY <1>1, <2>2 DEF At
  <2>6. \A i \in B : n + i \in At(s \o t, token)
    BY <1>1, <2>3 DEF At
  <2>7. \A i \in later : i \in At(s \o t, token)
    BY <2>6
  <2> QED BY <1>1, <2>4, <2>5, <2>7 DEF At
<1>5. A \cap later = {}
  BY <1>1, <1>2
<1> HIDE DEF A, B
<1>6. [i \in B |-> n + i] \in Bijection(B, later)
  <2>1. \A i, j \in B : n + i = n + j => i = j
    BY <1>1, <1>2
  <2>2. [i \in B |-> n + i] \in Injection(B, later)
    BY <2>1 DEF Injection, IsInjective
  <2>3. [i \in B |-> n + i] \in Surjection(B, later)
    BY DEF Surjection
  <2> QED BY <2>2, <2>3 DEF Bijection
<1>7. IsFiniteSet(later) /\ Cardinality(later) = Cardinality(B)
  BY <1>3, <1>6, FS_Bijection DEF ExistsBijection
<1> HIDE DEF later
<1>8. Cardinality(A \cup later) = Cardinality(A) + Cardinality(later) - Cardinality(A \cap later)
  BY <1>3, <1>7, FS_Union
<1>9. Cardinality(A \cap later) = 0
  BY <1>5, FS_EmptySet
<1>10. Cardinality(A) \in Nat /\ Cardinality(B) \in Nat
  BY <1>3, FS_CardinalityType
<1> QED BY <1>4, <1>7, <1>8, <1>9, <1>10 DEF A, B

\* Some lines and the next, without their comments.
LEMMA StrippedNext ==
  ASSUME NEW lines \in Seq(Seq(Tokens)), NEW m \in Nat, NEW n \in Nat,
         1 <= m, m <= n + 1, n + 1 <= Len(lines)
  PROVE  /\ Stripped(SubSeq(lines, m, n)) \in Seq(Plain)
         /\ WithoutComment(lines[n + 1]) \in Seq(Plain)
         /\ Stripped(SubSeq(lines, m, n + 1)) =
              Stripped(SubSeq(lines, m, n)) \o <<Blank>> \o WithoutComment(lines[n + 1])
<1> DEFINE s == SubSeq(lines, m, n)
           l == lines[n + 1]
           kept(x) == <<Blank>> \o WithoutComment(x)
           cut == [i \in DOMAIN s |-> kept(s[i])]
           both == Append(s, l)
<1>1. /\ s \in Seq(Seq(Tokens)) /\ l \in Seq(Tokens)
      /\ SubSeq(lines, m, n + 1) = both
  <2>1. n + 1 \in 1..Len(lines) /\ Len(lines) \in Nat
    OBVIOUS
  <2>2. l \in Seq(Tokens)
    BY <2>1
  <2>3. s \in Seq(Seq(Tokens))
    BY <2>1
  <2>4. SubSeq(lines, m, n + 1) = both
    BY <2>1
  <2> QED BY <2>2, <2>3, <2>4
<1> HIDE DEF s, l
<1>2. /\ Len(s) \in Nat /\ DOMAIN s = 1..Len(s) /\ \A i \in 1..Len(s) : s[i] \in Seq(Tokens)
      /\ both \in Seq(Seq(Tokens)) /\ DOMAIN both = 1..Len(s) + 1
      /\ both[Len(s) + 1] = l /\ \A i \in 1..Len(s) : both[i] = s[i]
  BY <1>1, AppendProperties
<1>3. /\ WithoutComment(l) \in Seq(Plain) /\ <<Blank>> \in Seq(Plain) /\ kept(l) \in Seq(Plain)
      /\ \A i \in 1..Len(s) : kept(s[i]) \in Seq(Plain)
  <2>1. <<Blank>> \in Seq(Plain)
    BY TokenFacts
  <2>2. WithoutComment(l) \in Seq(Plain) /\ \A i \in 1..Len(s) : WithoutComment(s[i]) \in Seq(Plain)
    BY <1>1, <1>2, CommentsGo
  <2> QED BY <2>1, <2>2
<1> HIDE DEF kept
<1>4. cut \in Seq(Seq(Plain)) /\ Len(cut) = Len(s)
  <2>1. cut \in [1..Len(s) -> Seq(Plain)]
    BY <1>2, <1>3
  <2> QED BY <1>2, <2>1, FunctionIsSeq
<1>5. [i \in DOMAIN both |-> kept(both[i])] = Append(cut, kept(l))
  <2> DEFINE all == [i \in 1..Len(s) + 1 |-> kept(both[i])]
             ext == Append(cut, kept(l))
  <2>1. ext \in Seq(Seq(Plain)) /\ Len(ext) = Len(s) + 1 /\ DOMAIN ext = 1..Len(s) + 1
    BY <1>2, <1>3, <1>4, AppendProperties
  <2>2. ext[Len(s) + 1] = kept(l) /\ \A i \in 1..Len(s) : ext[i] = kept(s[i])
    BY <1>2, <1>3, <1>4, AppendProperties
  <2>3. \A i \in 1..Len(s) + 1 : i \in 1..Len(s) \/ i = Len(s) + 1
    BY <1>2
  <2>4. \A i \in 1..Len(s) + 1 : ext[i] = kept(both[i])
    BY <1>2, <2>2, <2>3
  <2>5. ext = [i \in 1..Len(s) + 1 |-> ext[i]]
    BY <2>1
  <2> HIDE DEF ext
  <2>6. ext = all
    BY <2>4, <2>5
  <2> QED BY <1>2, <2>6 DEF ext
<1>flat. Stripped(s) = FlattenSeq(cut) /\ Stripped(both) = FlattenSeq([i \in DOMAIN both |-> kept(both[i])])
  BY DEF Stripped, kept
<1> HIDE DEF cut, both
<1>6. Stripped(both) = FlattenSeq(cut) \o kept(l)
  BY <1>3, <1>4, <1>5, <1>flat, FlattenAppend
<1>7. Stripped(s) \in Seq(Plain)
  BY <1>4, <1>flat, FlattenType
<1>8. Stripped(s) \o (<<Blank>> \o WithoutComment(l)) = Stripped(s) \o <<Blank>> \o WithoutComment(l)
  <2> DEFINE a == Stripped(s)
             c == WithoutComment(l)
  <2>1. a \in Seq(Plain) /\ c \in Seq(Plain) /\ <<Blank>> \in Seq(Plain)
    BY <1>3, <1>7
  <2> HIDE DEF a, c
  <2>2. (a \o <<Blank>>) \o c = a \o (<<Blank>> \o c)
    BY <2>1, ConcatAssociative
  <2> QED BY <2>2 DEF a, c
<1> QED BY <1>1, <1>3, <1>6, <1>7, <1>8, <1>flat DEF s, l, kept

LEMMA StrippedType ==
  ASSUME NEW lines \in Seq(Seq(Tokens)) PROVE Stripped(lines) \in Seq(Plain)
<1> DEFINE cut == [i \in DOMAIN lines |-> <<Blank>> \o WithoutComment(lines[i])]
<1>1. Len(lines) \in Nat /\ DOMAIN lines = 1..Len(lines) /\ \A i \in 1..Len(lines) : lines[i] \in Seq(Tokens)
  OBVIOUS
<1>blank. <<Blank>> \in Seq(Plain)
  BY TokenFacts
<1>each. \A i \in 1..Len(lines) : <<Blank>> \o WithoutComment(lines[i]) \in Seq(Plain)
  BY <1>1, <1>blank, CommentsGo
<1>2. cut \in [1..Len(lines) -> Seq(Plain)]
  BY <1>1, <1>each
<1>3. cut \in Seq(Seq(Plain))
  BY <1>1, <1>2, FunctionIsSeq
<1> QED BY <1>3, FlattenType DEF Stripped

LEMMA NothingStripped ==
  ASSUME NEW lines \in Seq(Seq(Tokens)), NEW n \in Nat, n <= Len(lines)
  PROVE  Stripped(SubSeq(lines, n + 1, n)) = <<>>
<1>1. SubSeq(lines, n + 1, n) = <<>>
  BY SubSeqEmpty
<1>2. [i \in DOMAIN <<>> |-> <<Blank>> \o WithoutComment(<<>>[i])] = <<>>
  OBVIOUS
<1> QED BY <1>1, <1>2, FlattenNothing DEF Stripped

\* What a line adds to the parentheses that are open.
LEMMA BalanceNext ==
  ASSUME NEW lines \in Seq(Seq(Tokens)), NEW n \in Nat, n + 1 <= Len(lines)
  PROVE  LET l == WithoutComment(lines[n + 1])
         IN  /\ Balance(lines, n) \in Int /\ Opened(l) \in Nat /\ Closed(l) \in Nat
             /\ Balance(lines, n + 1) = Balance(lines, n) + Opened(l) - Closed(l)
<1> DEFINE s == Stripped(SubSeq(lines, 1, n))
           l == WithoutComment(lines[n + 1])
           b == s \o <<Blank>>
<1>1. /\ s \in Seq(Plain) /\ l \in Seq(Plain) /\ b \in Seq(Plain) /\ <<Blank>> \in Seq(Plain)
      /\ Stripped(SubSeq(lines, 1, n + 1)) = b \o l
  <2>1. /\ s \in Seq(Plain) /\ l \in Seq(Plain)
        /\ Stripped(SubSeq(lines, 1, n + 1)) = b \o l
    BY StrippedNext
  <2>2. <<Blank>> \in Seq(Plain)
    BY TokenFacts
  <2> HIDE DEF s, l
  <2>3. b \in Seq(Plain)
    BY <2>1, <2>2
  <2> HIDE DEF b
  <2> QED BY <2>1, <2>2, <2>3
<1>blank. Opened(<<Blank>>) = 0 /\ Closed(<<Blank>>) = 0
  <2>1. Blank # Open /\ Blank # Close
    BY DEF Blank, Open, Close
  <2>2. At(<<Blank>>, Open) = {} /\ At(<<Blank>>, Close) = {}
    BY <2>1 DEF At
  <2> QED BY <2>2, FS_EmptySet DEF Opened, Closed
<1>2. /\ Opened(b \o l) = Opened(s) + Opened(<<Blank>>) + Opened(l)
      /\ Closed(b \o l) = Closed(s) + Closed(<<Blank>>) + Closed(l)
  <2>1. Opened(b) = Opened(s) + Opened(<<Blank>>) /\ Closed(b) = Closed(s) + Closed(<<Blank>>)
    BY <1>1, CountsAdd DEF Opened, Closed
  <2> HIDE DEF b
  <2>2. Opened(b \o l) = Opened(b) + Opened(l) /\ Closed(b \o l) = Closed(b) + Closed(l)
    BY <1>1, CountsAdd DEF Opened, Closed
  <2> QED BY <2>1, <2>2
<1>3. Opened(s) \in Nat /\ Opened(l) \in Nat /\ Closed(s) \in Nat /\ Closed(l) \in Nat
  BY <1>1, CountsAreNumbers DEF Opened, Closed
<1>4. Balance(lines, n) = Opened(s) - Closed(s) /\ Balance(lines, n + 1) = Opened(b \o l) - Closed(b \o l)
  BY <1>1 DEF Balance
<1> HIDE DEF b, s, l
<1> QED BY <1>blank, <1>2, <1>3, <1>4 DEF l

\* The value of a word after one directive more.
LEMMA SetsBelow ==
  ASSUME NEW ds, NEW args, NEW i \in Nat, NEW w PROVE Sets(ds, args, i, w) \in SUBSET (1..i-1)
BY DEF Sets

LEMMA StandsNext ==
  ASSUME NEW ds \in Seq(Directive), NEW d \in Directive, NEW x
  PROVE  Stands(Append(ds, d), Values(Append(ds, d)), Len(ds) + 2, x) =
           IF x[1] = "var" /\ d.name = "set" /\ Len(d.args) >= 2 /\ Given(ds, d)[1] = Word(x[2])
           THEN Given(ds, d)[2] ELSE Stands(ds, Values(ds), Len(ds) + 1, x)
<1> DEFINE n == Len(ds)
           es == Append(ds, d)
           new == d.name = "set" /\ Len(d.args) >= 2 /\ Given(ds, d)[1] = Word(x[2])
           old == Sets(ds, Values(ds), n + 1, x[2])
           sets == Sets(es, Values(es), n + 2, x[2])
<1>1. /\ n \in Nat /\ es[n + 1] = d /\ Values(es)[n + 1] = Given(ds, d)
      /\ \A i \in 1..n : es[i] = ds[i] /\ Values(es)[i] = Values(ds)[i]
  BY Longer DEF Given
<1>2. n + 2 - 1 = n + 1 /\ n + 1 - 1 = n
  BY <1>1
<1>3. \A j \in 1..n + 1 : j \in 1..n \/ j = n + 1
  BY <1>1
<1>4. n + 1 \in 1..n + 1 /\ \A j \in 1..n : j \in 1..n + 1
  BY <1>1
<1> HIDE DEF n, es
<1>5. old \in SUBSET (1..n)
  <2>1. old \in SUBSET (1..n + 1 - 1)
    BY <1>1, SetsBelow
  <2> QED BY <1>2, <2>1
<1>6. sets = IF new THEN old \cup {n + 1} ELSE old
  <2>1. \A j \in 1..n : j \in sets <=> j \in old
    BY <1>1, <1>2, <1>4 DEF Sets
  <2>2. n + 1 \in sets <=> new
    BY <1>1, <1>2, <1>4 DEF Sets
  <2>3. sets \in SUBSET (1..n + 2 - 1)
    BY <1>1, SetsBelow
  <2> HIDE DEF sets, old, new
  <2>4. sets \in SUBSET (1..n + 1)
    BY <1>2, <2>3
  <2>5. \A j \in sets : j \in 1..n \/ j = n + 1
    BY <1>3, <2>4
  <2>6. \A j \in old : j \in 1..n
    BY <1>5
  <2>7. PICK k : k = n + 1
    OBVIOUS
  <2>8. CASE new
    <3>1. \A j : j \in sets <=> j \in old \cup {k}
      BY <2>1, <2>2, <2>5, <2>6, <2>7, <2>8
    <3>2. sets = old \cup {k}
      BY <3>1
    <3> QED BY <2>7, <2>8, <3>2
  <2>9. CASE ~new
    <3>1. \A j : j \in sets <=> j \in old
      BY <2>1, <2>2, <2>5, <2>6, <2>7, <2>9
    <3>2. sets = old
      BY <3>1
    <3> QED BY <2>9, <3>2
  <2> QED BY <2>8, <2>9
<1> HIDE DEF sets, old
<1>7. CASE new
  <2>1. Max(sets) = n + 1 /\ sets # {}
    BY <1>1, <1>5, <1>6, <1>7, GreatestNext
  <2>2. Stands(es, Values(es), n + 2, x) = IF x[1] # "var" THEN <<x>> ELSE Given(ds, d)[2]
    BY <1>1, <2>1 DEF Stands, sets
  <2>3. x[1] # "var" => Stands(ds, Values(ds), n + 1, x) = <<x>>
    BY DEF Stands
  <2> QED BY <1>7, <2>2, <2>3 DEF es, n
<1>8. CASE ~new
  <2>1. sets = old
    BY <1>6, <1>8
  <2>2. old # {} => Values(es)[Max(old)] = Values(ds)[Max(old)]
    BY <1>1, <1>5, Greatest
  <2>3. Stands(es, Values(es), n + 2, x) = Stands(ds, Values(ds), n + 1, x)
    BY <2>1, <2>2 DEF Stands, sets, old
  <2> QED BY <1>8, <2>3 DEF es, n
<1> QED BY <1>7, <1>8

\* A number that is a word by itself.
LEMMA NumberOfOne == ASSUME NEW x PROVE Number(<<x>>) = <<x>>
<1> DEFINE S == {i \in DOMAIN <<x>> : <<x>>[i] # Blank} \cup {Len(<<x>>)}
<1>1. S = {1}
  BY WordFacts
<1>2. Min({1}) = 1
  <2>1. {1} \in SUBSET Nat /\ {1} # {}
    OBVIOUS
  <2>2. Min({1}) \in {1}
    BY <2>1, Least
  <2> QED BY <2>2
<1>3. Beginning(<<x>>) = <<x>>[Min(S)]
  BY DEF Beginning
<1> HIDE DEF S
<1> QED BY <1>1, <1>2, <1>3, WordFacts DEF Number

\* No directives mean what BuildConfig is constructed with.
LEMMA NothingMeans ==
  /\ Meaning(<<>>) = Defaults
  /\ \A x : Stands(<<>>, Values(<<>>), 1, x) =
              IF x[1] = "var" /\ Word(x[2]) \in DOMAIN BuiltIn THEN BuiltIn[Word(x[2])] ELSE <<x>>
<1>1. \A name, n : Says(<<>>, name, n) = {}
  BY DEF Says
<1>2. \A name, n, k, default : LastSaid(<<>>, name, n, k, default) = default
  BY <1>1 DEF LastSaid
<1>3. \A name : All(<<>>, name) = <<>>
  <2> SUFFICES ASSUME NEW name PROVE All(<<>>, name) = <<>>
    OBVIOUS
  <2>1. [i \in DOMAIN <<>> |-> IF <<>>[i].name = name THEN Values(<<>>)[i] ELSE <<>>] = <<>>
    OBVIOUS
  <2> QED BY <2>1, FlattenNothing DEF All
<1>4. \A name : Firsts(<<>>, name) = <<>>
  <2> SUFFICES ASSUME NEW name PROVE Firsts(<<>>, name) = <<>>
    OBVIOUS
  <2>1. [i \in DOMAIN <<>> |-> IF i \in Says(<<>>, name, 1) THEN <<Values(<<>>)[i][1]>> ELSE <<>>] = <<>>
    OBVIOUS
  <2> QED BY <2>1, FlattenNothing DEF Firsts
<1>5. Paths(<<>>) = <<>>
  BY DEF Paths
<1>6. Word("debug") # Word("release")
  BY DEF Word, Text
<1>one. \A x : Number(Word(x)) = Word(x)
  BY NumberOfOne DEF Word
<1>7. Meaning(<<>>) = Defaults
  <2>1. /\ LastSaid(<<>>, "abt_project", 1, 1, Defaults.projectName) = Defaults.projectName
        /\ LastSaid(<<>>, "abt_set_package", 1, 1, Defaults.packageName) = Defaults.packageName
        /\ LastSaid(<<>>, "abt_set_min_sdk", 1, 1, Defaults.minSdkVersion) = Defaults.minSdkVersion
        /\ LastSaid(<<>>, "abt_set_target_sdk", 1, 1, Defaults.targetSdkVersion) = Defaults.targetSdkVersion
        /\ LastSaid(<<>>, "abt_version", 2, 1, Defaults.versionName) = Defaults.versionName
        /\ LastSaid(<<>>, "abt_version", 2, 2, Defaults.versionCode) = Defaults.versionCode
        /\ LastSaid(<<>>, "abt_output_dir", 1, 1, Defaults.outputDir) = Defaults.outputDir
        /\ LastSaid(<<>>, "abt_build_type", 1, 1, Word("debug")) # Word("release")
    BY <1>2, <1>6
  <2>2. /\ Says(<<>>, "abt_architectures", 0) = {}
        /\ Paths(All(<<>>, "abt_add_sources")) = <<>> /\ Paths(All(<<>>, "abt_add_includes")) = <<>>
        /\ All(<<>>, "abt_link_libraries") = <<>> /\ Firsts(<<>>, "abt_dependency") = <<>>
    BY <1>1, <1>3, <1>4, <1>5
  <2>3. /\ Number(Defaults.minSdkVersion) = Defaults.minSdkVersion
        /\ Number(Defaults.targetSdkVersion) = Defaults.targetSdkVersion
        /\ Number(Defaults.versionCode) = Defaults.versionCode
    BY <1>one DEF Defaults
  <2> QED BY ONLY <2>1, <2>2, <2>3 DEF Meaning, Defaults
<1>8. \A x : Sets(<<>>, Values(<<>>), 1, x) = {}
  BY DEF Sets
<1>9. \A x : Stands(<<>>, Values(<<>>), 1, x) =
              IF x[1] = "var" /\ Word(x[2]) \in DOMAIN BuiltIn THEN BuiltIn[Word(x[2])] ELSE <<x>>
  BY <1>8 DEF Stands
<1> QED BY <1>7, <1>9

LEMMA EndsAreNumbers == ASSUME NEW lines \in Seq(Seq(Tokens)) PROVE Ends(lines) \in SUBSET Nat
<1>1. DOMAIN lines = 1..Len(lines) /\ Len(lines) \in Nat
  OBVIOUS
<1> QED BY <1>1 DEF Ends

\* The directives of a file, one for each line.
LEMMA DirectivesAre ==
  ASSUME NEW lines \in Seq(Seq(Tokens))
  PROVE  /\ Directives(lines) \in Seq(Directive) /\ Len(Directives(lines)) = Len(lines)
         /\ \A i \in 1..Len(lines) :
              /\ Start(lines, i) \in 1..i
              /\ Directives(lines)[i] =
                   Call(IF i \in Ends(lines) THEN Stripped(SubSeq(lines, Start(lines, i), i)) ELSE <<>>)
<1> DEFINE n == Len(lines)
           text(i) == IF i \in Ends(lines) THEN Stripped(SubSeq(lines, Start(lines, i), i)) ELSE <<>>
<1>1. n \in Nat /\ DOMAIN lines = 1..n
  OBVIOUS
<1>2. ASSUME NEW i \in 1..n PROVE Start(lines, i) \in 1..i
  <2>1. i \in Nat /\ i - 1 \in Nat
    BY <1>1
  <2>2. PICK e \in 0..i-1 : e = Max({0} \cup (Ends(lines) \cap 1..i-1))
    BY <2>1, EndsAreNumbers, GreatestOrNone
  <2> QED BY <2>1, <2>2 DEF Start
<1>3. ASSUME NEW i \in 1..n PROVE text(i) \in Seq(Plain)
  <2>1. CASE i \in Ends(lines)
    <3>1. Start(lines, i) \in 1..i
      BY <1>2
    <3>2. SubSeq(lines, Start(lines, i), i) \in Seq(Seq(Tokens))
      BY <1>1, <3>1
    <3> QED BY <2>1, <3>2, StrippedType
  <2>2. CASE i \notin Ends(lines)
    BY <2>2
  <2> QED BY <2>1, <2>2
<1>4. ASSUME NEW i \in 1..n PROVE Call(text(i)) \in Directive
  <2>1. PICK t \in Seq(Plain) : t = text(i)
    BY <1>3
  <2>2. Call(t).name \in Strings /\ Call(t).args \in Seq(Words)
    BY LineIsDirective
  <2>3. Call(t) = [name |-> Call(t).name, args |-> Call(t).args]
    BY DEF Call
  <2>4. Call(t) \in Directive
    BY <2>2, <2>3 DEF Directive
  <2> QED BY <2>1, <2>4
<1>5. Directives(lines) = [i \in 1..n |-> Call(text(i))]
  BY <1>1 DEF Directives
<1> HIDE DEF text, n
<1>6. Directives(lines) \in [1..n -> Directive]
  BY <1>4, <1>5
<1>7. Directives(lines) \in Seq(Directive) /\ Len(Directives(lines)) = n
  BY <1>1, <1>6, FunctionIsSeq
<1> QED BY <1>2, <1>5, <1>7 DEF n, text

\* The last line up to the n-th that ends a directive, or 0.
LastEnd(lines, n) == Max({0} \cup (Ends(lines) \cap 1..n))

LEMMA StartIs ==
  ASSUME NEW lines, NEW n \in Nat PROVE Start(lines, n + 1) = LastEnd(lines, n) + 1
<1>1. n + 1 - 1 = n
  OBVIOUS
<1> QED BY <1>1 DEF Start, LastEnd

\* No line up to the n-th leaves fewer open than the last that ends a directive.
Lowest(lines, n) == \A j \in 0..n : Balance(lines, LastEnd(lines, n)) <= Balance(lines, j)

\* When the next line ends a directive, and that Lowest holds after it.
LEMMA EndNext ==
  ASSUME NEW lines \in Seq(Seq(Tokens)), NEW n \in Nat, n + 1 <= Len(lines), Lowest(lines, n)
  PROVE  LET e == LastEnd(lines, n)
         IN  /\ e \in 0..n /\ Balance(lines, e) \in Int
             /\ n + 1 \in Ends(lines) <=> Balance(lines, n + 1) <= Balance(lines, e)
             /\ LastEnd(lines, n + 1) = IF n + 1 \in Ends(lines) THEN n + 1 ELSE e
             /\ Lowest(lines, n + 1)
<1> DEFINE e == LastEnd(lines, n)
           E == Ends(lines)
<1>1. e \in 0..n
  BY EndsAreNumbers, GreatestOrNone DEF LastEnd
<1>2. \A j \in 0..n : Balance(lines, j) \in Int
  <2> SUFFICES ASSUME NEW j \in 0..n PROVE Balance(lines, j) \in Int
    OBVIOUS
  <2>1. j \in Nat /\ j + 1 <= Len(lines)
    OBVIOUS
  <2> QED BY <2>1, BalanceNext
<1>3. Balance(lines, n + 1) \in Int
  BY BalanceNext, <1>2
<1> HIDE DEF e
<1>4. n + 1 \in DOMAIN lines /\ n + 1 - 1 = n
  OBVIOUS
<1>5. n + 1 \in E <=> \A j \in 0..n : Balance(lines, n + 1) <= Balance(lines, j)
  BY <1>4 DEF Ends
<1>6. n + 1 \in E <=> Balance(lines, n + 1) <= Balance(lines, e)
  BY <1>1, <1>2, <1>3, <1>5 DEF Lowest, e
<1> HIDE DEF E
<1>7. LastEnd(lines, n + 1) = IF n + 1 \in E THEN n + 1 ELSE e
  <2>1. 1..n + 1 = 1..n \cup {n + 1}
    OBVIOUS
  <2>2. CASE n + 1 \in E
    <3> DEFINE U == {0} \cup (E \cap 1..n + 1)
    <3>1. n + 1 \in U /\ \A j \in U : j \in Nat /\ j <= n + 1
      BY <2>2
    <3> HIDE DEF U
    <3>2. Max(U) \in U /\ \A j \in U : j <= Max(U)
      BY <3>1 DEF Max
    <3>3. Max(U) = n + 1
      BY <3>1, <3>2
    <3> QED BY <2>2, <3>3 DEF LastEnd, U, E
  <2>3. CASE n + 1 \notin E
    <3>1. E \cap 1..n + 1 = E \cap 1..n
      BY <2>1, <2>3
    <3> QED BY <2>3, <3>1 DEF LastEnd, E, e
  <2> QED BY <2>2, <2>3
<1>8. Lowest(lines, n + 1)
  <2>1. \A j \in 0..n + 1 : j \in 0..n \/ j = n + 1
    OBVIOUS
  <2>2. \A j \in 0..n : Balance(lines, e) <= Balance(lines, j)
    BY DEF Lowest, e
  <2>3. CASE n + 1 \in E
    <3>1. LastEnd(lines, n + 1) = n + 1
      BY <1>7, <2>3
    <3>2. \A j \in 0..n : Balance(lines, n + 1) <= Balance(lines, j)
      BY <1>5, <2>3
    <3>3. \A j \in 0..n + 1 : Balance(lines, n + 1) <= Balance(lines, j)
      BY <1>3, <2>1, <3>2
    <3> QED BY <3>1, <3>3 DEF Lowest
  <2>4. CASE n + 1 \notin E
    <3>1. LastEnd(lines, n + 1) = e
      BY <1>7, <2>4
    <3>2. Balance(lines, e) \in Int
      BY <1>1, <1>2
    <3>3. Balance(lines, e) <= Balance(lines, n + 1)
      BY <1>3, <1>6, <2>4, <3>2
    <3>4. \A j \in 0..n + 1 : Balance(lines, e) <= Balance(lines, j)
      BY <2>1, <2>2, <3>3
    <3> QED BY <3>1, <3>4 DEF Lowest
  <2> QED BY <2>3, <2>4
<1> QED BY <1>1, <1>2, <1>6, <1>7, <1>8 DEF e, E

\* The parser has read n lines: the configuration is what the directives among them mean,
\* vars_ has the values of variables, accumLine what was read since the last that ended,
\* and parenDepth what is open in it.
Reading(n) ==
  LET lines == input.lines
      ds == SubSeq(Directives(lines), 1, n)
      e == LastEnd(lines, n)
  IN  /\ unread = SubSeq(lines, n + 1, Len(lines))
      /\ config = Meaning(ds)
      /\ \A x \in Letters : Expanded(x) = Stands(ds, Values(ds), n + 1, x)
      /\ accum = Stripped(SubSeq(lines, e + 1, n))
      /\ depth = Balance(lines, n) - Balance(lines, e)
      /\ Lowest(lines, n)

ReadInv ==
  /\ phase \in {"args", "open"} =>
       config = Defaults /\ known = BuiltIn /\ accum = <<>> /\ depth = 0
  /\ phase = "line" => \E n \in 0..Len(input.lines) : Reading(n)
  /\ phase = "override" /\ input.file # "none" => config = Meaning(Directives(input.lines))

LEMMA StartsReading ==
  ASSUME input \in Inputs, UNCHANGED input, config' = Defaults, known' = BuiltIn, accum' = <<>>,
         depth' = 0, unread' = input.lines
  PROVE  (0 \in 0..Len(input.lines) /\ Reading(0))'
<1> DEFINE lines == input.lines
           ds == SubSeq(Directives(lines), 1, 0)
<1>1. lines \in Seq(Seq(Tokens)) /\ Len(lines) \in Nat
  <2>1. lines \in Seq(Seq(Tokens))
    BY ConfigurationAssumption
  <2> HIDE DEF lines
  <2> QED BY <2>1
<1>2. ds = <<>>
  BY SubSeqEmpty
<1>3. LastEnd(lines, 0) = 0
  <2>1. LastEnd(lines, 0) \in 0..0
    BY <1>1, EndsAreNumbers, GreatestOrNone DEF LastEnd
  <2> QED BY <2>1
<1>4. Balance(lines, 0) \in Int
  <2>1. SubSeq(lines, 1, 0) \in Seq(Seq(Tokens))
    BY <1>1
  <2>2. Stripped(SubSeq(lines, 1, 0)) \in Seq(Plain)
    BY <2>1, StrippedType
  <2> QED BY <2>2, CountsAreNumbers DEF Balance, Opened, Closed
<1>5. accum' = Stripped(SubSeq(lines, 0 + 1, 0))
  BY <1>1, NothingStripped
<1>6. \A x : Expanded(x)' = Stands(<<>>, Values(<<>>), 0 + 1, x)
  BY NothingMeans DEF Expanded
<1>7. unread' = SubSeq(lines, 0 + 1, Len(lines))
  BY <1>1, SubSeqFull
<1>8. Lowest(lines, 0)
  BY <1>3, <1>4 DEF Lowest
<1>9. depth' = Balance(lines, 0) - Balance(lines, 0)
  BY <1>4
<1>10. config' = Meaning(<<>>)
  BY NothingMeans
<1> HIDE DEF ds, lines
<1>12. input.lines' = lines
  BY DEF lines
<1>11. Reading(0)'
  BY <1>2, <1>3, <1>5, <1>6, <1>7, <1>8, <1>9, <1>10, <1>12 DEF Reading, ds
<1> QED BY <1>1, <1>11, <1>12

\* What is no directive leaves a BuildConfig alone.
LEMMA NoneDoes == ASSUME NEW c \in Configs, NEW args PROVE After(c, "none", args) = c
<1>1. c = ByFields(c)
  BY DEF Configs, ByFields, Lists
<1>2. After(c, "none", args) = ByFields(c)
  BY DEF After, Has, ByFields, Lists
<1> QED BY <1>1, <1>2

\* What a letter stands for, once a set has been read.
LEMMA ExpandedNext ==
  ASSUME NEW x, NEW name, NEW args, Len(args) \in Nat,
         known' = IF Has(name, args, "set", 2)
                  THEN [v \in DOMAIN known \cup {args[1]} |-> IF v = args[1] THEN args[2] ELSE known[v]]
                  ELSE known
  PROVE  Expanded(x)' = IF x[1] = "var" /\ Has(name, args, "set", 2) /\ args[1] = Word(x[2])
                        THEN args[2] ELSE Expanded(x)
<1>1. CASE Has(name, args, "set", 2)
  <2>1. known' = [v \in DOMAIN known \cup {args[1]} |-> IF v = args[1] THEN args[2] ELSE known[v]]
    BY <1>1
  <2> QED BY <1>1, <2>1 DEF Expanded
<1>2. CASE ~Has(name, args, "set", 2)
  BY <1>2 DEF Expanded
<1> QED BY <1>1, <1>2

\* One line more: one directive more, the line's.
LEMMA DirectiveNext ==
  ASSUME NEW lines \in Seq(Seq(Tokens)), NEW n \in Nat, n + 1 <= Len(lines)
  PROVE  LET ds == SubSeq(Directives(lines), 1, n)
             d == Directives(lines)[n + 1]
         IN  /\ ds \in Seq(Directive) /\ Len(ds) = n /\ d \in Directive
             /\ SubSeq(Directives(lines), 1, n + 1) = Append(ds, d)
<1> DEFINE D == Directives(lines)
<1>1. D \in Seq(Directive) /\ Len(D) = Len(lines)
  BY DirectivesAre
<1> HIDE DEF D
<1>2. n + 1 \in 1..Len(D) /\ Len(D) \in Nat
  BY <1>1
<1>3. SubSeq(D, 1, n) \in Seq(Directive) /\ Len(SubSeq(D, 1, n)) = n
  BY <1>1, <1>2
<1>4. D[n + 1] \in Directive
  BY <1>1, <1>2
<1>5. SubSeq(D, 1, n + 1) = Append(SubSeq(D, 1, n), D[n + 1])
  BY <1>1, <1>2
<1> QED BY <1>3, <1>4, <1>5 DEF D

LEMMA UnreadNext ==
  ASSUME NEW lines \in Seq(Seq(Tokens)), NEW n \in Nat, n + 1 <= Len(lines)
  PROVE  /\ Head(SubSeq(lines, n + 1, Len(lines))) = lines[n + 1]
         /\ Tail(SubSeq(lines, n + 1, Len(lines))) = SubSeq(lines, n + 1 + 1, Len(lines))
<1>1. PICK m \in 1..Len(lines) : m = n + 1
  OBVIOUS
<1>2. PICK k \in m..Len(lines) : k = Len(lines)
  BY <1>1
<1>3. Head(SubSeq(lines, m, k)) = lines[m] /\ Tail(SubSeq(lines, m, k)) = SubSeq(lines, m + 1, k)
  BY HeadTailOfSubSeq
<1> QED BY <1>1, <1>2, <1>3

\* A line whose directive, if it ends one, has been done: the arguments that were given
\* to it are the values of the reference.
LEMMA ReadsOn ==
  ASSUME input \in Inputs, UNCHANGED input, NEW n \in Nat, n + 1 <= Len(input.lines),
         config \in Configs, Reading(n), unread # <<>>, unread' = Tail(unread),
         NEW args, args = Given(SubSeq(Directives(input.lines), 1, n), Directives(input.lines)[n + 1]),
         config' = After(config, Directives(input.lines)[n + 1].name, args),
         known' = IF Has(Directives(input.lines)[n + 1].name, args, "set", 2)
                  THEN [v \in DOMAIN known \cup {args[1]} |-> IF v = args[1] THEN args[2] ELSE known[v]]
                  ELSE known,
         accum' = Stripped(SubSeq(input.lines, LastEnd(input.lines, n + 1) + 1, n + 1)),
         depth' = Balance(input.lines, n + 1) - Balance(input.lines, LastEnd(input.lines, n + 1))
  PROVE  Reading(n + 1)'
<1> DEFINE lines == input.lines
           D == Directives(lines)
           ds == SubSeq(D, 1, n)
           d == D[n + 1]
           es == Append(ds, d)
<1>1. lines \in Seq(Seq(Tokens))
  BY ConfigurationAssumption
<1>2. ds \in Seq(Directive) /\ Len(ds) = n /\ d \in Directive /\ SubSeq(D, 1, n + 1) = es
  BY <1>1, DirectiveNext
<1>3. /\ config = Meaning(ds) /\ \A x \in Letters : Expanded(x) = Stands(ds, Values(ds), n + 1, x)
      /\ unread = SubSeq(lines, n + 1, Len(lines)) /\ Lowest(lines, n)
  BY DEF Reading
<1>4. unread' = SubSeq(lines, n + 1 + 1, Len(lines))
  BY <1>1, <1>3, UnreadNext
<1>5. Lowest(lines, n + 1)
  BY <1>1, <1>3, EndNext
<1>6. args = Given(ds, d) /\ Len(args) = Len(d.args) /\ Len(args) \in Nat
  BY <1>2, Longer, DirectiveFacts
<1> HIDE DEF ds, d
<1>7. config' = Meaning(es)
  BY <1>2, <1>3, <1>6, MeaningAppend DEF d
<1>8. ASSUME NEW x \in Letters PROVE Expanded(x)' = Stands(es, Values(es), n + 1 + 1, x)
  <2>1. Expanded(x)' = IF x[1] = "var" /\ Has(d.name, args, "set", 2) /\ args[1] = Word(x[2])
                     THEN args[2] ELSE Expanded(x)
    BY <1>6, ExpandedNext DEF d
  <2>2. Stands(es, Values(es), Len(ds) + 2, x) =
           IF x[1] = "var" /\ d.name = "set" /\ Len(d.args) >= 2 /\ Given(ds, d)[1] = Word(x[2])
           THEN Given(ds, d)[2] ELSE Stands(ds, Values(ds), Len(ds) + 1, x)
    BY <1>2, StandsNext
  <2>3. Len(ds) + 2 = n + 1 + 1 /\ Len(ds) + 1 = n + 1
    BY <1>2
  <2>4. Stands(es, Values(es), n + 1 + 1, x) =
           IF x[1] = "var" /\ d.name = "set" /\ Len(d.args) >= 2 /\ Given(ds, d)[1] = Word(x[2])
           THEN Given(ds, d)[2] ELSE Stands(ds, Values(ds), n + 1, x)
    BY <2>2, <2>3
  <2>5. Has(d.name, args, "set", 2) <=> d.name = "set" /\ Len(d.args) >= 2
    BY <1>6 DEF Has
  <2>6. Expanded(x) = Stands(ds, Values(ds), n + 1, x)
    BY <1>3
  <2> HIDE DEF es
  <2> QED BY <1>6, <2>1, <2>4, <2>5, <2>6
<1> HIDE DEF lines, D, es
<1>9. input.lines' = lines
  BY DEF lines
<1> QED BY <1>2, <1>4, <1>5, <1>7, <1>8, <1>9 DEF Reading, lines, D

\* NextLine: whether a line ends a directive is what the reference says, and so is the text
\* of the directive.
LEMMA NextLineReads ==
  ASSUME IInv, NextLine, NEW n \in Nat, n <= Len(input.lines), Reading(n), phase' # "end"
  PROVE  n + 1 \in 0..Len(input.lines) /\ Reading(n + 1)' /\ UNCHANGED phase
<1> DEFINE lines == input.lines
           D == Directives(lines)
           ds == SubSeq(D, 1, n)
           d == D[n + 1]
           l == WithoutComment(lines[n + 1])
           text == accum \o <<Blank>> \o l
           e == LastEnd(lines, n)
           given == [i \in DOMAIN d.args |-> Expand(d.args[i])]
<1>1. lines \in Seq(Seq(Tokens)) /\ input \in Inputs
  BY ConfigurationAssumption DEF IInv
<1>2. config \in Configs /\ depth \in Nat /\ accum \in Seq(Plain)
  BY DEF IInv, TypeOK, Plain
<1>3. phase = "line" /\ unread # <<>> /\ unread' = Tail(unread) /\ UNCHANGED input
  BY DEF NextLine
<1>4. /\ unread = SubSeq(lines, n + 1, Len(lines)) /\ config = Meaning(ds)
      /\ \A x \in Letters : Expanded(x) = Stands(ds, Values(ds), n + 1, x)
      /\ accum = Stripped(SubSeq(lines, e + 1, n))
      /\ depth = Balance(lines, n) - Balance(lines, e) /\ Lowest(lines, n)
  BY DEF Reading
<1>5. n + 1 <= Len(lines)
  <2>1. CASE n = Len(lines)
    <3>1. SubSeq(lines, n + 1, Len(lines)) = <<>>
      BY <2>1, SubSeqEmpty
    <3> QED BY <1>3, <1>4, <3>1
  <2>2. Len(lines) \in Nat
    <3> HIDE DEF lines
    <3> QED BY <1>1
  <2> QED BY <2>1, <2>2
<1>6. Head(unread) = lines[n + 1]
  BY <1>1, <1>4, <1>5, UnreadNext
<1>7. ds \in Seq(Directive) /\ Len(ds) = n /\ d \in Directive
  BY <1>1, <1>5, DirectiveNext
<1>plain. l \in Seq(Plain) /\ <<Blank>> \in Seq(Plain)
  <2>1. lines[n + 1] \in Seq(Tokens)
    <3> HIDE DEF lines
    <3> QED BY <1>1, <1>5
  <2> QED BY <2>1, CommentsGo, TokenFacts
<1>8. /\ Balance(lines, n) \in Int /\ Opened(l) \in Nat /\ Closed(l) \in Nat
      /\ Balance(lines, n + 1) = Balance(lines, n) + Opened(l) - Closed(l)
  BY <1>1, <1>5, BalanceNext
<1>9. /\ e \in 0..n /\ Balance(lines, e) \in Int
      /\ n + 1 \in Ends(lines) <=> Balance(lines, n + 1) <= Balance(lines, e)
      /\ LastEnd(lines, n + 1) = IF n + 1 \in Ends(lines) THEN n + 1 ELSE e
  BY <1>1, <1>4, <1>5, EndNext
<1>10. Stripped(SubSeq(lines, e + 1, n + 1)) = text
  <2>1. e + 1 \in Nat /\ 1 <= e + 1 /\ e + 1 <= n + 1
    BY <1>9
  <2> HIDE DEF e, lines
  <2>2. Stripped(SubSeq(lines, e + 1, n + 1)) = Stripped(SubSeq(lines, e + 1, n)) \o <<Blank>> \o WithoutComment(lines[n + 1])
    BY <1>1, <1>5, <2>1, StrippedNext
  <2> QED BY <1>4, <2>2
<1>11. d = Call(IF n + 1 \in Ends(lines) THEN text ELSE <<>>)
  <2>1. n + 1 \in 1..Len(lines)
    <3> HIDE DEF lines
    <3> QED BY <1>1, <1>5
  <2>2. Start(lines, n + 1) = e + 1
    BY StartIs
  <2>3. d = Call(IF n + 1 \in Ends(lines) THEN Stripped(SubSeq(lines, Start(lines, n + 1), n + 1)) ELSE <<>>)
    BY <1>1, <2>1, DirectivesAre
  <2> QED BY <1>10, <2>2, <2>3
<1>12. given = Given(ds, d)
  <2>1. Given(ds, d) = [k \in DOMAIN d.args |-> Value(ds, Values(ds), n + 1, d.args[k])]
    BY <1>7, ValuesAppend DEF Given
  <2>2. \A k \in DOMAIN d.args : d.args[k] \in Words
    BY <1>7, DirectiveFacts
  <2> HIDE DEF ds
  <2>3. ASSUME NEW w \in Words PROVE Expand(w) = Value(ds, Values(ds), n + 1, w)
    <3>1. \A i \in DOMAIN w : w[i] \in Letters
      BY WordFacts
    <3>2. \A i \in DOMAIN w : Expanded(w[i]) = Stands(ds, Values(ds), n + 1, w[i])
      BY <1>4, <3>1
    <3>3. Expand(w) = FlattenSeq([i \in DOMAIN w |-> Expanded(w[i])])
      BY DEF Expand, Expanded
    <3> QED BY <3>2, <3>3 DEF Value
  <2> QED BY <2>1, <2>2, <2>3
<1>13. Len(given) = Len(d.args) /\ Len(given) \in Nat
  BY <1>7, <1>12, Longer, DirectiveFacts
<1>14. IF depth + Opened(l) > Closed(l)
       THEN /\ accum' = text /\ depth' = (depth + Opened(l)) - Closed(l)
            /\ UNCHANGED <<config, known, phase, outcome>>
       ELSE /\ accum' = <<>> /\ depth' = 0
            /\ HandleDirective(Call(text).name,
                               [i \in DOMAIN Call(text).args |-> Expand(Call(text).args[i])])
  <2> DEFINE line == WithoutComment(Head(unread))
             all == accum \o <<Blank>> \o line
             p == ParseLine(all)
             ws == Arguments(p.inner)
  <2>1. line = l
    BY <1>6
  <2> HIDE DEF line
  <2>2. IF depth + Opened(line) > Closed(line)
        THEN /\ accum' = all /\ depth' = (depth + Opened(line)) - Closed(line)
             /\ UNCHANGED <<config, known, phase, outcome>>
        ELSE /\ accum' = <<>> /\ depth' = 0
             /\ HandleDirective(p.name, [i \in DOMAIN ws |-> Expand(ws[i])])
    BY DEF NextLine, line
  <2>3. all = text /\ text \in Seq(Plain)
    BY <1>2, <1>plain, <2>1
  <2>4. p.name = Call(text).name /\ ws = Call(text).args
    BY <2>3, LineIsDirective
  <2> HIDE DEF l, p, ws, all
  <2> QED BY <2>1, <2>2, <2>3, <2>4
<1>15. depth + Opened(l) > Closed(l) <=> n + 1 \notin Ends(lines)
  BY <1>4, <1>8, <1>9
<1> HIDE DEF lines, D, ds, d, e, l, text, given
<1>16. CASE n + 1 \notin Ends(lines)
  <2>1. d = Call(<<>>)
    BY <1>11, <1>16
  <2>2. d.name = "none"
    BY <2>1 DEF Call, ParseLine, At
  <2>3. /\ accum' = text /\ depth' = (depth + Opened(l)) - Closed(l)
        /\ UNCHANGED <<config, known, phase, outcome>>
    BY <1>14, <1>15, <1>16
  <2>4. config' = After(config, d.name, given) /\ ~Has(d.name, given, "set", 2)
    BY <1>2, <2>2, <2>3, NoneDoes DEF Has
  <2>5. LastEnd(lines, n + 1) = e
    BY <1>9, <1>16
  <2>6. depth' = Balance(lines, n + 1) - Balance(lines, e)
    BY <1>4, <1>8, <1>9, <2>3
  <2>7. accum' = Stripped(SubSeq(lines, e + 1, n + 1))
    BY <1>10, <2>3
  <2>8. Reading(n + 1)'
    BY <1>1, <1>2, <1>3, <1>5, <1>12, <2>3, <2>4, <2>5, <2>6, <2>7, ReadsOn DEF lines, D, ds, d
  <2> QED BY <1>5, <2>3, <2>8 DEF lines
<1>17. CASE n + 1 \in Ends(lines)
  <2>1. d = Call(text)
    BY <1>11, <1>17
  <2>2. accum' = <<>> /\ depth' = 0 /\ HandleDirective(d.name, given)
    BY <1>14, <1>15, <1>17, <2>1 DEF given
  <2>3. /\ config' = After(config, d.name, given) /\ UNCHANGED <<phase, outcome>>
        /\ known' = IF Has(d.name, given, "set", 2)
                    THEN [v \in DOMAIN known \cup {given[1]} |-> IF v = given[1] THEN given[2] ELSE known[v]]
                    ELSE known
    BY <1>2, <1>3, <1>13, <2>2, DirectiveDoes
  <2>4. LastEnd(lines, n + 1) = n + 1
    BY <1>9, <1>17
  <2>5. depth' = Balance(lines, n + 1) - Balance(lines, n + 1)
    BY <1>8, <2>2
  <2>6. accum' = Stripped(SubSeq(lines, n + 1 + 1, n + 1))
    <3>1. PICK m \in Nat : m = n + 1
      OBVIOUS
    <3> QED BY <1>1, <1>5, <2>2, <3>1, NothingStripped
  <2>7. Reading(n + 1)'
    BY <1>1, <1>2, <1>3, <1>5, <1>12, <2>3, <2>4, <2>5, <2>6, ReadsOn DEF lines, D, ds, d
  <2> QED BY <1>5, <2>3, <2>7 DEF lines
<1> QED BY <1>16, <1>17

LEMMA InitReads == Init => ReadInv
BY DEF Init, ReadInv

LEMMA NextReads == IInv /\ ReadInv /\ [Next]_vars => ReadInv'
<1> SUFFICES ASSUME IInv, ReadInv, [Next]_vars PROVE ReadInv'
  OBVIOUS
<1>1. CASE ParseArg \/ ArgsParsed
  BY <1>1 DEF ParseArg, ArgsParsed, ReadInv, Finish, parser
<1>2. CASE OpenFile
  <2>1. CASE input.file = "none"
    BY <1>2, <2>1 DEF OpenFile, ReadInv
  <2>2. CASE input.file # "none"
    <3>1. /\ phase = "open" /\ phase' = "line" /\ unread' = input.lines
          /\ UNCHANGED <<input, config, known, accum, depth>>
      BY <1>2, <2>2 DEF OpenFile
    <3>2. input \in Inputs /\ config' = Defaults /\ known' = BuiltIn /\ accum' = <<>> /\ depth' = 0
      BY <3>1 DEF ReadInv, IInv
    <3>3. (0 \in 0..Len(input.lines) /\ Reading(0))'
      BY <3>1, <3>2, StartsReading
    <3> QED BY <3>1, <3>3 DEF ReadInv
  <2> QED BY <2>1, <2>2
<1>3. CASE NextLine
  <2>1. phase = "line"
    BY <1>3 DEF NextLine
  <2>2. PICK n \in 0..Len(input.lines) : Reading(n)
    BY <2>1 DEF ReadInv
  <2>3. CASE phase' = "end"
    BY <2>3 DEF ReadInv
  <2>4. CASE phase' # "end"
    <3>1. n \in Nat /\ n <= Len(input.lines)
      <4>1. Len(input.lines) \in Nat
        <5>1. input.lines \in Seq(Seq(Tokens))
          BY ConfigurationAssumption DEF IInv
        <5> QED BY <5>1
      <4> QED BY <2>2, <4>1
    <3>2. n + 1 \in 0..Len(input.lines) /\ Reading(n + 1)' /\ UNCHANGED phase
      BY <1>3, <2>2, <2>4, <3>1, NextLineReads
    <3>3. UNCHANGED input
      BY <1>3 DEF NextLine
    <3>4. PICK m \in 0..Len(input.lines) : m = n + 1
      BY <3>2
    <3>5. \E k \in 0..Len(input.lines') : Reading(k)'
      BY <3>2, <3>3
    <3> QED BY <2>1, <3>2, <3>5 DEF ReadInv
  <2> QED BY <2>3, <2>4
<1>4. CASE EndOfFile
  <2>1. phase = "line" /\ unread = <<>> /\ phase' = "override" /\ UNCHANGED <<input, config>>
    BY <1>4 DEF EndOfFile
  <2>2. PICK n \in 0..Len(input.lines) : Reading(n)
    BY <2>1 DEF ReadInv
  <2>3. input.lines \in Seq(Seq(Tokens))
    BY ConfigurationAssumption DEF IInv
  <2>4. n = Len(input.lines)
    <3>1. unread = SubSeq(input.lines, n + 1, Len(input.lines))
      BY <2>2 DEF Reading
    <3>2. PICK s \in Seq(Seq(Tokens)) : s = input.lines
      BY <2>3
    <3>3. n \in 0..Len(s) /\ Len(s) \in Nat
      BY <2>2, <3>2
    <3>4. n < Len(s) => Len(SubSeq(s, n + 1, Len(s))) = Len(s) - n
      BY <3>3
    <3>5. SubSeq(s, n + 1, Len(s)) = <<>>
      BY <2>1, <3>1, <3>2
    <3>6. n < Len(s) => 0 = Len(s) - n
      BY <3>4, <3>5
    <3>7. n = Len(s)
      BY <3>3, <3>6
    <3> QED BY <3>2, <3>7
  <2>5. SubSeq(Directives(input.lines), 1, n) = Directives(input.lines)
    BY <2>3, <2>4, DirectivesAre, SubSeqFull
  <2>6. config' = Meaning(Directives(input.lines))
    BY <2>1, <2>2, <2>5 DEF Reading
  <2> QED BY <2>1, <2>6 DEF ReadInv
<1>5. CASE Override
  BY <1>5 DEF Override, ReadInv, Finish
<1>6. CASE ProbeNdk \/ ProbeSdk
  BY <1>6 DEF ProbeNdk, ProbeSdk, ReadInv, Finish
<1>7. CASE UNCHANGED vars
  <2>1. \A n : Reading(n)' <=> Reading(n)
    BY <1>7 DEF vars, parser, Reading, Expanded
  <2> QED BY <1>7, <2>1 DEF vars, parser, ReadInv
<1> QED BY <1>1, <1>2, <1>3, <1>4, <1>5, <1>6, <1>7 DEF Next

\* Whatever a file holds and however it is laid out, ConfigParser ends with what the
\* directives in it mean: where a directive ends follows from the parentheses of the whole
\* file, its words are the parts between blanks outside of quotation marks, and a variable
\* in a word is what the last set before says.  (Where a directive's name and text begin
\* and end, both sides take from ParseLine.)
THEOREM FileIsMeant == Spec => []ConfigIsMeaning
<1>1. ReadInv => ConfigIsMeaning
  BY DEF ReadInv, ConfigIsMeaning
<1> QED BY <1>1, InitReads, NextReads, Invariant, PTL DEF Spec
===============================================================================
