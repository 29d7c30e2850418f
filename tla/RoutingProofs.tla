--------------------------- MODULE RoutingProofs ----------------------------
(***************************************************************************)
(* The properties of Routing for any number of nodes and clients, topics   *)
(* and filters of any length, any rules and any scopes (those that are     *)
(* about who is reached need scopes none of which lies inside another).    *)
(***************************************************************************)
EXTENDS RoutingProperties, TopicProofs, WellFoundedInduction

First(t) == IF t[1] \in Spaces THEN 2 ELSE 1

\* Level i of the filter f stands for level i of the topic t.
StandsFor(f, t, i) == f[i] = t[i] \/ (i >= First(t) /\ f[i] = "+")

\* f is one of FiltersOf(t), read level by level.
Fits(f, t) ==
    \/ /\ Len(f) = Len(t)
       /\ \A i \in 1..Len(f) : StandsFor(f, t, i)
    \/ /\ Len(f) - 1 \in (First(t) - 1)..Len(t)
       /\ f[Len(f)] = "#"
       /\ \A i \in 1..(Len(f) - 1) : StandsFor(f, t, i)

\* Wildcards for many levels come last.
HashLast(f) == \A i \in 1..Len(f) : f[i] = "#" => i = Len(f)

-----------------------------------------------------------------------------
\* A filter of FiltersOf without `#' stands level by level for its topic.
LEMMA BlurredStands ==
    ASSUME NEW t \in LevelSeq, NEW n \in 0..Len(t), NEW f,
           \A i \in 1..n : f[i] \in Level
    PROVE  (\E S \in SUBSET (First(t)..n) : \A i \in 1..n : f[i] = Blurred(t, S, n)[i])
             <=> \A i \in 1..n : StandsFor(f, t, i)
<1>1. n \in Nat /\ First(t) \in Nat
  BY DEF First, LevelSeq
<1>2. ASSUME NEW S \in SUBSET (First(t)..n), \A i \in 1..n : f[i] = Blurred(t, S, n)[i]
      PROVE  \A i \in 1..n : StandsFor(f, t, i)
  BY <1>1, <1>2 DEF StandsFor, Blurred
<1>3. ASSUME \A i \in 1..n : StandsFor(f, t, i)
      PROVE  \E S \in SUBSET (First(t)..n) : \A i \in 1..n : f[i] = Blurred(t, S, n)[i]
  <2> DEFINE S == {i \in First(t)..n : f[i] = "+"}
  <2>1. \A i \in 1..n : f[i] = Blurred(t, S, n)[i]
    <3> TAKE i \in 1..n
    <3>1. CASE i \in S
      BY <3>1 DEF Blurred
    <3>2. CASE i \notin S
      <4>1. ~(i >= First(t) /\ f[i] = "+")
        BY <1>1, <3>2
      <4>2. f[i] = t[i]
        BY <1>3, <4>1 DEF StandsFor
      <4> QED
        BY <3>2, <4>2 DEF Blurred
    <3> QED
      BY <3>1, <3>2
  <2>2. S \in SUBSET (First(t)..n)
    OBVIOUS
  <2> HIDE DEF S
  <2> QED
    BY <2>1, <2>2
<1> QED
  BY <1>2, <1>3

\* The filters that the standard's account generates for a topic are those
\* that fit it.
LEMMA FiltersFit ==
    ASSUME NEW f \in LevelSeq, NEW t \in LevelSeq
    PROVE  f \in FiltersOf(t) <=> Fits(f, t)
<1> DEFINE first == First(t)
           m == Len(f) - 1
           Whole == {Blurred(t, S, Len(t)) : S \in SUBSET (first..Len(t))}
           Cut == UNION {{Append(Blurred(t, S, k), "#") : S \in SUBSET (first..k)}
                           : k \in (first - 1)..Len(t)}
<1>1. /\ Len(f) \in Nat /\ Len(f) > 0 /\ Len(t) \in Nat /\ Len(t) > 0
      /\ first \in {1, 2} /\ m \in Nat
      /\ DOMAIN f = 1..Len(f) /\ f = [i \in 1..Len(f) |-> f[i]]
      /\ \A i \in 1..Len(f) : f[i] \in Level
      /\ \A i \in 1..Len(t) : t[i] \in Level
  BY DEF LevelSeq, First
<1>2. f \in FiltersOf(t) <=> f \in Whole \/ f \in Cut
  BY DEF FiltersOf, First
<1>3. ASSUME NEW n \in 0..Len(t), NEW S
      PROVE  /\ Blurred(t, S, n) \in Seq(Level) /\ Len(Blurred(t, S, n)) = n
             /\ DOMAIN Blurred(t, S, n) = 1..n
  <2>a. "+" \in Level
    BY DEF Level, Wild
  <2>1. n \in Nat /\ "+" \in Level /\ \A i \in 1..n : t[i] \in Level
    BY <1>1, <2>a
  <2>2. \A i \in 1..n : (IF i \in S THEN "+" ELSE t[i]) \in Level
    BY <2>1
  <2>3. Blurred(t, S, n) \in [1..n -> Level]
    BY <2>2 DEF Blurred
  <2> QED
    BY <2>1, <2>3
<1> HIDE DEF first
<1>4. f \in Whole <=> Len(f) = Len(t) /\ \A i \in 1..Len(f) : StandsFor(f, t, i)
  <2>1. ASSUME NEW S PROVE f = Blurred(t, S, Len(t))
                             <=> Len(f) = Len(t) /\ \A i \in 1..Len(t) : f[i] = Blurred(t, S, Len(t))[i]
    <3>1. Len(t) \in 0..Len(t)
      BY <1>1
    <3>2. /\ Blurred(t, S, Len(t)) \in Seq(Level) /\ Len(Blurred(t, S, Len(t))) = Len(t)
          /\ DOMAIN Blurred(t, S, Len(t)) = 1..Len(t)
      BY <1>3, <3>1
    <3>3. Blurred(t, S, Len(t)) = [i \in 1..Len(t) |-> Blurred(t, S, Len(t))[i]]
      BY DEF Blurred
    <3> QED
      BY <1>1, <3>2, <3>3
  <2>2. f \in Whole <=> /\ Len(f) = Len(t)
                        /\ \E S \in SUBSET (first..Len(t)) : \A i \in 1..Len(t) : f[i] = Blurred(t, S, Len(t))[i]
    BY <2>1
  <2>3. Len(t) \in 0..Len(t) /\ (Len(f) = Len(t) => \A i \in 1..Len(t) : f[i] \in Level)
    BY <1>1
  <2>4. Len(f) = Len(t) => ((\E S \in SUBSET (first..Len(t)) : \A i \in 1..Len(t) : f[i] = Blurred(t, S, Len(t))[i])
                             <=> \A i \in 1..Len(t) : StandsFor(f, t, i))
    BY <2>3, BlurredStands DEF first
  <2> HIDE DEF Whole
  <2> QED
    BY <2>2, <2>4
<1>5. f \in Cut <=> /\ m \in (first - 1)..Len(t)
                    /\ f[Len(f)] = "#"
                    /\ \A i \in 1..m : StandsFor(f, t, i)
  <2>1. ASSUME NEW k \in (first - 1)..Len(t), NEW S
        PROVE  f = Append(Blurred(t, S, k), "#")
                 <=> m = k /\ f[Len(f)] = "#" /\ \A i \in 1..k : f[i] = Blurred(t, S, k)[i]
    <3> DEFINE b == Blurred(t, S, k)
               a == Append(b, "#")
    <3>a. "#" \in Level
      BY DEF Level, Wild
    <3>1. k \in 0..Len(t) /\ k \in Nat /\ "#" \in Level
      BY <1>1, <3>a
    <3>2. b \in Seq(Level) /\ Len(b) = k /\ DOMAIN b = 1..k
      BY <1>3, <3>1
    <3> HIDE DEF b
    <3>3. a \in Seq(Level) /\ Len(a) = k + 1 /\ a[k + 1] = "#" /\ \A i \in 1..k : a[i] = b[i]
      BY <3>1, <3>2
    <3> HIDE DEF a
    <3>4. f = a <=> Len(f) = Len(a) /\ \A i \in 1..Len(f) : f[i] = a[i]
      BY <3>3, f \in Seq(Level) DEF LevelSeq
    <3>5. m = k <=> Len(f) = k + 1
      BY <1>1, <3>1
    <3>6. Len(f) = k + 1 => ((\A i \in 1..Len(f) : f[i] = a[i])
                               <=> f[Len(f)] = "#" /\ \A i \in 1..k : f[i] = b[i])
      BY <3>1, <3>3
    <3>7. f = a <=> m = k /\ f[Len(f)] = "#" /\ \A i \in 1..k : f[i] = b[i]
      BY <3>3, <3>4, <3>5, <3>6
    <3> QED
      BY <3>7 DEF a, b
  <2>2. f \in Cut <=> \E k \in (first - 1)..Len(t) : \E S \in SUBSET (first..k) : f = Append(Blurred(t, S, k), "#")
    OBVIOUS
  <2>3. f \in Cut <=> /\ m \in (first - 1)..Len(t) /\ f[Len(f)] = "#"
                      /\ \E S \in SUBSET (first..m) : \A i \in 1..m : f[i] = Blurred(t, S, m)[i]
    <3> HIDE DEF Cut
    <3> QED
      BY <2>1, <2>2, SMTT(30)
  <2>4. m \in (first - 1)..Len(t)
          => ((\E S \in SUBSET (first..m) : \A i \in 1..m : f[i] = Blurred(t, S, m)[i])
                <=> \A i \in 1..m : StandsFor(f, t, i))
    <3> SUFFICES ASSUME m \in (first - 1)..Len(t)
                 PROVE  (\E S \in SUBSET (first..m) : \A i \in 1..m : f[i] = Blurred(t, S, m)[i])
                          <=> \A i \in 1..m : StandsFor(f, t, i)
      OBVIOUS
    <3>1. m \in 0..Len(t) /\ \A i \in 1..m : f[i] \in Level
      BY <1>1
    <3> HIDE DEF m
    <3> QED
      BY <3>1, BlurredStands DEF first
  <2> HIDE DEF Cut, m
  <2> QED
    BY <2>3, <2>4
<1> HIDE DEF Whole, Cut
<1> QED
  BY <1>2, <1>4, <1>5 DEF Fits, first

\* What the levels of a topic that clients see are not.
LEMMA LevelsApart ==
    /\ Names \cap Spaces = {} /\ Names \cap Verbatim = {}
    /\ {"+", "#", "*", "**"} \cap (Names \cup Spaces) = {}
    /\ Spaces \cap Verbatim = {}
<1>1. Spaces \cap Verbatim = {}
  BY DEF Spaces, Verbatim
<1>2. {"+", "#", "*", "**"} \cap Names = {}
  BY TopicAssumption DEF Wild
<1>3. {"+", "#", "*", "**"} \cap Spaces = {}
  BY DEF Spaces
<1>4. Names \cap Spaces = {} /\ Names \cap Verbatim = {}
  BY TopicAssumption
<1> QED
  BY <1>1, <1>2, <1>3, <1>4

\* topic_matches and the standard agree, but for the first level of the
\* broker's own topics, which only topic_matches lets a wildcard stand for.
LEMMA FitsMatches ==
    ASSUME NEW f \in LevelSeq, NEW t \in LevelSeq, HashLast(f),
           \A i \in 1..Len(t) : t[i] \in Names \cup Spaces
    PROVE  /\ Fits(f, t) => topic_matches(f, t)
           /\ t[1] \notin Spaces => (topic_matches(f, t) => Fits(f, t))
<1>1. /\ Len(f) \in Nat /\ Len(f) > 0 /\ Len(t) \in Nat /\ Len(t) > 0
      /\ First(t) \in {1, 2} /\ Len(f) \in 1..Len(f)
  BY DEF LevelSeq, First
<1>2. \A i \in 1..Len(t) : t[i] # "#"
  BY LevelsApart
<1>3. "+" # "#"
  OBVIOUS
<1>4. ASSUME NEW i \in 1..Len(t), StandsFor(f, t, i) PROVE f[i] # "#" /\ f[i] \in {"+", t[i]}
  BY <1>2, <1>3, <1>4 DEF StandsFor
<1>5. ASSUME Len(f) = Len(t), \A i \in 1..Len(f) : StandsFor(f, t, i) PROVE topic_matches(f, t)
  <2>1. \A i \in 1..Len(f) : f[i] # "#" /\ f[i] \in {"+", t[i]}
    BY <1>4, <1>5
  <2> QED
    BY <1>5, <2>1 DEF topic_matches
<1>6. ASSUME Len(f) - 1 \in (First(t) - 1)..Len(t), f[Len(f)] = "#",
             \A i \in 1..(Len(f) - 1) : StandsFor(f, t, i)
      PROVE  topic_matches(f, t)
  <2>1. \A i \in 1..(Len(f) - 1) : i \in 1..Len(t) /\ i <= Len(t)
    BY <1>1, <1>6
  <2>2. \A i \in 1..(Len(f) - 1) : f[i] # "#" /\ i <= Len(t) /\ f[i] \in {"+", t[i]}
    BY <1>4, <1>6, <2>1
  <2> QED
    BY <1>1, <1>6, <2>2 DEF topic_matches
<1>7. Fits(f, t) => topic_matches(f, t)
  BY <1>5, <1>6 DEF Fits
<1>8. ASSUME t[1] \notin Spaces, Len(f) = Len(t), \A i \in 1..Len(f) : f[i] # "#" /\ f[i] \in {"+", t[i]}
      PROVE  Fits(f, t)
  <2>1. First(t) = 1
    BY <1>8 DEF First
  <2>2. \A i \in 1..Len(f) : StandsFor(f, t, i)
    BY <1>1, <1>8, <2>1 DEF StandsFor
  <2> QED
    BY <1>8, <2>2 DEF Fits
<1>9. ASSUME t[1] \notin Spaces, NEW h \in 1..Len(f), f[h] = "#",
             \A i \in 1..(h - 1) : f[i] # "#" /\ i <= Len(t) /\ f[i] \in {"+", t[i]}
      PROVE  Fits(f, t)
  <2>1. First(t) = 1 /\ h = Len(f)
    BY <1>9 DEF First, HashLast
  <2>2. \A i \in 1..(Len(f) - 1) : StandsFor(f, t, i)
    BY <1>1, <1>9, <2>1 DEF StandsFor
  <2>3. Len(f) - 1 \in 0..Len(t)
    <3>1. CASE Len(f) = 1
      BY <1>1, <3>1
    <3>2. CASE Len(f) # 1
      <4>1. Len(f) - 1 \in 1..(h - 1)
        BY <1>1, <2>1, <3>2
      <4> QED
        BY <1>1, <1>9, <4>1
    <3> QED
      BY <3>1, <3>2
  <2> QED
    BY <1>9, <2>1, <2>2, <2>3 DEF Fits
<1> QED
  BY <1>7, <1>8, <1>9 DEF topic_matches

-----------------------------------------------------------------------------
Chunks(f) == [i \in 1..Len(f) |-> FilterChunk(f, i)]

\* The topic that stands for what follows the scope in a key.
TopicOf(rest) ==
    IF rest[1] \in {"@sys", "@meta"}
    THEN <<IF rest[1] = "@sys" THEN "$SYS" ELSE "$meta">> \o Tail(rest)
    ELSE rest

\* What follows the scope in a key that clients may hear of: a topic, or
\* at least one level of one of the broker's own spaces.
Public(rest) ==
    /\ rest \in Seq(Chunk)
    /\ Len(rest) > 0
    /\ rest[1] \in {"@sys", "@meta"} => Len(rest) > 1
    /\ rest[1] # "@retained"
    /\ \A i \in 2..Len(rest) : rest[i] \in Names

\* A filter's key reaches a verbatim chunk only at the first level, by name.
LEMMA VerbatimByName ==
    ASSUME NEW f \in LevelSeq, ValidFilter(f), NEW r \in Seq(Chunk), Len(r) > 0,
           ZenohMatches(Chunks(f), r)
    PROVE  /\ \A i \in 2..Len(r) : r[i] \in Names
           /\ r[1] \in Names \cup {"@sys", "@meta"}
<1> DEFINE c == Chunks(f)
           open == c[Len(c)] = "**"
           n == IF open THEN Len(c) - 1 ELSE Len(c)
<1>1. Len(f) \in Nat /\ Len(f) > 0 /\ Len(r) \in Nat /\ Len(c) = Len(f) /\ n \in Nat /\ n <= Len(f)
  BY DEF LevelSeq, Chunks
<1>2. /\ \A i \in 1..n : c[i] = r[i] \/ (c[i] = "*" /\ r[i] \notin Verbatim)
      /\ \A i \in (n + 1)..Len(r) : r[i] \notin Verbatim
  BY DEF ZenohMatches
<1>3. \A i \in 1..Len(f) : c[i] = FilterChunk(f, i)
  BY DEF Chunks
<1> HIDE DEF c, n
<1>4. \A i \in 1..Len(r) : r[i] \in Names \cup Verbatim
  BY DEF Chunk
<1>5. ASSUME NEW i \in 1..Len(r), r[i] \in Verbatim PROVE i = 1 /\ r[i] # "@retained"
  <2>1. i \in 1..n
    BY <1>1, <1>2, <1>5
  <2>2. r[i] = FilterChunk(f, i) /\ i \in 1..Len(f)
    BY <1>1, <1>2, <1>3, <1>5, <2>1
  <2>3. FilterChunk(f, i) \notin {"*", "**"} /\ FilterChunk(f, i) \notin Names
    BY <1>5, <2>2, LevelsApart DEF Verbatim
  <2>4. f[i] \in Spaces /\ i = 1
    BY <2>2, <2>3, ChunkOf DEF ValidFilter
  <2>5. CASE f[i] = "$SYS"
    BY <2>2, <2>4, <2>5 DEF FilterChunk
  <2>6. CASE f[i] = "$meta"
    BY <2>2, <2>4, <2>6 DEF FilterChunk
  <2> QED
    BY <2>4, <2>5, <2>6 DEF Spaces
<1>6. \A i \in 2..Len(r) : r[i] \in Names
  BY <1>1, <1>4, <1>5
<1>7. r[1] \in Names \cup {"@sys", "@meta"}
  <2>1. 1 \in 1..Len(r)
    BY <1>1
  <2> QED
    BY <1>4, <1>5, <2>1 DEF Verbatim
<1> QED
  BY <1>6, <1>7

\* A sequence whose elements are in T.
LEMMA SeqWithin ==
    ASSUME NEW S, NEW T, NEW x \in Seq(S), \A i \in 1..Len(x) : x[i] \in T
    PROVE  x \in Seq(T)
<1>1. Len(x) \in Nat /\ x = [i \in 1..Len(x) |-> x[i]]
  OBVIOUS
<1>2. x \in [1..Len(x) -> T]
  BY <1>1
<1> QED
  BY <1>1, <1>2

\* The topic of a public key.
LEMMA TopicOfPublic ==
    ASSUME NEW r, Public(r)
    PROVE  LET t == TopicOf(r)
           IN  /\ t \in LevelSeq /\ Len(t) = Len(r) /\ t # Invalid
               /\ \A i \in 2..Len(r) : t[i] = r[i]
               /\ r[1] = "@sys" => t[1] = "$SYS"
               /\ r[1] = "@meta" => t[1] = "$meta"
               /\ r[1] \in Names => t = r
               /\ r[1] \in Names \cup {"@sys", "@meta"}
               /\ \A i \in 1..Len(t) : t[i] \in Names \cup Spaces
<1> DEFINE t == TopicOf(r)
           first == IF r[1] = "@sys" THEN "$SYS" ELSE "$meta"
<1>1. r \in Seq(Chunk) /\ Len(r) \in Nat /\ Len(r) > 0 /\ \A i \in 2..Len(r) : r[i] \in Names
  BY DEF Public
<1>2. r[1] \in Names \cup {"@sys", "@meta"}
  <2>1. r[1] \in Names \cup Verbatim
    BY <1>1 DEF Chunk
  <2> QED
    BY <2>1 DEF Public, Verbatim
<1>3. Names \cup Spaces \subseteq Level
  BY TopicAssumption DEF Level
<1>4. Names \cap {"@sys", "@meta"} = {}
  BY LevelsApart DEF Verbatim
<1>5. Invalid \notin LevelSeq
  BY DEF Invalid, LevelSeq
<1>6. CASE r[1] \in Names
  <2>1. t = r
    BY <1>4, <1>6 DEF TopicOf
  <2>2. \A i \in 1..Len(r) : r[i] \in Names
    BY <1>1, <1>6
  <2>3. r \in LevelSeq
    BY <1>1, <1>3, <2>2 DEF LevelSeq
  <2> QED
    BY <1>1, <1>2, <1>4, <1>5, <1>6, <2>1, <2>2, <2>3
<1>7. CASE r[1] \in {"@sys", "@meta"}
  <2>1. t = <<first>> \o Tail(r)
    BY <1>7 DEF TopicOf
  <2>2. first \in Spaces /\ (r[1] = "@sys" => first = "$SYS") /\ (r[1] = "@meta" => first = "$meta")
    BY <1>7 DEF Spaces
  <2>3. Tail(r) \in Seq(Names) /\ Len(Tail(r)) = Len(r) - 1 /\ \A i \in 1..(Len(r) - 1) : Tail(r)[i] = r[i + 1]
    <3>1. Tail(r) \in Seq(Chunk) /\ Len(Tail(r)) = Len(r) - 1 /\ \A i \in 1..(Len(r) - 1) : Tail(r)[i] = r[i + 1]
      BY <1>1
    <3>2. \A i \in 1..(Len(r) - 1) : i + 1 \in 2..Len(r)
      BY <1>1
    <3>3. \A i \in 1..Len(Tail(r)) : Tail(r)[i] \in Names
      BY <1>1, <3>1, <3>2
    <3>4. Tail(r) \in Seq(Names)
      BY <3>1, <3>3, SeqWithin
    <3> QED
      BY <3>1, <3>4
  <2> DEFINE u == Tail(r)
  <2> HIDE DEF first, u, t
  <2>4. <<first>> \in Seq(Names \cup Spaces) /\ u \in Seq(Names \cup Spaces) /\ Len(<<first>>) = 1 /\ <<first>>[1] = first
    BY <2>2, <2>3 DEF u
  <2>5. /\ <<first>> \o u \in Seq(Names \cup Spaces) /\ Len(<<first>> \o u) = 1 + Len(u)
        /\ (<<first>> \o u)[1] = first /\ \A i \in 2..(1 + Len(u)) : (<<first>> \o u)[i] = u[i - 1]
    BY <2>4
  <2>6. Len(t) = Len(r) /\ t[1] = first /\ t \in Seq(Names \cup Spaces)
    BY <1>1, <2>1, <2>3, <2>5 DEF u
  <2>7. \A i \in 2..Len(r) : t[i] = r[i]
    <3> TAKE i \in 2..Len(r)
    <3>1. i - 1 \in 1..(Len(r) - 1) /\ (i - 1) + 1 = i /\ i \in 2..(1 + Len(u))
      BY <1>1, <2>3 DEF u
    <3>2. t[i] = u[i - 1]
      BY <2>1, <2>5, <3>1 DEF u
    <3> QED
      BY <2>3, <3>1, <3>2 DEF u
  <2>8. t \in LevelSeq
    BY <1>1, <1>3, <2>6 DEF LevelSeq
  <2> QED
    BY <1>2, <1>4, <1>5, <1>7, <2>2, <2>6, <2>7, <2>8 DEF t
<1> QED
  BY <1>2, <1>6, <1>7

\* A filter's key matches a public key exactly if the filter matches the
\* key's topic, as the standard has it.
LEMMA ChunksFit ==
    ASSUME NEW f \in LevelSeq, ValidFilter(f), NEW r, Public(r)
    PROVE  ZenohMatches(Chunks(f), r) <=> f \in FiltersOf(TopicOf(r))
<1> DEFINE t == TopicOf(r)
<1>1. /\ t \in LevelSeq /\ Len(t) = Len(r) /\ \A i \in 2..Len(r) : t[i] = r[i]
      /\ r[1] = "@sys" => t[1] = "$SYS"
      /\ r[1] = "@meta" => t[1] = "$meta"
      /\ r[1] \in Names => t = r
      /\ r[1] \in Names \cup {"@sys", "@meta"}
      /\ \A i \in 1..Len(t) : t[i] \in Names \cup Spaces
  BY TopicOfPublic
<1> HIDE DEF t
<1>2. HashLast(f)
  <2>1. \A i \in 1..Len(f) : f[i] = "#" => f[i] \notin Names \cup Spaces /\ f[i] # "+"
    BY LevelsApart
  <2> QED
    BY <2>1 DEF HashLast, ValidFilter
<1>3. f \in FiltersOf(t) <=> Fits(f, t)
  BY <1>1, FiltersFit
<1>4. CASE r[1] \in Names
  <2>1. ValidTopic(r) /\ t = r
    <3>1. \A i \in 1..Len(r) : i = 1 \/ i \in 2..Len(r)
      BY <1>1 DEF LevelSeq
    <3> QED
      BY <1>1, <1>4, <3>1 DEF ValidTopic, Public
  <2>2. ZenohMatches(Chunks(f), r) <=> topic_matches(f, r)
    BY <1>1, <2>1, MatchUnscoped DEF Chunks
  <2>3. t[1] \notin Spaces
    BY <1>4, <2>1, LevelsApart
  <2> QED
    BY <1>1, <1>2, <1>3, <2>1, <2>2, <2>3, FitsMatches DEF t
<1>5. CASE r[1] \in {"@sys", "@meta"}
  <2> DEFINE c == Chunks(f)
             open == c[Len(c)] = "**"
             n == IF open THEN Len(c) - 1 ELSE Len(c)
  <2>1. Len(f) \in Nat /\ Len(f) > 0 /\ Len(r) \in Nat /\ Len(r) > 1 /\ Len(c) = Len(f) /\ Len(f) \in 1..Len(f)
    BY <1>5 DEF LevelSeq, Chunks, Public
  <2>2. \A i \in 1..Len(f) : c[i] = FilterChunk(f, i)
    BY DEF Chunks
  <2>3. open <=> f[Len(f)] = "#"
    <3>1. CASE f[Len(f)] = "#"
      BY <2>1, <2>2, <3>1, ChunkOf
    <3>2. CASE f[Len(f)] # "#"
      <4>1. f[Len(f)] \in Names \/ f[Len(f)] = "+" \/ f[Len(f)] \in Spaces
        BY <2>1, <3>2 DEF ValidFilter
      <4>2. FilterChunk(f, Len(f)) \in Names \cup {"*"} \cup Verbatim
        BY <2>1, <4>1, ChunkOf
      <4>3. "**" \notin Names \cup {"*"} \cup Verbatim
        <5>1. "**" \notin Verbatim /\ "**" # "*"
          BY DEF Verbatim
        <5> QED
          BY <5>1, LevelsApart
      <4> QED
        BY <2>1, <2>2, <3>2, <4>2, <4>3
    <3> QED
      BY <3>1, <3>2
  <2>4. n = IF f[Len(f)] = "#" THEN Len(f) - 1 ELSE Len(f)
    BY <2>1, <2>3
  <2>5. ZenohMatches(c, r)
          <=> /\ IF open THEN n <= Len(r) ELSE n = Len(r)
              /\ \A i \in 1..n : c[i] = r[i] \/ (c[i] = "*" /\ r[i] \notin Verbatim)
              /\ \A i \in (n + 1)..Len(r) : r[i] \notin Verbatim
    BY DEF ZenohMatches
  <2>6. First(t) = 2 /\ r[1] \in Verbatim /\ t[1] \in Spaces
    BY <1>1, <1>5 DEF First, Spaces, Verbatim
  <2>7. ASSUME NEW i \in 1..Len(f), i \in 1..Len(r)
        PROVE  (c[i] = r[i] \/ (c[i] = "*" /\ r[i] \notin Verbatim)) <=> StandsFor(f, t, i)
    <3>1. CASE i = 1
      <4>1. (c[1] = r[1] \/ (c[1] = "*" /\ r[1] \notin Verbatim)) <=> FilterChunk(f, 1) = r[1]
        BY <2>2, <2>6, <2>7, <3>1
      <4>2. StandsFor(f, t, 1) <=> f[1] = t[1]
        BY <2>6 DEF StandsFor
      <4>3. FilterChunk(f, 1) = r[1] <=> f[1] = t[1]
        <5>1. ASSUME f[1] = t[1] PROVE FilterChunk(f, 1) = r[1]
          <6>1. CASE r[1] = "@sys"
            BY <1>1, <5>1, <6>1 DEF FilterChunk
          <6>2. CASE r[1] = "@meta"
            BY <1>1, <5>1, <6>2 DEF FilterChunk
          <6> QED
            BY <1>5, <6>1, <6>2
        <5>2. ASSUME FilterChunk(f, 1) = r[1] PROVE f[1] = t[1]
          <6>1. FilterChunk(f, 1) \notin {"*", "**"} /\ FilterChunk(f, 1) \notin Names
            BY <2>6, <5>2, LevelsApart DEF Verbatim
          <6>2. f[1] \in Spaces
            BY <2>7, <3>1, <6>1, ChunkOf DEF ValidFilter
          <6>3. CASE f[1] = "$SYS"
            <7>1. FilterChunk(f, 1) = "@sys"
              BY <6>3 DEF FilterChunk
            <7> QED
              BY <1>1, <5>2, <6>3, <7>1
          <6>4. CASE f[1] = "$meta"
            <7>1. FilterChunk(f, 1) = "@meta"
              BY <6>4 DEF FilterChunk
            <7> QED
              BY <1>1, <5>2, <6>4, <7>1
          <6> QED
            BY <6>2, <6>3, <6>4 DEF Spaces
        <5> QED
          BY <5>1, <5>2
      <4> QED
        BY <3>1, <4>1, <4>2, <4>3
    <3>2. CASE i # 1
      <4>1. i \in 2..Len(r) /\ r[i] \in Names /\ t[i] = r[i] /\ i >= First(t)
        BY <1>1, <2>1, <2>6, <2>7, <3>2 DEF Public
      <4>2. (FilterChunk(f, i) = r[i] \/ (FilterChunk(f, i) = "*" /\ r[i] \notin Verbatim)) <=> f[i] \in {"+", r[i]}
        BY <2>7, <4>1, ChunkMatches
      <4> QED
        BY <2>2, <4>1, <4>2 DEF StandsFor
    <3> QED
      BY <3>1, <3>2
  <2>8. \A i \in 2..Len(r) : r[i] \notin Verbatim
    BY LevelsApart DEF Public
  <2> HIDE DEF c, open, n
  <2>9. CASE f[Len(f)] = "#"
    <3>1. n = Len(f) - 1 /\ open
      BY <2>3, <2>4, <2>9
    <3>2. (\A i \in (n + 1)..Len(r) : r[i] \notin Verbatim) <=> n >= 1
      BY <2>1, <2>6, <2>8, <3>1
    <3>3. n <= Len(r) => ((\A i \in 1..n : c[i] = r[i] \/ (c[i] = "*" /\ r[i] \notin Verbatim))
                            <=> \A i \in 1..n : StandsFor(f, t, i))
      <4>1. n <= Len(r) => \A i \in 1..n : i \in 1..Len(f) /\ i \in 1..Len(r)
        BY <2>1, <3>1
      <4> QED
        BY <2>7, <4>1
    <3>4. ZenohMatches(c, r) <=> n <= Len(r) /\ n >= 1 /\ \A i \in 1..n : StandsFor(f, t, i)
      BY <2>5, <3>1, <3>2, <3>3
    <3>5. Len(f) = Len(t) => ~StandsFor(f, t, Len(f))
      <4>1. t[Len(t)] # "#" /\ "#" # "+"
        BY <1>1, <2>1, LevelsApart
      <4> QED
        BY <2>9, <4>1 DEF StandsFor
    <3>6. Fits(f, t) <=> n <= Len(r) /\ n >= 1 /\ \A i \in 1..n : StandsFor(f, t, i)
      <4>1. Len(f) - 1 \in (First(t) - 1)..Len(t) <=> n <= Len(r) /\ n >= 1
        BY <1>1, <2>1, <2>6, <3>1
      <4> QED
        BY <2>1, <2>9, <3>1, <3>5, <4>1 DEF Fits
    <3> QED
      BY <1>3, <3>4, <3>6 DEF c, t
  <2>10. CASE f[Len(f)] # "#"
    <3>1. n = Len(f) /\ ~open
      BY <2>3, <2>4, <2>10
    <3>2. n = Len(r) => \A i \in (n + 1)..Len(r) : r[i] \notin Verbatim
      BY <2>1, <2>8, <3>1
    <3>3. n = Len(r) => ((\A i \in 1..n : c[i] = r[i] \/ (c[i] = "*" /\ r[i] \notin Verbatim))
                           <=> \A i \in 1..n : StandsFor(f, t, i))
      BY <2>7, <3>1
    <3>4. ZenohMatches(c, r) <=> n = Len(r) /\ \A i \in 1..n : StandsFor(f, t, i)
      BY <2>5, <3>1, <3>2, <3>3
    <3>5. Fits(f, t) <=> n = Len(r) /\ \A i \in 1..n : StandsFor(f, t, i)
      BY <1>1, <2>10, <3>1 DEF Fits
    <3> QED
      BY <1>3, <3>4, <3>5 DEF c, t
  <2> QED
    BY <2>9, <2>10
<1> QED
  BY <1>1, <1>4, <1>5

-----------------------------------------------------------------------------
\* What is left of a key without its scope.
LEMMA StripIs ==
    ASSUME NEW S, NEW key \in Seq(S), NEW s \in Seq(S), strip_scope(key, s) # Invalid
    PROVE  LET rest == strip_scope(key, s)
           IN  rest \in Seq(S) /\ Len(rest) > 0 /\ key = s \o rest
<1> DEFINE n == Len(s)
           rest == SubSeq(key, n + 1, Len(key))
<1>1. Len(s) < Len(key) /\ SubSeq(key, 1, n) = s /\ strip_scope(key, s) = rest
  BY DEF strip_scope
<1>2. n \in Nat /\ Len(key) \in Nat
  OBVIOUS
<1>3. /\ rest \in Seq(S) /\ Len(rest) = Len(key) - n
      /\ \A i \in 1..(Len(key) - n) : rest[i] = key[n + i]
  BY <1>1, <1>2
<1>4. \A i \in 1..n : s[i] = key[i]
  BY <1>1, <1>2
<1> HIDE DEF rest
<1>5. /\ s \o rest \in Seq(S) /\ Len(s \o rest) = n + Len(rest)
      /\ \A i \in 1..(n + Len(rest)) : (s \o rest)[i] = IF i <= n THEN s[i] ELSE rest[i - n]
  BY <1>3
<1>6. Len(s \o rest) = Len(key)
  BY <1>2, <1>3, <1>5
<1>7. ASSUME NEW i \in 1..Len(key) PROVE (s \o rest)[i] = key[i]
  <2>1. CASE i <= n
    BY <1>2, <1>4, <1>5, <1>6, <2>1
  <2>2. CASE ~(i <= n)
    <3>1. i - n \in 1..(Len(key) - n) /\ n + (i - n) = i
      BY <1>2, <2>2
    <3> QED
      BY <1>3, <1>5, <1>6, <2>2, <3>1
  <2> QED
    BY <2>1, <2>2
<1>8. key = s \o rest
  <2> DEFINE w == s \o rest
  <2>1. w \in Seq(S) /\ Len(w) = Len(key) /\ \A i \in 1..Len(key) : w[i] = key[i]
    BY <1>5, <1>6, <1>7
  <2> HIDE DEF w
  <2>2. w = key
    BY <2>1
  <2> QED
    BY <2>2 DEF w
<1> QED
  BY <1>1, <1>2, <1>3, <1>8

\* The chunks of a filter's key.
LEMMA ChunksType ==
    ASSUME NEW f \in LevelSeq, ValidFilter(f)
    PROVE  Chunks(f) \in Seq(Names \cup Verbatim \cup {"*", "**"}) /\ Len(Chunks(f)) > 0
<1>1. \A i \in 1..Len(f) : FilterChunk(f, i) \in Names \cup Verbatim \cup {"*", "**"}
  <2> TAKE i \in 1..Len(f)
  <2>1. f[i] \in Names \/ f[i] = "+" \/ f[i] = "#" \/ f[i] \in Spaces
    BY DEF ValidFilter
  <2> QED
    BY <2>1, ChunkOf
<1>2. Len(f) \in Nat /\ Len(f) > 0
  BY DEF LevelSeq
<1>3. Chunks(f) \in [1..Len(f) -> Names \cup Verbatim \cup {"*", "**"}]
  BY <1>1 DEF Chunks
<1> QED
  BY <1>2, <1>3

\* Under one scope, a filter's key matches a key as their chunks do.
LEMMA ScopedMatch ==
    ASSUME NEW s \in Seq(Names), NEW f \in LevelSeq, filter_to_keyexpr(f, s) # Invalid,
           NEW r \in Seq(Chunk)
    PROVE  /\ ValidFilter(f)
           /\ ZenohMatches(filter_to_keyexpr(f, s), s \o r) <=> ZenohMatches(Chunks(f), r)
<1> DEFINE S == Names \cup Verbatim \cup {"*", "**"}
<1>1. ValidFilter(f) /\ filter_to_keyexpr(f, s) = s \o Chunks(f)
  BY FilterAccepted DEF Chunks
<1>2. Chunks(f) \in Seq(S) /\ Len(Chunks(f)) > 0
  BY <1>1, ChunksType
<1>3. s \in Seq(S) /\ r \in Seq(S)
  <2>1. \A i \in 1..Len(s) : s[i] \in S
    OBVIOUS
  <2>2. \A i \in 1..Len(r) : r[i] \in S
    BY DEF Chunk
  <2> HIDE DEF S
  <2> QED
    BY <2>1, <2>2, SeqWithin
<1> HIDE DEF S
<1> QED
  BY <1>1, <1>2, <1>3, ScopeShift

\* Whatever key reaches a subscription and yields a topic: the topic is of
\* the form that clients may hear of, and the filter matches it.
LEMMA Heard ==
    ASSUME NEW key \in Seq(Chunk), NEW s \in Seq(Names), NEW f \in LevelSeq,
           filter_to_keyexpr(f, s) # Invalid, keyexpr_to_topic(key, s) # Invalid,
           ZenohMatches(filter_to_keyexpr(f, s), key)
    PROVE  LET rest == strip_scope(key, s)
           IN  /\ rest # Invalid /\ Public(rest) /\ key = s \o rest
               /\ keyexpr_to_topic(key, s) = TopicOf(rest)
               /\ f \in FiltersOf(TopicOf(rest)) /\ HashLast(f)
<1> DEFINE rest == strip_scope(key, s)
<1>1. rest # Invalid
  BY DEF keyexpr_to_topic
<1>2. s \in Seq(Chunk)
  <2>1. \A i \in 1..Len(s) : s[i] \in Chunk
    BY DEF Chunk
  <2> QED
    BY <2>1, SeqWithin
<1>3. rest \in Seq(Chunk) /\ Len(rest) > 0 /\ key = s \o rest
  BY <1>1, <1>2, StripIs
<1>4. /\ ~(rest[1] \in {"@sys", "@meta"} /\ Len(rest) = 1)
      /\ rest[1] # "@retained"
      /\ keyexpr_to_topic(key, s) = TopicOf(rest)
  <2>1. CASE rest[1] \in {"@sys", "@meta"}
    <3>1. "@retained" \notin {"@sys", "@meta"}
      OBVIOUS
    <3>2. keyexpr_to_topic(key, s) =
            IF Len(rest) = 1 THEN Invalid
            ELSE <<IF rest[1] = "@sys" THEN "$SYS" ELSE "$meta">> \o Tail(rest)
      BY <1>1, <2>1, <3>1 DEF keyexpr_to_topic
    <3> QED
      BY <2>1, <3>1, <3>2 DEF TopicOf
  <2>2. CASE rest[1] = "@retained"
    <3>1. "@retained" \notin {"@sys", "@meta"}
      OBVIOUS
    <3>2. keyexpr_to_topic(key, s) = Invalid
      BY <1>1, <2>2, <3>1 DEF keyexpr_to_topic
    <3> QED
      BY <3>2
  <2>3. CASE rest[1] \notin {"@sys", "@meta"} /\ rest[1] # "@retained"
    <3>1. keyexpr_to_topic(key, s) = rest
      BY <1>1, <2>3 DEF keyexpr_to_topic
    <3> QED
      BY <2>3, <3>1 DEF TopicOf
  <2> QED
    BY <2>1, <2>2, <2>3
<1> HIDE DEF rest
<1>5. ValidFilter(f) /\ ZenohMatches(Chunks(f), rest)
  BY <1>3, ScopedMatch
<1>6. Public(rest)
  <2>1. \A i \in 2..Len(rest) : rest[i] \in Names
    BY <1>3, <1>5, VerbatimByName
  <2>2. Len(rest) # 1 => Len(rest) > 1
    <3>1. rest \in Seq(Chunk) /\ Len(rest) > 0
      BY <1>3
    <3>2. Len(rest) \in Nat
      BY <3>1
    <3>3. \A k \in Nat : k > 0 /\ k # 1 => k > 1
      OBVIOUS
    <3> QED
      BY <3>1, <3>2, <3>3, Zenon
  <2> QED
    BY <1>3, <1>4, <2>1, <2>2 DEF Public
<1>7. f \in FiltersOf(TopicOf(rest))
  BY <1>5, <1>6, ChunksFit
<1>8. HashLast(f)
  <2>1. \A i \in 1..Len(f) : f[i] = "#" => f[i] \notin Names \cup Spaces /\ f[i] # "+"
    BY LevelsApart
  <2> QED
    BY <1>5, <2>1 DEF HashLast, ValidFilter
<1> QED
  BY <1>1, <1>3, <1>4, <1>6, <1>7, <1>8 DEF rest

\* Under the scope it was put in, a public key yields its topic, to the
\* filters that match it and to no other.
LEMMA OwnScope ==
    ASSUME NEW s \in Seq(Names), NEW r, Public(r)
    PROVE  /\ keyexpr_to_topic(s \o r, s) = TopicOf(r) /\ TopicOf(r) # Invalid
           /\ \A f \in LevelSeq : filter_to_keyexpr(f, s) # Invalid =>
                (ZenohMatches(filter_to_keyexpr(f, s), s \o r) <=> f \in FiltersOf(TopicOf(r)))
<1>1. r \in Seq(Chunk) /\ Len(r) > 0 /\ TopicOf(r) # Invalid
  BY TopicOfPublic DEF Public
<1>2. s \in Seq(Chunk)
  <2>1. \A i \in 1..Len(s) : s[i] \in Chunk
    BY DEF Chunk
  <2> QED
    BY <2>1, SeqWithin
<1>3. strip_scope(s \o r, s) = r
  BY <1>1, <1>2, StripScoped
<1>4. r # Invalid
  BY <1>1 DEF Invalid
<1>5. keyexpr_to_topic(s \o r, s) = TopicOf(r)
  <2>1. CASE r[1] \in {"@sys", "@meta"}
    BY <1>3, <1>4, <2>1 DEF keyexpr_to_topic, TopicOf, Public
  <2>2. CASE r[1] \notin {"@sys", "@meta"}
    BY <1>3, <1>4, <2>2 DEF keyexpr_to_topic, TopicOf, Public
  <2> QED
    BY <2>1, <2>2
<1>6. ASSUME NEW f \in LevelSeq, filter_to_keyexpr(f, s) # Invalid
      PROVE  ZenohMatches(filter_to_keyexpr(f, s), s \o r) <=> f \in FiltersOf(TopicOf(r))
  <2>1. ValidFilter(f) /\ (ZenohMatches(filter_to_keyexpr(f, s), s \o r) <=> ZenohMatches(Chunks(f), r))
    BY <1>1, <1>6, ScopedMatch
  <2> QED
    BY <2>1, ChunksFit
<1> QED
  BY <1>1, <1>5, <1>6

\* Neither scope lies inside the other.
Disjoint(a, b) == \E j \in 1..Len(a) : j <= Len(b) /\ a[j] # b[j]

\* A key of a disjoint scope yields no topic, live or retained.
LEMMA OtherScope ==
    ASSUME NEW a \in Seq(Names), NEW b \in Seq(Names), Disjoint(a, b), NEW r \in Seq(Chunk)
    PROVE  keyexpr_to_topic(b \o r, a) = Invalid /\ retained_keyexpr_to_topic(b \o r, a) = Invalid
<1>1. PICK j \in 1..Len(a) : j <= Len(b) /\ a[j] # b[j]
  BY DEF Disjoint
<1>2. strip_scope(b \o r, a) = Invalid
  <2> SUFFICES ASSUME strip_scope(b \o r, a) # Invalid PROVE FALSE
    OBVIOUS
  <2>1. \A i \in 1..Len(a) : a[i] \in Chunk
    BY DEF Chunk
  <2>2. \A i \in 1..Len(b) : b[i] \in Chunk
    BY DEF Chunk
  <2>3. a \in Seq(Chunk) /\ b \in Seq(Chunk)
    BY <2>1, <2>2, SeqWithin
  <2>4. b \o r \in Seq(Chunk)
    BY <2>3
  <2> DEFINE rest == strip_scope(b \o r, a)
  <2>5. rest \in Seq(Chunk) /\ b \o r = a \o rest
    BY <2>3, <2>4, StripIs
  <2> HIDE DEF rest
  <2>6. j \in 1..Len(b) /\ (b \o r)[j] = b[j] /\ (a \o rest)[j] = a[j]
    BY <1>1, <2>3, <2>5
  <2> QED
    BY <1>1, <2>5, <2>6
<1> QED
  BY <1>2 DEF keyexpr_to_topic, retained_keyexpr_to_topic

-----------------------------------------------------------------------------
(***************************************************************************)
(* The inductive invariant: what is subscribed to was accepted and         *)
(* granted, and what is retained has a plain topic.                        *)
(***************************************************************************)
SubsInv(s) ==
    \A c \in Clients : \A f \in s[c] :
       f \in LevelSeq /\ filter_to_keyexpr(f, Scope(c)) # Invalid /\ may_subscribe(User[c], f)

PlainTopic(t) == t \in LevelSeq /\ ValidTopic(t)

StoreInv == \A n \in Nodes : \A e \in stored[n] : PlainTopic(e.topic) /\ e.at \in Nat

RoutingInv == SubsInv(subs) /\ StoreInv /\ clock \in Nat /\ DOMAIN subs = Clients

\* Scopes are sequences of names, and so of chunks.
LEMMA ScopeType ==
    /\ \A n \in Nodes : ScopeOf[n] \in Seq(Names)
    /\ \A c \in Clients : Home[c] \in Nodes /\ Scope(c) = ScopeOf[Home[c]] /\ Scope(c) \in Seq(Names)
    /\ \A s \in Seq(Names) : s \in Seq(Chunk)
<1>1. \A n \in Nodes : ScopeOf[n] \in Seq(Names)
  BY RoutingAssumption
<1>2. \A c \in Clients : Home[c] \in Nodes /\ Scope(c) = ScopeOf[Home[c]]
  BY RoutingAssumption DEF Scope
<1>3. ASSUME NEW s \in Seq(Names) PROVE s \in Seq(Chunk)
  <2>1. \A i \in 1..Len(s) : s[i] \in Chunk
    BY DEF Chunk
  <2> QED
    BY <2>1, SeqWithin
<1> QED
  BY <1>1, <1>2, <1>3

\* A plain topic is a public key and its own topic.
LEMMA PlainPublic ==
    ASSUME NEW t, PlainTopic(t)
    PROVE  /\ t \in Seq(Names) /\ t \in Seq(Chunk) /\ Public(t) /\ TopicOf(t) = t /\ t # << >>
           /\ \A i \in 1..Len(t) : t[i] \in Names
           /\ t[1] \in Names /\ t[1] \notin Spaces
<1>1. t \in Seq(Level) /\ Len(t) \in Nat /\ Len(t) > 0 /\ \A i \in 1..Len(t) : t[i] \in Names
  BY DEF PlainTopic, LevelSeq, ValidTopic
<1>2. t \in Seq(Names) /\ t[1] \in Names /\ \A i \in 2..Len(t) : t[i] \in Names
  <2>1. t \in Seq(Names)
    BY <1>1, SeqWithin
  <2> QED
    BY <1>1, <2>1
<1>3. t[1] \notin Verbatim /\ t[1] \notin Spaces
  BY <1>2, LevelsApart
<1>4. t \in Seq(Chunk)
  BY <1>2, ScopeType
<1>5. Public(t)
  BY <1>1, <1>2, <1>3, <1>4 DEF Public, Verbatim
<1>6. TopicOf(t) = t
  BY <1>3 DEF TopicOf, Verbatim
<1> QED
  BY <1>1, <1>2, <1>3, <1>4, <1>5, <1>6

\* The keys of the broker's own spaces are public, and their topics lie in
\* the space.
LEMMA SpacePublic ==
    ASSUME NEW x \in Seq(Names), x # << >>
    PROVE  /\ Public(<<"@sys">> \o x) /\ TopicOf(<<"@sys">> \o x) = <<"$SYS">> \o x
           /\ Public(<<"@meta">> \o x) /\ TopicOf(<<"@meta">> \o x) = <<"$meta">> \o x
<1>1. Len(x) \in Nat /\ Len(x) > 0
  OBVIOUS
<1>2. ASSUME NEW v \in {"@sys", "@meta"}
      PROVE  Public(<<v>> \o x) /\ Tail(<<v>> \o x) = x /\ (<<v>> \o x)[1] = v
  <2> DEFINE w == <<v>> \o x
  <2>1. <<v>> \in Seq(Chunk) /\ x \in Seq(Chunk) /\ Len(<<v>>) = 1 /\ <<v>>[1] = v
    BY ScopeType DEF Chunk, Verbatim
  <2>2. /\ w \in Seq(Chunk) /\ Len(w) = 1 + Len(x) /\ w[1] = v
        /\ \A i \in 2..(1 + Len(x)) : w[i] = x[i - 1]
    BY <1>1, <2>1
  <2> HIDE DEF w
  <2>3. ASSUME NEW i \in 2..Len(w) PROVE w[i] \in Names
    <3>1. i - 1 \in 1..Len(x)
      BY <1>1, <2>2
    <3>2. x[i - 1] \in Names
      BY <3>1
    <3> QED
      BY <2>2, <3>2
  <2>4. /\ Tail(w) \in Seq(Chunk) /\ Len(Tail(w)) = Len(x)
        /\ \A i \in 1..Len(x) : Tail(w)[i] = w[i + 1] /\ i + 1 \in 2..(1 + Len(x)) /\ (i + 1) - 1 = i
    BY <1>1, <2>2
  <2>5. Tail(w) = x
    <3>1. \A i \in 1..Len(x) : Tail(w)[i] = x[i]
      BY <2>2, <2>4
    <3> QED
      BY <2>1, <2>4, <3>1
  <2>6. Public(w)
    <3>1. v # "@retained" /\ Len(w) > 1 /\ Len(w) > 0
      BY <1>1, <2>2
    <3> QED
      BY <2>2, <2>3, <3>1 DEF Public
  <2> QED
    BY <2>2, <2>5, <2>6 DEF w
<1>3. "@sys" # "@meta"
  OBVIOUS
<1> QED
  BY <1>2, <1>3 DEF TopicOf

\* Every copy that a put delivers is of a topic that clients may hear of,
\* and one of the receiver's filters matches it.
LEMMA RelayedSound ==
    ASSUME NEW s, SubsInv(s), NEW key \in Seq(Chunk), NEW m \in Relayed(key, s)
    PROVE  /\ m.to \in Clients /\ m.retain = FALSE
           /\ \E f \in s[m.to] : f \in FiltersOf(m.topic) /\ HashLast(f)
           /\ \E rest : Public(rest) /\ key = Scope(m.to) \o rest /\ m.topic = TopicOf(rest)
<1>1. PICK c \in Clients :
         /\ keyexpr_to_topic(key, Scope(c)) # Invalid
         /\ \E f \in s[c] : ZenohMatches(filter_to_keyexpr(f, Scope(c)), key)
         /\ m = [to |-> c, topic |-> keyexpr_to_topic(key, Scope(c)), retain |-> FALSE]
  BY DEF Relayed
<1>2. m.to = c /\ m.topic = keyexpr_to_topic(key, Scope(c)) /\ m.retain = FALSE
  BY <1>1
<1>3. PICK f \in s[c] : ZenohMatches(filter_to_keyexpr(f, Scope(c)), key)
  BY <1>1
<1>4. f \in LevelSeq /\ filter_to_keyexpr(f, Scope(c)) # Invalid /\ Scope(c) \in Seq(Names)
  BY ScopeType DEF SubsInv
<1> DEFINE rest == strip_scope(key, Scope(c))
<1>5. /\ Public(rest) /\ key = Scope(c) \o rest /\ keyexpr_to_topic(key, Scope(c)) = TopicOf(rest)
      /\ f \in FiltersOf(TopicOf(rest)) /\ HashLast(f)
  BY <1>1, <1>3, <1>4, Heard
<1> HIDE DEF rest
<1> QED
  BY <1>2, <1>5

\* A filter that matches the topic of a public key matches it by
\* topic_matches, and names the space if the topic lies in one.
LEMMA PublicFits ==
    ASSUME NEW rest, Public(rest), NEW f \in LevelSeq, HashLast(f), f \in FiltersOf(TopicOf(rest))
    PROVE  /\ topic_matches(f, TopicOf(rest)) /\ TopicOf(rest) \in LevelSeq
           /\ TopicOf(rest)[1] \in Spaces => f[1] = TopicOf(rest)[1]
<1> DEFINE t == TopicOf(rest)
<1>1. t \in LevelSeq /\ \A i \in 1..Len(t) : t[i] \in Names \cup Spaces
  BY TopicOfPublic
<1> HIDE DEF t
<1>2. Fits(f, t)
  BY <1>1, FiltersFit DEF t
<1>3. topic_matches(f, t)
  BY <1>1, <1>2, FitsMatches
<1>4. ASSUME t[1] \in Spaces PROVE f[1] = t[1]
  <2>1. Len(f) \in Nat /\ Len(f) > 0 /\ Len(t) \in Nat /\ First(t) = 2
    BY <1>1, <1>4 DEF LevelSeq, First
  <2>2. StandsFor(f, t, 1)
    BY <1>2, <2>1 DEF Fits
  <2> QED
    BY <2>1, <2>2 DEF StandsFor
<1> QED
  BY <1>1, <1>3, <1>4 DEF t

ScopesDisjoint == \A n, o \in Nodes : ScopeOf[n] = ScopeOf[o] \/ Disjoint(ScopeOf[n], ScopeOf[o])

\* With disjoint scopes, a put under a node's scope delivers its topic to
\* exactly the clients of that scope with a filter for it.
LEMMA RelayedExact ==
    ASSUME ScopesDisjoint, NEW s, SubsInv(s), NEW n \in Nodes, NEW r, Public(r)
    PROVE  {<<m.to, m.topic>> : m \in Relayed(ScopeOf[n] \o r, s)}
             = {c \in Clients : Scope(c) = ScopeOf[n] /\ s[c] \cap FiltersOf(TopicOf(r)) # {}}
                 \X {TopicOf(r)}
<1> DEFINE t == TopicOf(r)
           key == ScopeOf[n] \o r
           D == {d \in Clients :
                   /\ keyexpr_to_topic(key, Scope(d)) # Invalid
                   /\ \E f \in s[d] : ZenohMatches(filter_to_keyexpr(f, Scope(d)), key)}
           E == {c \in Clients : Scope(c) = ScopeOf[n] /\ s[c] \cap FiltersOf(t) # {}}
<1>1. ScopeOf[n] \in Seq(Names) /\ r \in Seq(Chunk)
  BY ScopeType DEF Public
<1>2. ASSUME NEW d \in Clients PROVE /\ d \in D <=> d \in E
                                     /\ d \in D => keyexpr_to_topic(key, Scope(d)) = t
  <2>1. Scope(d) \in Seq(Names) /\ (Scope(d) = ScopeOf[n] \/ Disjoint(Scope(d), ScopeOf[n]))
    BY ScopeType DEF ScopesDisjoint
  <2>2. CASE Scope(d) = ScopeOf[n]
    <3>1. /\ keyexpr_to_topic(key, Scope(d)) = t /\ t # Invalid
          /\ \A f \in LevelSeq : filter_to_keyexpr(f, Scope(d)) # Invalid =>
               (ZenohMatches(filter_to_keyexpr(f, Scope(d)), key) <=> f \in FiltersOf(t))
      BY <2>1, <2>2, OwnScope
    <3>2. \A f \in s[d] : ZenohMatches(filter_to_keyexpr(f, Scope(d)), key) <=> f \in FiltersOf(t)
      BY <3>1 DEF SubsInv
    <3> HIDE DEF t, key
    <3> QED
      BY <2>2, <3>1, <3>2
  <2>3. CASE Disjoint(Scope(d), ScopeOf[n])
    <3>1. keyexpr_to_topic(key, Scope(d)) = Invalid
      BY <1>1, <2>1, <2>3, OtherScope
    <3>2. Scope(d) # ScopeOf[n]
      BY <2>3 DEF Disjoint
    <3> QED
      BY <3>1, <3>2
  <2> QED
    BY <2>1, <2>2, <2>3
<1>3. Relayed(key, s) = {[to |-> c, topic |-> keyexpr_to_topic(key, Scope(c)), retain |-> FALSE] : c \in D}
  BY DEF Relayed
<1>4. D = E
  BY <1>2
<1>5. D \subseteq Clients
  OBVIOUS
<1> HIDE DEF D, E, t, key
<1>6. {<<m.to, m.topic>> : m \in Relayed(key, s)} = {<<c, t>> : c \in D}
  <2>1. \A c \in D : keyexpr_to_topic(key, Scope(c)) = t
    BY <1>2, <1>5
  <2>2. ASSUME NEW c \in D PROVE <<c, t>> \in {<<m.to, m.topic>> : m \in Relayed(key, s)}
    <3> DEFINE m == [to |-> c, topic |-> keyexpr_to_topic(key, Scope(c)), retain |-> FALSE]
    <3>1. m \in Relayed(key, s)
      BY <1>3
    <3>2. <<c, t>> = <<m.to, m.topic>>
      BY <2>1
    <3> HIDE DEF m
    <3> QED
      BY <3>1, <3>2
  <2>3. ASSUME NEW m \in Relayed(key, s) PROVE <<m.to, m.topic>> \in {<<c, t>> : c \in D}
    BY <1>3, <2>1
  <2> QED
    BY <2>2, <2>3
<1>7. {<<c, t>> : c \in D} = D \X {t}
  OBVIOUS
<1> QED
  BY <1>4, <1>6, <1>7 DEF D, E, t, key

-----------------------------------------------------------------------------
Handed(c, f) == {[to |-> c, topic |-> e.topic, retain |-> TRUE] : e \in matching(c, f)}

Flagged(c, f, s) ==
    UNION {Relayed(meta_keyexpr(e.topic, Scope(c)), s) : e \in {m \in matching(c, f) : Stale(m)}}

\* What a subscription changes.
LEMMA SubscribeEffect ==
    ASSUME RoutingInv, NEW c \in Clients, NEW f \in FilterNames, Subscribe(c, f)
    PROVE  /\ f \in LevelSeq /\ filter_to_keyexpr(f, Scope(c)) # Invalid /\ may_subscribe(User[c], f)
           /\ SubsInv(subs') /\ DOMAIN subs' = Clients /\ f \in subs'[c]
           /\ stored' = stored /\ clock' = clock
           /\ sent'.kind = "subscribe" /\ sent'.by = c /\ sent'.name = f
           /\ sent'.copies = (Relayed(Event(c), subs') \cup Handed(c, f)) \cup Flagged(c, f, subs')
<1>1. f \in LevelSeq
  BY RoutingAssumption
<1>2. /\ filter_to_keyexpr(f, Scope(c)) # Invalid /\ may_subscribe(User[c], f)
      /\ subs' = [subs EXCEPT ![c] = @ \cup {f}] /\ stored' = stored /\ clock' = clock
      /\ sent' = [kind |-> "subscribe", by |-> c, name |-> f,
                  copies |-> UNION {Relayed(Event(c), subs'), Handed(c, f), Flagged(c, f, subs')}]
  BY DEF Subscribe, Done, Handed, Flagged
<1>3. /\ DOMAIN subs' = Clients /\ subs'[c] = subs[c] \cup {f}
      /\ \A d \in Clients : d # c => subs'[d] = subs[d]
  BY <1>2 DEF RoutingInv
<1>4. SubsInv(subs')
  BY <1>1, <1>2, <1>3 DEF RoutingInv, SubsInv
<1>5. sent'.copies = UNION {Relayed(Event(c), subs'), Handed(c, f), Flagged(c, f, subs')}
  BY <1>2
<1>6. UNION {Relayed(Event(c), subs'), Handed(c, f), Flagged(c, f, subs')}
        = (Relayed(Event(c), subs') \cup Handed(c, f)) \cup Flagged(c, f, subs')
  OBVIOUS
<1> QED
  BY <1>1, <1>2, <1>3, <1>4, <1>5, <1>6

\* What a retained write leaves at a node.
LEMMA AppliedPlain ==
    ASSUME RoutingInv, NEW n \in Nodes, NEW s \in Seq(Names), NEW t, PlainTopic(t), NEW keep,
           NEW e \in Applied(n, retained_keyexpr(t, s), keep)
    PROVE  PlainTopic(e.topic) /\ e.at \in Nat
<1> DEFINE key == retained_keyexpr(t, s)
           a == ScopeOf[n]
           u == retained_keyexpr_to_topic(key, a)
           rest == strip_scope(key, a)
<1>1. CASE e \in stored[n]
  BY <1>1 DEF RoutingInv, StoreInv
<1>2. CASE e \notin stored[n]
  <2>1. u # Invalid /\ e = [topic |-> u, at |-> clock]
    BY <1>2 DEF Applied
  <2>2. rest # Invalid /\ rest[1] = "@retained" /\ Len(rest) > 1 /\ u = Tail(rest)
    BY <2>1 DEF retained_keyexpr_to_topic
  <2>3. a \in Seq(Names) /\ a \in Seq(Chunk) /\ s \in Seq(Chunk)
    BY ScopeType
  <2>4. t \in Seq(Names) /\ t \in Seq(Chunk) /\ Len(t) > 0 /\ Len(t) \in Nat
    BY PlainPublic DEF PlainTopic, LevelSeq
  <2> DEFINE v == <<"@retained">> \o t
  <2>5. /\ v \in Seq(Chunk) /\ Len(v) = 1 + Len(t) /\ v[1] = "@retained"
        /\ \A i \in 2..(1 + Len(t)) : v[i] \in Names
    <3>1. <<"@retained">> \in Seq(Chunk) /\ Len(<<"@retained">>) = 1
      BY DEF Chunk, Verbatim
    <3>2. /\ v \in Seq(Chunk) /\ Len(v) = 1 + Len(t) /\ v[1] = "@retained"
          /\ \A i \in 2..(1 + Len(t)) : v[i] = t[i - 1]
      BY <2>4, <3>1
    <3>3. \A i \in 2..(1 + Len(t)) : t[i - 1] \in Names
      BY <2>4
    <3> QED
      BY <3>2, <3>3
  <2>6. key = s \o v
    BY DEF retained_keyexpr, scoped
  <2> HIDE DEF v, key
  <2>7. /\ key \in Seq(Chunk) /\ Len(key) = Len(s) + Len(v) /\ Len(s) \in Nat /\ Len(v) \in Nat
        /\ \A i \in 1..Len(s) : key[i] = s[i]
        /\ \A i \in 1..Len(v) : key[Len(s) + i] = v[i]
    <3>1. s \in Seq(Chunk) /\ v \in Seq(Chunk)
      BY <2>3, <2>5
    <3>2. /\ s \o v \in Seq(Chunk) /\ Len(s \o v) = Len(s) + Len(v) /\ Len(s) \in Nat /\ Len(v) \in Nat
          /\ \A i \in 1..Len(s) : (s \o v)[i] = s[i]
          /\ \A i \in 1..Len(v) : (s \o v)[Len(s) + i] = v[i]
      BY <3>1
    <3> QED
      BY <2>6, <3>2
  <2>8. rest \in Seq(Chunk) /\ key = a \o rest
    BY <2>2, <2>3, <2>7, StripIs
  <2> HIDE DEF rest, a, u
  <2>9. /\ Len(key) = Len(a) + Len(rest) /\ Len(a) \in Nat /\ Len(rest) \in Nat
        /\ \A i \in 1..Len(rest) : key[Len(a) + i] = rest[i]
    BY <2>3, <2>8
  <2>10. ASSUME NEW i \in 1..Len(key), key[i] \notin Names PROVE i = Len(s) + 1
    <3>1. CASE i <= Len(s)
      BY <2>7, <2>10, <3>1
    <3>2. CASE ~(i <= Len(s)) /\ i # Len(s) + 1
      <4>1. i - Len(s) \in 2..(1 + Len(t)) /\ i - Len(s) \in 1..Len(v) /\ Len(s) + (i - Len(s)) = i
        <5>1. Len(key) = Len(s) + Len(v) /\ Len(s) \in Nat /\ Len(v) = 1 + Len(t) /\ Len(t) \in Nat
          BY <2>4, <2>5, <2>7
        <5> QED
          BY <3>2, <5>1
      <4>2. key[i] = v[i - Len(s)]
        BY <2>7, <4>1
      <4> QED
        BY <2>5, <2>10, <4>1, <4>2
    <3> QED
      BY <3>1, <3>2
  <2>11. Len(a) = Len(s)
    <3>1. Len(a) + 1 \in 1..Len(key) /\ 1 \in 1..Len(rest)
      BY <2>2, <2>9
    <3>2. key[Len(a) + 1] \notin Names
      BY <2>2, <2>9, <3>1, LevelsApart DEF Verbatim
    <3> QED
      BY <2>7, <2>9, <2>10, <3>1, <3>2
  <2>12. u \in Seq(Chunk) /\ Len(u) = Len(rest) - 1 /\ \A i \in 1..(Len(rest) - 1) : u[i] = rest[i + 1]
    BY <2>2, <2>8, <2>9
  <2>13. ASSUME NEW i \in 1..Len(u) PROVE u[i] \in Names
    <3>1. i + 1 \in 1..Len(rest) /\ i \in 1..(Len(rest) - 1) /\ Len(a) + (i + 1) \in 1..Len(key)
      BY <2>9, <2>12
    <3>2. u[i] = key[Len(a) + (i + 1)] /\ Len(a) + (i + 1) # Len(s) + 1
      BY <2>9, <2>11, <2>12, <3>1
    <3> QED
      BY <2>10, <3>1, <3>2
  <2>14. PlainTopic(u)
    <3>1. u \in Seq(Level)
      <4>1. \A i \in 1..Len(u) : u[i] \in Level
        BY <2>13 DEF Level
      <4> QED
        BY <2>12, <4>1, SeqWithin
    <3>2. Len(u) > 0
      BY <2>2, <2>9, <2>12
    <3> QED
      BY <2>13, <3>1, <3>2 DEF PlainTopic, LevelSeq, ValidTopic
  <2> QED
    BY <2>1, <2>14 DEF RoutingInv
<1> QED
  BY <1>1, <1>2

\* What a message that is relayed changes.
LEMMA RelayEffect ==
    ASSUME RoutingInv, NEW c \in Clients, NEW t \in TopicNames, NEW writes, NEW keep,
           Relay(c, t, writes, keep)
    PROVE  /\ PlainTopic(t) /\ subs' = subs /\ clock' = clock /\ StoreInv'
           /\ sent'.kind = "publish" /\ sent'.by = c /\ sent'.name = t
           /\ sent'.copies = Relayed(Scope(c) \o t, subs)
<1>1. t \in LevelSeq /\ Scope(c) \in Seq(Names)
  BY RoutingAssumption, ScopeType
<1>2. /\ topic_to_keyexpr(t, Scope(c)) # Invalid /\ subs' = subs /\ clock' = clock
      /\ sent' = [kind |-> "publish", by |-> c, name |-> t,
                  copies |-> Relayed(topic_to_keyexpr(t, Scope(c)), subs)]
      /\ stored' = IF ~writes THEN stored
                   ELSE [n \in Nodes |-> Applied(n, retained_keyexpr(t, Scope(c)), keep)]
  BY DEF Relay, Done
<1>3. PlainTopic(t) /\ topic_to_keyexpr(t, Scope(c)) = Scope(c) \o t
  BY <1>1, <1>2, TopicAccepted DEF PlainTopic
<1>4. StoreInv'
  <2>1. CASE stored' = stored
    BY <2>1 DEF RoutingInv, StoreInv
  <2>2. CASE stored' = [n \in Nodes |-> Applied(n, retained_keyexpr(t, Scope(c)), keep)]
    <3>1. ASSUME NEW n \in Nodes, NEW e \in stored'[n] PROVE PlainTopic(e.topic) /\ e.at \in Nat
      <4>1. e \in Applied(n, retained_keyexpr(t, Scope(c)), keep)
        BY <2>2
      <4> QED
        BY <1>1, <1>3, <4>1, AppliedPlain
    <3> QED
      BY <3>1 DEF StoreInv
  <2> QED
    BY <1>2, <2>1, <2>2
<1> QED
  BY <1>2, <1>3, <1>4

\* RoutingInv is kept.
LEMMA RoutingStep == ASSUME RoutingInv, [Next]_vars PROVE RoutingInv'
<1>1. ASSUME NEW c \in Clients, NEW f \in FilterNames, Subscribe(c, f) PROVE RoutingInv'
  BY <1>1, SubscribeEffect DEF RoutingInv, StoreInv
<1>2. ASSUME NEW c \in Clients, NEW t \in TopicNames, NEW writes, NEW keep, Relay(c, t, writes, keep)
      PROVE  RoutingInv'
  BY <1>2, RelayEffect DEF RoutingInv
<1>3. CASE UNCHANGED vars
  BY <1>3 DEF RoutingInv, StoreInv, vars
<1>4. ASSUME NEW n \in Nodes, NEW suffix \in SysSuffixes, SysPublish(n, suffix) PROVE RoutingInv'
  BY <1>4 DEF RoutingInv, StoreInv, SysPublish
<1>5. CASE Tick
  BY <1>5 DEF RoutingInv, StoreInv, Tick
<1>6. CASE Taken
  BY <1>6 DEF RoutingInv, StoreInv, Taken
<1> QED
  BY <1>1, <1>2, <1>3, <1>4, <1>5, <1>6
  DEF Next, SubscribeRefused, PublishDropped, Publish, FireWill

\* RoutingInv holds at first.
LEMMA RoutingInit == Init => RoutingInv
BY DEF Init, RoutingInv, SubsInv, StoreInv

\* The topic, below $meta, of a client's events.
EventTopic(c) == <<"clients", Home[c], c>>

\* A key is the scope of who puts, followed by a public rest.
LEMMA Keys ==
    /\ \A c \in Clients :
         /\ EventTopic(c) \in Seq(Names) /\ EventTopic(c) # << >> /\ EventTopic(c)[1] = "clients"
         /\ Event(c) = Scope(c) \o (<<"@meta">> \o EventTopic(c)) /\ Event(c) \in Seq(Chunk)
    /\ \A c \in Clients : \A t : PlainTopic(t) =>
         /\ meta_keyexpr(t, Scope(c)) = Scope(c) \o (<<"@meta">> \o t)
         /\ meta_keyexpr(t, Scope(c)) \in Seq(Chunk) /\ Scope(c) \o t \in Seq(Names)
    /\ \A n \in Nodes, x \in SysSuffixes :
         /\ x \in Seq(Names) /\ x # << >>
         /\ sys_keyexpr(x, ScopeOf[n]) = ScopeOf[n] \o (<<"@sys">> \o x)
         /\ sys_keyexpr(x, ScopeOf[n]) \in Seq(Chunk)
<1>1. ASSUME NEW s \in Seq(Names), NEW r, Public(r) PROVE s \o r \in Seq(Chunk)
  <2>1. s \in Seq(Chunk) /\ r \in Seq(Chunk)
    BY <1>1, ScopeType DEF Public
  <2> QED
    BY <2>1
<1>2. ASSUME NEW c \in Clients
      PROVE  /\ EventTopic(c) \in Seq(Names) /\ EventTopic(c) # << >> /\ EventTopic(c)[1] = "clients"
             /\ Event(c) = Scope(c) \o (<<"@meta">> \o EventTopic(c)) /\ Event(c) \in Seq(Chunk)
  <2>1. "clients" \in Names /\ Home[c] \in Names /\ c \in Names
    BY RoutingAssumption, ScopeType
  <2>2. EventTopic(c) \in Seq(Names) /\ EventTopic(c) # << >> /\ EventTopic(c)[1] = "clients"
    BY <2>1 DEF EventTopic
  <2>3. Event(c) = Scope(c) \o (<<"@meta">> \o EventTopic(c))
    BY DEF Event, EventTopic, meta_keyexpr, scoped
  <2>4. Scope(c) \in Seq(Names)
    BY ScopeType
  <2>5. Public(<<"@meta">> \o EventTopic(c))
    BY <2>2, SpacePublic
  <2> QED
    BY <1>1, <2>2, <2>3, <2>4, <2>5
<1>3. ASSUME NEW c \in Clients, NEW t, PlainTopic(t)
      PROVE  /\ meta_keyexpr(t, Scope(c)) = Scope(c) \o (<<"@meta">> \o t)
             /\ meta_keyexpr(t, Scope(c)) \in Seq(Chunk) /\ Scope(c) \o t \in Seq(Names)
  <2>1. t \in Seq(Names) /\ t # << >> /\ Scope(c) \in Seq(Names)
    BY <1>3, PlainPublic, ScopeType
  <2>2. Public(<<"@meta">> \o t)
    BY <2>1, SpacePublic
  <2>3. Scope(c) \o t \in Seq(Names)
    BY <2>1
  <2>4. meta_keyexpr(t, Scope(c)) = Scope(c) \o (<<"@meta">> \o t)
    BY DEF meta_keyexpr, scoped
  <2> QED
    BY <1>1, <2>1, <2>2, <2>3, <2>4
<1>4. ASSUME NEW n \in Nodes, NEW x \in SysSuffixes
      PROVE  /\ x \in Seq(Names) /\ x # << >>
             /\ sys_keyexpr(x, ScopeOf[n]) = ScopeOf[n] \o (<<"@sys">> \o x)
             /\ sys_keyexpr(x, ScopeOf[n]) \in Seq(Chunk)
  <2>1. x \in Seq(Names) /\ x # << >> /\ ScopeOf[n] \in Seq(Names)
    BY RoutingAssumption, ScopeType
  <2>2. Public(<<"@sys">> \o x)
    BY <2>1, SpacePublic
  <2>3. sys_keyexpr(x, ScopeOf[n]) = ScopeOf[n] \o (<<"@sys">> \o x)
    BY DEF sys_keyexpr, scoped
  <2> QED
    BY <1>1, <2>1, <2>2, <2>3
<1> QED
  BY <1>2, <1>3, <1>4

-----------------------------------------------------------------------------
\* What a granted filter matches is granted.
LEMMA GrantedBy ==
    ASSUME NEW user, NEW f \in LevelSeq, may_subscribe(user, f), NEW t \in LevelSeq, topic_matches(f, t)
    PROVE  Granted(user, t)
<1>1. CASE DefaultAllow
  BY <1>1 DEF Granted
<1>2. CASE ~DefaultAllow
  <2>1. PICK r \in Rules : r.user \in {"*", user} /\ \E p \in r.subscribe : filter_covers(p, f)
    BY <1>2 DEF may_subscribe, rules_for
  <2>2. PICK p \in r.subscribe : filter_covers(p, f)
    BY <2>1
  <2>3. p \in Seq(Level) /\ f \in Seq(Level) /\ t \in Seq(Level)
    BY RoutingAssumption DEF LevelSeq
  <2>4. topic_matches(p, t)
    BY <2>2, <2>3, CoverSound
  <2> QED
    BY <2>1, <2>2, <2>4 DEF Granted
<1> QED
  BY <1>1, <1>2

\* What a put delivers is granted, and if it lies in one of the broker's
\* spaces the receiver has named that space.
LEMMA RelayedGranted ==
    ASSUME NEW s, SubsInv(s), NEW key \in Seq(Chunk), NEW m \in Relayed(key, s)
    PROVE  /\ Granted(User[m.to], m.topic) /\ m.retain = FALSE
           /\ m.topic[1] \in Spaces => /\ \E f \in s[m.to] : f[1] = m.topic[1]
                                       /\ key \notin Seq(Names)
<1>1. m.to \in Clients /\ m.retain = FALSE
  BY RelayedSound
<1>2. PICK f \in s[m.to] : f \in FiltersOf(m.topic) /\ HashLast(f)
  BY RelayedSound
<1>3. PICK rest : Public(rest) /\ key = Scope(m.to) \o rest /\ m.topic = TopicOf(rest)
  BY RelayedSound
<1>4. f \in LevelSeq /\ may_subscribe(User[m.to], f)
  BY <1>1 DEF SubsInv
<1>5. /\ topic_matches(f, m.topic) /\ m.topic \in LevelSeq
      /\ m.topic[1] \in Spaces => f[1] = m.topic[1]
  BY <1>2, <1>3, <1>4, PublicFits
<1>6. ASSUME m.topic[1] \in Spaces, key \in Seq(Names) PROVE FALSE
  <2>1. Scope(m.to) \in Seq(Chunk) /\ rest \in Seq(Chunk) /\ Len(rest) > 0
    BY <1>1, <1>3, ScopeType DEF Public
  <2> DEFINE k == Len(Scope(m.to)) + 1
             w == Scope(m.to) \o rest
  <2>2. k \in 1..Len(w) /\ w[k] = rest[1]
    BY <2>1
  <2> HIDE DEF w
  <2>3. w \in Seq(Names)
    BY <1>3, <1>6 DEF w
  <2>4. rest[1] \in Names
    BY <2>2, <2>3
  <2>5. m.topic[1] = rest[1]
    BY <1>3, <2>4, TopicOfPublic
  <2> QED
    BY <1>6, <2>4, <2>5, LevelsApart
<1> QED
  BY <1>1, <1>2, <1>4, <1>5, <1>6, GrantedBy

\* What a subscription is handed matches it, is granted and has a plain topic.
LEMMA HandedGranted ==
    ASSUME RoutingInv, NEW c \in Clients, NEW f \in LevelSeq, may_subscribe(User[c], f),
           NEW m \in Handed(c, f)
    PROVE  m.to = c /\ m.retain = TRUE /\ PlainTopic(m.topic) /\ Granted(User[m.to], m.topic)
<1>1. PICK e \in matching(c, f) : m = [to |-> c, topic |-> e.topic, retain |-> TRUE]
  BY DEF Handed
<1>2. e \in stored[Home[c]] /\ topic_matches(f, e.topic)
  BY DEF matching
<1>3. PlainTopic(e.topic)
  BY <1>2, ScopeType DEF RoutingInv, StoreInv
<1>4. Granted(User[c], e.topic)
  BY <1>2, <1>3, GrantedBy DEF PlainTopic
<1> QED
  BY <1>1, <1>3, <1>4

\* A flag is a copy of a put under the key of a plain topic.
LEMMA FlaggedKey ==
    ASSUME RoutingInv, NEW c \in Clients, NEW f, NEW s, NEW m \in Flagged(c, f, s)
    PROVE  \E key \in Seq(Chunk) : m \in Relayed(key, s)
<1>1. PICK e \in matching(c, f) : Stale(e) /\ m \in Relayed(meta_keyexpr(e.topic, Scope(c)), s)
  BY DEF Flagged
<1>2. PlainTopic(e.topic)
  BY ScopeType DEF RoutingInv, StoreInv, matching
<1> QED
  BY <1>1, <1>2, Keys

\* Every copy that a step sends is live, or handed to a new subscription.
LEMMA SentCopies ==
    ASSUME RoutingInv, Next, NEW m \in sent'.copies
    PROVE  \/ UNCHANGED <<sent, subs>>
           \/ \E c \in Clients, f \in FilterNames :
                Subscribe(c, f) /\ m \in Handed(c, f) /\ f \in LevelSeq /\ may_subscribe(User[c], f)
           \/ \E key \in Seq(Chunk) :
                /\ m \in Relayed(key, subs')
                /\ sent'.kind \in {"sys", "subscribe"} \/ key \in Seq(Names)
<1> DEFINE Goal == \/ UNCHANGED <<sent, subs>>
                   \/ \E c \in Clients, f \in FilterNames :
                        Subscribe(c, f) /\ m \in Handed(c, f) /\ f \in LevelSeq /\ may_subscribe(User[c], f)
                   \/ \E key \in Seq(Chunk) :
                        /\ m \in Relayed(key, subs')
                        /\ sent'.kind \in {"sys", "subscribe"} \/ key \in Seq(Names)
<1>1. ASSUME NEW c \in Clients, NEW f \in FilterNames, Subscribe(c, f) PROVE Goal
  <2>1. /\ f \in LevelSeq /\ may_subscribe(User[c], f) /\ sent'.kind = "subscribe"
        /\ m \in Relayed(Event(c), subs') \/ m \in Handed(c, f) \/ m \in Flagged(c, f, subs')
    BY <1>1, SubscribeEffect
  <2>2. CASE m \in Handed(c, f)
    BY <1>1, <2>1, <2>2
  <2>3. CASE m \in Relayed(Event(c), subs')
    BY <2>1, <2>3, Keys
  <2>4. CASE m \in Flagged(c, f, subs')
    BY <2>1, <2>4, FlaggedKey
  <2> QED
    BY <2>1, <2>2, <2>3, <2>4
<1>2. ASSUME NEW c \in Clients, NEW t \in TopicNames, NEW writes, NEW keep, Relay(c, t, writes, keep)
      PROVE  Goal
  <2>1. PlainTopic(t) /\ subs' = subs /\ m \in Relayed(Scope(c) \o t, subs)
    BY <1>2, RelayEffect
  <2>2. Scope(c) \o t \in Seq(Names) /\ Scope(c) \o t \in Seq(Chunk)
    BY <2>1, Keys, ScopeType
  <2> QED
    BY <2>1, <2>2
<1>3. ASSUME UNCHANGED vars PROVE Goal
  BY <1>3 DEF vars
<1>4. ASSUME NEW n \in Nodes, NEW suffix \in SysSuffixes, SysPublish(n, suffix) PROVE Goal
  <2>1. subs' = subs /\ sent'.kind = "sys" /\ m \in Relayed(sys_keyexpr(suffix, ScopeOf[n]), subs)
    BY <1>4 DEF SysPublish, Done
  <2> QED
    BY <2>1, Keys
<1>5. ASSUME Tick PROVE Goal
  BY <1>5 DEF Tick
<1>6. ASSUME Taken PROVE Goal
  BY <1>6 DEF Taken, Idle
<1> HIDE DEF Goal
<1>7. Goal
  <2>1. CASE \E c \in Clients, f \in FilterNames : Subscribe(c, f) \/ SubscribeRefused(c, f)
    BY <1>1, <1>3, <2>1 DEF SubscribeRefused
  <2>2. CASE \E c \in Clients, t \in TopicNames : PublishDropped(c, t)
    BY <1>3, <2>2 DEF PublishDropped
  <2>3. CASE \E c \in Clients, t \in TopicNames, retain \in {"no", "put", "clear"} :
               Publish(c, t, retain) \/ FireWill(c, t, retain)
    BY <1>2, <2>3 DEF Publish, FireWill
  <2>4. CASE \E n \in Nodes, suffix \in SysSuffixes : SysPublish(n, suffix)
    BY <1>4, <2>4
  <2> QED
    BY <1>5, <1>6, <2>1, <2>2, <2>3, <2>4 DEF Next
<1> QED
  BY <1>7 DEF Goal

(***************************************************************************)
(* ReadsAreGranted for every instance: whatever is delivered, by whatever  *)
(* way (a publication, a statistic, an event, a flag, a retained value),   *)
(* and however the scopes lie, some rule grants its receiver.  The detour  *)
(* is from the receiver's filter, which may_subscribe let through because  *)
(* a granted pattern covers it (CoverSound), to the topic, which the       *)
(* filter matches because its key does (Heard).                            *)
(***************************************************************************)
THEOREM ReadsCorrect == Spec => []ReadsAreGranted
<1>1. Init => ReadsAreGranted
  BY DEF Init, Idle, ReadsAreGranted
<1>2. RoutingInv /\ ReadsAreGranted /\ [Next]_vars => ReadsAreGranted'
  <2> SUFFICES ASSUME RoutingInv, ReadsAreGranted, [Next]_vars, NEW m \in sent'.copies
               PROVE  Granted(User[m.to], m.topic)
    BY DEF ReadsAreGranted, Granted
  <2>1. SubsInv(subs')
    BY RoutingStep DEF RoutingInv
  <2>2. CASE sent' = sent
    BY <2>2 DEF ReadsAreGranted
  <2>3. CASE \E c \in Clients, f \in FilterNames :
               Subscribe(c, f) /\ m \in Handed(c, f) /\ f \in LevelSeq /\ may_subscribe(User[c], f)
    BY <2>3, HandedGranted
  <2>4. CASE \E key \in Seq(Chunk) : m \in Relayed(key, subs')
    BY <2>1, <2>4, RelayedGranted
  <2> QED
    BY <2>2, <2>3, <2>4, SentCopies DEF vars
<1> QED
  BY <1>1, <1>2, RoutingInit, RoutingStep, PTL DEF Spec

(***************************************************************************)
(* SpacesAreTheBrokers for every instance: clients neither write into the  *)
(* broker's own keyspaces nor read from them but by name.                  *)
(***************************************************************************)
THEOREM SpacesCorrect == Spec => []SpacesAreTheBrokers
<1> DEFINE Named == \A m \in sent.copies :
                      m.topic[1] \in Spaces =>
                         /\ sent.kind \in {"sys", "subscribe"}
                         /\ \E f \in subs[m.to] : f[1] = m.topic[1]
<1>1. Init => Named
  BY DEF Init, Idle
<1>2. RoutingInv /\ Named /\ [Next]_vars => Named'
  <2> SUFFICES ASSUME RoutingInv, Named, [Next]_vars, NEW m \in sent'.copies, m.topic[1] \in Spaces
               PROVE  sent'.kind \in {"sys", "subscribe"} /\ \E f \in subs'[m.to] : f[1] = m.topic[1]
    BY DEF Spaces
  <2>1. SubsInv(subs')
    BY RoutingStep DEF RoutingInv
  <2>2. CASE UNCHANGED <<sent, subs>>
    BY <2>2
  <2>3. CASE \E c \in Clients, f \in FilterNames :
               Subscribe(c, f) /\ m \in Handed(c, f) /\ f \in LevelSeq /\ may_subscribe(User[c], f)
    BY <2>3, HandedGranted, PlainPublic
  <2>4. CASE \E key \in Seq(Chunk) :
               /\ m \in Relayed(key, subs')
               /\ sent'.kind \in {"sys", "subscribe"} \/ key \in Seq(Names)
    BY <2>1, <2>4, RelayedGranted
  <2> QED
    BY <2>2, <2>3, <2>4, SentCopies DEF vars
<1>3. RoutingInv /\ Named => SpacesAreTheBrokers
  <2> SUFFICES ASSUME RoutingInv, NEW n \in Nodes, NEW e \in stored[n], NEW i \in DOMAIN e.topic
               PROVE  e.topic[i] \in Names
    BY DEF SpacesAreTheBrokers
  <2>1. PlainTopic(e.topic)
    BY DEF RoutingInv, StoreInv
  <2>2. DOMAIN e.topic = 1..Len(e.topic)
    BY <2>1 DEF PlainTopic, LevelSeq
  <2> QED
    BY <2>1, <2>2, PlainPublic
<1> HIDE DEF Named
<1> QED
  BY <1>1, <1>2, <1>3, RoutingInit, RoutingStep, PTL DEF Spec

-----------------------------------------------------------------------------
\* In a filter that is accepted, `#' comes last.
LEMMA AcceptedHashLast ==
    ASSUME NEW f \in LevelSeq, NEW s \in Seq(Names), filter_to_keyexpr(f, s) # Invalid
    PROVE  HashLast(f)
<1>1. ValidFilter(f)
  BY FilterAccepted
<1>2. \A i \in 1..Len(f) : f[i] = "#" => f[i] \notin Names \cup Spaces /\ f[i] # "+"
  BY LevelsApart
<1> QED
  BY <1>1, <1>2 DEF HashLast, ValidFilter

\* On plain topics topic_matches is the standard's matching.
LEMMA PlainMatches ==
    ASSUME NEW f \in LevelSeq, HashLast(f), NEW t, PlainTopic(t)
    PROVE  topic_matches(f, t) <=> f \in FiltersOf(t)
<1>1. t \in LevelSeq /\ t[1] \notin Spaces /\ \A i \in 1..Len(t) : t[i] \in Names \cup Spaces
  BY PlainPublic DEF PlainTopic
<1> QED
  BY <1>1, FitsMatches, FiltersFit

\* What RetainedStore::matching hands to an accepted filter.
LEMMA MatchingIs ==
    ASSUME RoutingInv, NEW c \in Clients, NEW f \in LevelSeq, filter_to_keyexpr(f, Scope(c)) # Invalid
    PROVE  matching(c, f) = {e \in stored[Home[c]] : f \in FiltersOf(e.topic)}
<1>1. HashLast(f)
  BY AcceptedHashLast, ScopeType
<1>2. \A e \in stored[Home[c]] : PlainTopic(e.topic)
  BY ScopeType DEF RoutingInv, StoreInv
<1> QED
  BY <1>1, <1>2, PlainMatches DEF matching

(***************************************************************************)
(* RetainedAsSpecified for every instance.                                 *)
(***************************************************************************)
THEOREM RetainedMatchCorrect == Spec => []RetainedAsSpecified
<1>1. Init => RetainedAsSpecified
  BY DEF Init, Idle, RetainedAsSpecified
<1>2. RoutingInv /\ RetainedAsSpecified /\ [Next]_vars => RetainedAsSpecified'
  <2> SUFFICES ASSUME RoutingInv, RetainedAsSpecified, [Next]_vars PROVE RetainedAsSpecified'
    OBVIOUS
  <2>1. ASSUME NEW c \in Clients, NEW f \in FilterNames, Subscribe(c, f) PROVE RetainedAsSpecified'
    <3>1. /\ f \in LevelSeq /\ filter_to_keyexpr(f, Scope(c)) # Invalid /\ may_subscribe(User[c], f)
          /\ SubsInv(subs') /\ stored' = stored /\ sent'.by = c /\ sent'.name = f
          /\ sent'.copies = (Relayed(Event(c), subs') \cup Handed(c, f)) \cup Flagged(c, f, subs')
      BY <2>1, SubscribeEffect
    <3>2. \A m \in Handed(c, f) : m.retain = TRUE
      BY DEF Handed
    <3>3. \A m \in Relayed(Event(c), subs') : m.retain = FALSE
      BY <3>1, Keys, RelayedGranted
    <3>4. ASSUME NEW m \in Flagged(c, f, subs') PROVE m.retain = FALSE
      <4>1. PICK key \in Seq(Chunk) : m \in Relayed(key, subs')
        BY FlaggedKey
      <4> QED
        BY <3>1, <4>1, RelayedGranted
    <3>5. {x \in sent'.copies : x.retain} = Handed(c, f)
      BY <3>1, <3>2, <3>3, <3>4
    <3>6. {m.topic : m \in Handed(c, f)} = {e.topic : e \in matching(c, f)}
      <4>1. ASSUME NEW m \in Handed(c, f) PROVE m.topic \in {e.topic : e \in matching(c, f)}
        BY DEF Handed
      <4>2. ASSUME NEW e \in matching(c, f) PROVE e.topic \in {m.topic : m \in Handed(c, f)}
        <5> DEFINE m == [to |-> c, topic |-> e.topic, retain |-> TRUE]
        <5>1. m \in Handed(c, f) /\ m.topic = e.topic
          BY DEF Handed
        <5> HIDE DEF m
        <5> QED
          BY <5>1
      <4> QED
        BY <4>1, <4>2
    <3>7. matching(c, f) = {e \in stored[Home[c]] : f \in FiltersOf(e.topic)}
      BY <3>1, MatchingIs
    <3>8. {m.topic : m \in {x \in sent'.copies : x.retain}}
            = {e.topic : e \in {x \in stored'[Home[sent'.by]] : sent'.name \in FiltersOf(x.topic)}}
      BY <3>1, <3>5, <3>6, <3>7
    <3> QED
      BY <3>8 DEF RetainedAsSpecified, FiltersOf, Blurred, Spaces
  <2>2. ASSUME NEW c \in Clients, NEW t \in TopicNames, NEW writes, NEW keep, Relay(c, t, writes, keep)
        PROVE  RetainedAsSpecified'
    BY <2>2, RelayEffect DEF RetainedAsSpecified
  <2>3. CASE UNCHANGED vars
    BY <2>3 DEF RetainedAsSpecified, vars, FiltersOf, Blurred, Spaces
  <2>4. ASSUME NEW n \in Nodes, NEW suffix \in SysSuffixes, SysPublish(n, suffix)
        PROVE  RetainedAsSpecified'
    BY <2>4 DEF RetainedAsSpecified, SysPublish, Done
  <2>5. CASE Tick
    BY <2>5 DEF RetainedAsSpecified, Tick, Idle
  <2>6. CASE Taken
    BY <2>6 DEF RetainedAsSpecified, Taken, Idle
  <2> QED
    BY <2>1, <2>2, <2>3, <2>4, <2>5, <2>6
    DEF Next, SubscribeRefused, PublishDropped, Publish, FireWill
<1> QED
  BY <1>1, <1>2, RoutingInit, RoutingStep, PTL DEF Spec

\* The live copies among those of a put.
Pairs(copies) == {<<m.to, m.topic>> : m \in {x \in copies : ~x.retain}}

ReadersOf(s, t, scope) == {c \in Clients : Scope(c) = scope /\ s[c] \cap FiltersOf(t) # {}}

\* RelayedExact, for the live copies.
LEMMA PairsExact ==
    ASSUME ScopesDisjoint, NEW s, SubsInv(s), NEW n \in Nodes, NEW r, Public(r)
    PROVE  Pairs(Relayed(ScopeOf[n] \o r, s)) = ReadersOf(s, TopicOf(r), ScopeOf[n]) \X {TopicOf(r)}
<1> DEFINE R == Relayed(ScopeOf[n] \o r, s)
<1>1. {<<m.to, m.topic>> : m \in R} = ReadersOf(s, TopicOf(r), ScopeOf[n]) \X {TopicOf(r)}
  BY RelayedExact DEF ReadersOf
<1>2. \A m \in R : m.retain = FALSE
  BY DEF Relayed
<1> HIDE DEF R
<1>3. {x \in R : ~x.retain} = R
  BY <1>2
<1> QED
  BY <1>1, <1>3 DEF Pairs, R

Live(x, s) ==
    /\ x.kind = "publish" =>
         Pairs(x.copies) = ReadersOf(s, x.name, Scope(x.by)) \X {x.name}
    /\ x.kind = "sys" =>
         LET t == <<"$SYS">> \o x.name
         IN  Pairs(x.copies) = ReadersOf(s, t, ScopeOf[x.by]) \X {t}

(***************************************************************************)
(* LiveAsSpecified for every instance whose scopes do not lie inside one   *)
(* another: under nested scopes the inner one's clients hear a part of     *)
(* the outer one's topics under a shorter name.                            *)
(***************************************************************************)
THEOREM LiveCorrect == ASSUME ScopesDisjoint PROVE Spec => []LiveAsSpecified
<1>1. Init => LiveAsSpecified
  BY DEF Init, Idle, LiveAsSpecified
<1>2. RoutingInv /\ LiveAsSpecified /\ [Next]_vars => LiveAsSpecified'
  <2> SUFFICES ASSUME RoutingInv, LiveAsSpecified, [Next]_vars PROVE LiveAsSpecified'
    OBVIOUS
  <2>0. /\ LiveAsSpecified <=> Live(sent, subs)
        /\ LiveAsSpecified' <=> Live(sent', subs')
    BY DEF LiveAsSpecified, Live, LiveCopies, Readers, Pairs, ReadersOf
  <2>1. ASSUME NEW c \in Clients, NEW f \in FilterNames, Subscribe(c, f) PROVE LiveAsSpecified'
    BY <2>1, SubscribeEffect DEF LiveAsSpecified
  <2>2. ASSUME NEW c \in Clients, NEW t \in TopicNames, NEW writes, NEW keep, Relay(c, t, writes, keep)
        PROVE  LiveAsSpecified'
    <3>1. /\ PlainTopic(t) /\ subs' = subs /\ sent'.kind = "publish" /\ sent'.by = c /\ sent'.name = t
          /\ sent'.copies = Relayed(Scope(c) \o t, subs)
      BY <2>2, RelayEffect
    <3>2. Public(t) /\ TopicOf(t) = t /\ Home[c] \in Nodes /\ Scope(c) = ScopeOf[Home[c]]
      BY <3>1, PlainPublic, ScopeType
    <3>3. Pairs(sent'.copies) = ReadersOf(subs', t, Scope(c)) \X {t}
      BY <3>1, <3>2, PairsExact DEF RoutingInv
    <3>4. Live(sent', subs')
      BY <3>1, <3>3 DEF Live
    <3> QED
      BY <2>0, <3>4
  <2>3. CASE UNCHANGED vars
    BY <2>0, <2>3 DEF vars
  <2>4. ASSUME NEW n \in Nodes, NEW suffix \in SysSuffixes, SysPublish(n, suffix)
        PROVE  LiveAsSpecified'
    <3> DEFINE t == <<"$SYS">> \o suffix
    <3>1. /\ subs' = subs /\ sent'.kind = "sys" /\ sent'.by = n /\ sent'.name = suffix
          /\ sent'.copies = Relayed(sys_keyexpr(suffix, ScopeOf[n]), subs)
      BY <2>4 DEF SysPublish, Done
    <3>2. /\ sys_keyexpr(suffix, ScopeOf[n]) = ScopeOf[n] \o (<<"@sys">> \o suffix)
          /\ Public(<<"@sys">> \o suffix) /\ TopicOf(<<"@sys">> \o suffix) = t
      BY Keys, SpacePublic
    <3> HIDE DEF t
    <3>3. Pairs(sent'.copies) = ReadersOf(subs', t, ScopeOf[n]) \X {t}
      <4> DEFINE r == <<"@sys">> \o suffix
      <4>1. Public(r) /\ TopicOf(r) = t /\ sent'.copies = Relayed(ScopeOf[n] \o r, subs')
        BY <3>1, <3>2
      <4> HIDE DEF r
      <4> QED
        BY <3>1, <4>1, PairsExact DEF RoutingInv
    <3>4. Live(sent', subs')
      BY <3>1, <3>3 DEF Live, t
    <3> QED
      BY <2>0, <3>4
  <2>5. CASE Tick
    BY <2>5 DEF LiveAsSpecified, Tick, Idle
  <2>6. CASE Taken
    BY <2>6 DEF LiveAsSpecified, Taken, Idle
  <2> QED
    BY <2>1, <2>2, <2>3, <2>4, <2>5, <2>6
    DEF Next, SubscribeRefused, PublishDropped, Publish, FireWill
<1> QED
  BY <1>1, <1>2, RoutingInit, RoutingStep, PTL DEF Spec

-----------------------------------------------------------------------------
\* The rules of the staleness policy that the code does not check: `#' is last.
RulesWellFormed == \A i \in DOMAIN StaleRules : HashLast(StaleRules[i].filter)

\* A set of natural numbers has a least one, which Min finds.
LEMMA MinIs ==
    ASSUME NEW S \in SUBSET Nat, S # {}
    PROVE  Min(S) \in S /\ \A y \in S : Min(S) <= y
<1>1. PICK x \in S : \A y \in S : ~(<<y, x>> \in OpToRel(<, Nat))
  BY NatLessThanWellFounded, WFMin
<1>2. \A y \in S : x <= y
  <2> TAKE y \in S
  <2>1. x \in Nat /\ y \in Nat /\ <<y, x>> \in Nat \X Nat
    OBVIOUS
  <2>2. ~(y < x)
    BY <1>1, <2>1 DEF OpToRel
  <2> QED
    BY <2>1, <2>2
<1> QED
  BY <1>2 DEF Min

\* The rules of the staleness policy are a sequence of filters with bounds.
RulesTyped ==
    /\ DOMAIN StaleRules = 1..Len(StaleRules) /\ Len(StaleRules) \in Nat
    /\ \A i \in DOMAIN StaleRules : StaleRules[i].filter \in LevelSeq /\ StaleRules[i].bound \in Nat

LEMMA RulesType == RulesTyped
<1> DEFINE Rule == [filter : LevelSeq, bound : Nat]
<1>1. StaleRules \in Seq(Rule)
  BY RoutingAssumption
<1>2. \A x \in Rule : x.filter \in LevelSeq /\ x.bound \in Nat
  OBVIOUS
<1> HIDE DEF Rule
<1>3. /\ DOMAIN StaleRules = 1..Len(StaleRules) /\ Len(StaleRules) \in Nat
      /\ \A i \in 1..Len(StaleRules) : StaleRules[i] \in Rule
  BY <1>1
<1> QED
  BY <1>2, <1>3 DEF RulesTyped

\* The bound that the policy finds is the one of the first rule, so that
\* a value is stale exactly if it has reached its bound.
LEMMA StaleIs ==
    ASSUME RulesWellFormed, clock \in Nat, NEW e, PlainTopic(e.topic), e.at \in Nat
    PROVE  Stale(e) <=> Overdue(e, 0)
<1> DEFINE found == {i \in DOMAIN StaleRules : topic_matches(StaleRules[i].filter, e.topic)}
           b == bound_secs(e.topic)
<1>1. /\ DOMAIN StaleRules = 1..Len(StaleRules) /\ Len(StaleRules) \in Nat
      /\ \A i \in DOMAIN StaleRules : StaleRules[i].filter \in LevelSeq /\ StaleRules[i].bound \in Nat
  BY RulesType DEF RulesTyped
<1>2. \A i \in DOMAIN StaleRules : i \in found <=> RuleFor(i, e.topic)
  BY <1>1, PlainMatches DEF RuleFor, RulesWellFormed
<1>3. ASSUME NEW x \in Nat PROVE OldFor(e, x, 0) <=> x # 0 /\ clock - e.at >= x
  BY DEF OldFor
<1>4. CASE found = {}
  <2>1. b = DefaultBound /\ DefaultBound \in Nat
    BY <1>4, RoutingAssumption DEF bound_secs
  <2>2. \A i \in DOMAIN StaleRules : ~RuleFor(i, e.topic)
    BY <1>2, <1>4
  <2> HIDE DEF found, b
  <2> QED
    BY <1>3, <2>1, <2>2 DEF Stale, Overdue, b
<1>5. CASE found # {}
  <2> DEFINE k == Min(found)
  <2>1. b = StaleRules[k].bound
    BY <1>5 DEF bound_secs
  <2>2. found \in SUBSET Nat
    BY <1>1
  <2>3. found \subseteq DOMAIN StaleRules
    OBVIOUS
  <2> HIDE DEF found, b
  <2>4. k \in found /\ \A y \in found : k <= y
    BY <1>5, <2>2, MinIs
  <2> HIDE DEF k
  <2>5. /\ k \in DOMAIN StaleRules /\ RuleFor(k, e.topic) /\ StaleRules[k].bound \in Nat
        /\ \A j \in 1..(k - 1) : ~RuleFor(j, e.topic)
    <3>1. k \in DOMAIN StaleRules /\ RuleFor(k, e.topic) /\ StaleRules[k].bound \in Nat
      BY <1>1, <1>2, <2>3, <2>4
    <3>2. \A j \in 1..(k - 1) : j \in DOMAIN StaleRules /\ ~(k <= j)
      BY <1>1, <3>1
    <3> QED
      BY <1>2, <2>4, <3>1, <3>2
  <2>6. ASSUME NEW i \in DOMAIN StaleRules, RuleFor(i, e.topic), \A j \in 1..(i - 1) : ~RuleFor(j, e.topic)
        PROVE  i = k
    <3>1. k <= i /\ i \in Nat /\ k \in Nat
      BY <1>1, <1>2, <2>4, <2>5, <2>6
    <3>2. ~(k \in 1..(i - 1))
      BY <2>5, <2>6
    <3>3. k >= 1
      BY <1>1, <2>5
    <3> QED
      BY <3>1, <3>2, <3>3
  <2>7. Overdue(e, 0) <=> OldFor(e, StaleRules[k].bound, 0)
    BY <2>5, <2>6 DEF Overdue
  <2> QED
    BY <1>3, <2>1, <2>5, <2>7 DEF Stale, b
<1> QED
  BY <1>4, <1>5

\* The live copies of a union.
LEMMA PairsUnion ==
    /\ \A A, B : Pairs(A \cup B) = Pairs(A) \cup Pairs(B)
    /\ \A c, f : Pairs(Handed(c, f)) = {}
<1>1. ASSUME NEW A, NEW B PROVE Pairs(A \cup B) = Pairs(A) \cup Pairs(B)
  BY DEF Pairs
<1>2. ASSUME NEW c, NEW f PROVE Pairs(Handed(c, f)) = {}
  BY DEF Pairs, Handed
<1> QED
  BY <1>1, <1>2

\* The pairs of a reader and the topic, for each of the topics.
ToReaders(s, topics, scope) == UNION {ReadersOf(s, t, scope) \X {t} : t \in {<<"$meta">> \o u : u \in topics}}

\* What a put under $meta delivers.
LEMMA MetaExact ==
    ASSUME ScopesDisjoint, NEW s, SubsInv(s), NEW c \in Clients, NEW u \in Seq(Names), u # << >>
    PROVE  Pairs(Relayed(Scope(c) \o (<<"@meta">> \o u), s))
             = ReadersOf(s, <<"$meta">> \o u, Scope(c)) \X {<<"$meta">> \o u}
<1> DEFINE r == <<"@meta">> \o u
<1>1. Public(r) /\ TopicOf(r) = <<"$meta">> \o u
  BY SpacePublic
<1>2. Home[c] \in Nodes /\ Scope(c) = ScopeOf[Home[c]]
  BY ScopeType
<1> HIDE DEF r
<1>3. Pairs(Relayed(ScopeOf[Home[c]] \o r, s))
        = ReadersOf(s, TopicOf(r), ScopeOf[Home[c]]) \X {TopicOf(r)}
  BY <1>1, <1>2, PairsExact, ZenonT(30)
<1> QED
  BY <1>1, <1>2, <1>3 DEF r

\* A value that exceeds its bound has reached it.
LEMMA ExceededReached ==
    ASSUME clock \in Nat, NEW e, e.at \in Nat, Overdue(e, 1)
    PROVE  Overdue(e, 0)
<1>1. /\ \A i \in DOMAIN StaleRules : StaleRules[i].bound \in Nat
      /\ DefaultBound \in Nat
  BY RulesType, RoutingAssumption DEF RulesTyped
<1>2. ASSUME NEW b \in Nat, OldFor(e, b, 1) PROVE OldFor(e, b, 0)
  BY <1>2 DEF OldFor
<1> QED
  BY <1>1, <1>2 DEF Overdue

\* What the code does, exactly: every value that has reached its bound is
\* flagged.
ReachedIsFlagged == sent.kind = "subscribe" => sent.by \in Clients /\ Flagging(Reached)

(***************************************************************************)
(* StaleIsFlagged for every instance with disjoint scopes whose staleness  *)
(* rules are well formed.                                                  *)
(***************************************************************************)
THEOREM StaleCorrect == ASSUME ScopesDisjoint, RulesWellFormed PROVE Spec => []StaleIsFlagged
<1>1. Init => ReachedIsFlagged
  BY DEF Init, Idle, ReachedIsFlagged
<1>2. RoutingInv /\ ReachedIsFlagged /\ [Next]_vars => ReachedIsFlagged'
  <2> SUFFICES ASSUME RoutingInv, ReachedIsFlagged, [Next]_vars PROVE ReachedIsFlagged'
    OBVIOUS
  <2>0. /\ ReachedIsFlagged <=>
             (sent.kind = "subscribe" =>
                sent.by \in Clients /\ Pairs(sent.copies) = ToReaders(subs, MetaTopics(Reached), Scope(sent.by)))
        /\ ReachedIsFlagged' <=>
             (sent'.kind = "subscribe" =>
                /\ sent'.by \in Clients
                /\ Pairs(sent'.copies) = ToReaders(subs', MetaTopics(Reached)', Scope(sent'.by)))
    BY DEF ReachedIsFlagged, Flagging, LiveCopies, Readers, Pairs, ReadersOf, ToReaders
  <2>1. ASSUME NEW c \in Clients, NEW f \in FilterNames, Subscribe(c, f) PROVE ReachedIsFlagged'
    <3> DEFINE s == subs'
               handed == {e \in stored[Home[c]] : f \in FiltersOf(e.topic)}
               old == {e \in handed : Overdue(e, 0)}
               topics == {EventTopic(c)} \cup {e.topic : e \in old}
               Meta(u) == ReadersOf(s, <<"$meta">> \o u, Scope(c)) \X {<<"$meta">> \o u}
    <3>1. /\ f \in LevelSeq /\ filter_to_keyexpr(f, Scope(c)) # Invalid
          /\ SubsInv(s) /\ stored' = stored /\ clock' = clock /\ sent'.by = c /\ sent'.name = f
          /\ sent'.copies = (Relayed(Event(c), s) \cup Handed(c, f)) \cup Flagged(c, f, s)
      BY <2>1, SubscribeEffect
    <3>2. \A e \in stored[Home[c]] : PlainTopic(e.topic) /\ e.at \in Nat
      BY ScopeType DEF RoutingInv, StoreInv
    <3>3. matching(c, f) = handed
      BY <3>1, MatchingIs
    <3>4. {m \in matching(c, f) : Stale(m)} = old
      BY <3>2, <3>3, StaleIs DEF RoutingInv
    <3>5. \A e \in old : PlainTopic(e.topic) /\ e.topic \in Seq(Names) /\ e.topic # << >>
      BY <3>2, PlainPublic
    <3> HIDE DEF s, handed, old
    <3>6. Pairs(Relayed(Event(c), s)) = Meta(EventTopic(c))
      <4>1. /\ EventTopic(c) \in Seq(Names) /\ EventTopic(c) # << >>
            /\ Event(c) = Scope(c) \o (<<"@meta">> \o EventTopic(c))
        BY Keys
      <4>2. Pairs(Relayed(Scope(c) \o (<<"@meta">> \o EventTopic(c)), s)) = Meta(EventTopic(c))
        BY <3>1, <4>1, MetaExact, SMTT(30)
      <4> QED
        BY <4>1, <4>2
    <3>7. ASSUME NEW e \in old PROVE Pairs(Relayed(meta_keyexpr(e.topic, Scope(c)), s)) = Meta(e.topic)
      <4>1. meta_keyexpr(e.topic, Scope(c)) = Scope(c) \o (<<"@meta">> \o e.topic)
        BY <3>5, Keys
      <4>2. Pairs(Relayed(Scope(c) \o (<<"@meta">> \o e.topic), s)) = Meta(e.topic)
        <5> DEFINE u == e.topic
        <5>1. u \in Seq(Names) /\ u # << >> /\ SubsInv(s)
          BY <3>1, <3>5
        <5> HIDE DEF u
        <5>2. Pairs(Relayed(Scope(c) \o (<<"@meta">> \o u), s)) = Meta(u)
          BY <5>1, MetaExact
        <5> QED
          BY <5>2 DEF u
      <4> QED
        BY <4>1, <4>2
    <3> HIDE DEF Meta
    <3>8. Flagged(c, f, s) = UNION {Relayed(meta_keyexpr(e.topic, Scope(c)), s) : e \in old}
      BY <3>4 DEF Flagged
    <3>9. Pairs(Flagged(c, f, s)) = UNION {Meta(e.topic) : e \in old}
      <4> DEFINE R(e) == Relayed(meta_keyexpr(e.topic, Scope(c)), s)
      <4>1. Pairs(UNION {R(e) : e \in old}) = UNION {Pairs(R(e)) : e \in old}
        <5> HIDE DEF R
        <5> QED
          BY DEF Pairs
      <4>2. {Pairs(R(e)) : e \in old} = {Meta(e.topic) : e \in old}
        BY <3>7
      <4> QED
        BY <3>8, <4>1, <4>2
    <3>10. Pairs(sent'.copies) = Meta(EventTopic(c)) \cup UNION {Meta(e.topic) : e \in old}
      <4> DEFINE A == Relayed(Event(c), s)
                 B == Handed(c, f)
                 C == Flagged(c, f, s)
      <4>a. Pairs(B) = {}
        BY PairsUnion
      <4>b. Pairs((A \cup B) \cup C) = Pairs(A \cup B) \cup Pairs(C) /\ Pairs(A \cup B) = Pairs(A) \cup Pairs(B)
        <5> HIDE DEF A, B, C
        <5> QED
          BY PairsUnion
      <4>1. Pairs(B) = {} /\ Pairs((A \cup B) \cup C) = (Pairs(A) \cup Pairs(B)) \cup Pairs(C)
        BY <4>a, <4>b
      <4>2. sent'.copies = (A \cup B) \cup C /\ Pairs(A) = Meta(EventTopic(c))
            /\ Pairs(C) = UNION {Meta(e.topic) : e \in old}
        BY <3>1, <3>6, <3>9
      <4> HIDE DEF A, B, C
      <4> QED
        BY <4>1, <4>2
    <3>11. ToReaders(s, topics, Scope(c)) = UNION {Meta(u) : u \in topics}
      BY DEF ToReaders, Meta
    <3>12. UNION {Meta(u) : u \in topics} = Meta(EventTopic(c)) \cup UNION {Meta(e.topic) : e \in old}
      OBVIOUS
    <3>13. Pairs(sent'.copies) = ToReaders(s, topics, Scope(c))
      BY <3>10, <3>11, <3>12
    <3>14. MetaTopics(Reached)' = topics
      BY <3>1 DEF MetaTopics, Reached, Shown, Overdue, OldFor, handed, old, EventTopic
    <3> HIDE DEF topics
    <3> QED
      BY <2>0, <3>1, <3>13, <3>14 DEF s
  <2>2. ASSUME NEW c \in Clients, NEW t \in TopicNames, NEW writes, NEW keep, Relay(c, t, writes, keep)
        PROVE  ReachedIsFlagged'
    BY <2>2, RelayEffect DEF ReachedIsFlagged
  <2>3. CASE UNCHANGED vars
    <3>1. MetaTopics(Reached)' = MetaTopics(Reached)
      BY <2>3 DEF MetaTopics, Reached, Shown, Overdue, OldFor, vars
    <3> QED
      BY <2>0, <2>3, <3>1 DEF vars
  <2>4. ASSUME NEW n \in Nodes, NEW suffix \in SysSuffixes, SysPublish(n, suffix)
        PROVE  ReachedIsFlagged'
    BY <2>4 DEF ReachedIsFlagged, SysPublish, Done
  <2>5. CASE Tick
    BY <2>5 DEF ReachedIsFlagged, Tick, Idle
  <2>6. CASE Taken
    BY <2>6 DEF ReachedIsFlagged, Taken, Idle
  <2> QED
    BY <2>1, <2>2, <2>3, <2>4, <2>5, <2>6
    DEF Next, SubscribeRefused, PublishDropped, Publish, FireWill
<1>3. RoutingInv /\ ReachedIsFlagged => StaleIsFlagged
  <2> SUFFICES ASSUME RoutingInv, ReachedIsFlagged, sent.kind = "subscribe"
               PROVE  \E values \in SUBSET Reached : Exceeded \subseteq values /\ Flagging(values)
    BY DEF StaleIsFlagged
  <2>1. \A e \in Shown : e.at \in Nat
    BY ScopeType DEF ReachedIsFlagged, RoutingInv, StoreInv, Shown
  <2>2. Exceeded \subseteq Reached
    BY <2>1, ExceededReached DEF RoutingInv, Exceeded, Reached
  <2> QED
    BY <2>2 DEF ReachedIsFlagged
<1> QED
  BY <1>1, <1>2, <1>3, RoutingInit, RoutingStep, PTL DEF Spec

=============================================================================
