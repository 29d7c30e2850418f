----------------------------- MODULE TopicProofs ----------------------------
(***************************************************************************)
(* Facts about the algorithms of topic.rs for topics, filters and scopes   *)
(* of any length: coverage of filters is sound, the two ways a filter is   *)
(* matched agree, scopes are apart, and keys give topics back.             *)
(***************************************************************************)
EXTENDS Topic, TLAPS

ValidTopic(t) == \A i \in 1..Len(t) : t[i] \in Names

ValidFilter(f) ==
    \A i \in 1..Len(f) :
       \/ f[i] \in Names
       \/ f[i] = "+"
       \/ f[i] = "#" /\ i = Len(f)
       \/ f[i] \in Spaces /\ i = 1

-----------------------------------------------------------------------------
\* A topic that topic_to_keyexpr accepts consists of plain names, and its
\* key is the scope followed by its levels.
LEMMA TopicAccepted ==
    ASSUME NEW t \in LevelSeq, NEW s \in Seq(Names), topic_to_keyexpr(t, s) # Invalid
    PROVE  ValidTopic(t) /\ topic_to_keyexpr(t, s) = s \o t
<1>1. /\ levels(t)
      /\ \A i \in DOMAIN t : t[i] \notin Wild \cup Partials /\ check_level_chars(t[i])
  BY DEF topic_to_keyexpr
<1>2. \A i \in 1..Len(t) : t[i] \in Level
  BY DEF LevelSeq
<1>3. DOMAIN t = 1..Len(t)
  BY DEF LevelSeq
<1>4. ValidTopic(t)
  BY <1>1, <1>2, <1>3 DEF ValidTopic, levels, check_level_chars, Level
<1> QED
  BY <1>1, <1>4 DEF topic_to_keyexpr, scoped

\* A filter that filter_to_keyexpr accepts has wildcards as whole levels,
\* `#' only last, and a space of the broker only first.
LEMMA FilterAccepted ==
    ASSUME NEW f \in LevelSeq, NEW s \in Seq(Names), filter_to_keyexpr(f, s) # Invalid
    PROVE  /\ ValidFilter(f)
           /\ filter_to_keyexpr(f, s) = s \o [i \in 1..Len(f) |-> FilterChunk(f, i)]
<1>1. /\ levels(f)
      /\ \A i \in DOMAIN f : FilterLevelOK(f, i)
  BY DEF filter_to_keyexpr
<1>2. \A i \in 1..Len(f) : f[i] \in Level
  BY DEF LevelSeq
<1>3. DOMAIN f = 1..Len(f)
  BY DEF LevelSeq
<1>4. ValidFilter(f)
  BY <1>1, <1>2, <1>3 DEF ValidFilter, FilterLevelOK, levels, check_level_chars, Level
<1> QED
  BY <1>1, <1>4 DEF filter_to_keyexpr, scoped

\* The chunk of each level of a valid filter.
LEMMA ChunkOf ==
    ASSUME NEW f \in LevelSeq, ValidFilter(f), NEW i \in 1..Len(f)
    PROVE  /\ f[i] = "+" => FilterChunk(f, i) = "*"
           /\ f[i] = "#" => FilterChunk(f, i) = "**"
           /\ f[i] \in Names => FilterChunk(f, i) = f[i]
           /\ f[i] \in Spaces => FilterChunk(f, i) \in Verbatim
<1>1. CASE f[i] = "+"
  BY <1>1, TopicAssumption DEF FilterChunk, Spaces, Wild
<1>2. CASE f[i] = "#"
  BY <1>2, TopicAssumption DEF FilterChunk, Spaces, Wild
<1>3. CASE f[i] \in Names
  BY <1>3, TopicAssumption DEF FilterChunk, Spaces, Wild
<1>4. CASE f[i] \in Spaces
  <2>1. i = 1
    BY <1>4, TopicAssumption DEF ValidFilter, Spaces, Wild
  <2> QED
    BY <1>4, <2>1, TopicAssumption DEF FilterChunk, Spaces, Wild, Verbatim
<1> QED
  BY <1>1, <1>2, <1>3, <1>4 DEF ValidFilter

-----------------------------------------------------------------------------
(***************************************************************************)
(* filter_covers is sound: whatever topic the requested filter i matches,  *)
(* the granted filter o matches as well (auth.rs:70 rests on this).        *)
(***************************************************************************)
THEOREM CoverSound ==
    ASSUME NEW S, NEW o \in Seq(S), NEW i \in Seq(S), NEW t \in Seq(S),
           filter_covers(o, i), topic_matches(i, t)
    PROVE  topic_matches(o, t)
<1>1. PICK n \in 1..(Len(o) + 1) :
         /\ \A j \in 1..(n - 1) : CoversLevel(o, i, j)
         /\ \/ n <= Len(o) /\ o[n] = "#"
            \/ n = Len(o) + 1 /\ Len(i) = Len(o)
  BY DEF filter_covers
<1>2. \A j \in 1..(n - 1) : i[j] # "#"
  BY <1>1 DEF CoversLevel
<1>3. \A j \in 1..(n - 1) : j <= Len(t) /\ i[j] \in {"+", t[j]}
  <2>1. CASE Len(i) = Len(t) /\ \A j \in 1..Len(i) : i[j] # "#" /\ i[j] \in {"+", t[j]}
    BY <1>1, <2>1 DEF CoversLevel
  <2>2. CASE \E h \in 1..Len(i) :
               /\ i[h] = "#"
               /\ \A j \in 1..(h - 1) : i[j] # "#" /\ j <= Len(t) /\ i[j] \in {"+", t[j]}
    <3>1. PICK h \in 1..Len(i) :
            /\ i[h] = "#"
            /\ \A j \in 1..(h - 1) : i[j] # "#" /\ j <= Len(t) /\ i[j] \in {"+", t[j]}
      BY <2>2
    <3>2. n <= h
      BY <1>1, <1>2, <3>1
    <3> QED
      BY <3>1, <3>2
  <2> QED
    BY <2>1, <2>2 DEF topic_matches
<1>4. \A j \in 1..(n - 1) : o[j] # "#" /\ j <= Len(t) /\ o[j] \in {"+", t[j]}
  BY <1>1, <1>3 DEF CoversLevel
<1>5. CASE n <= Len(o) /\ o[n] = "#"
  BY <1>1, <1>4, <1>5 DEF topic_matches
<1>6. CASE n = Len(o) + 1 /\ Len(i) = Len(o)
  <2>1. Len(t) = Len(i)
    BY <1>2, <1>6 DEF topic_matches
  <2> QED
    BY <1>4, <1>6, <2>1 DEF topic_matches
<1> QED
  BY <1>1, <1>5, <1>6

-----------------------------------------------------------------------------
\* A scope in front of both sides changes nothing in zenoh's matching.
LEMMA ScopeShift ==
    ASSUME NEW S, NEW s \in Seq(S), NEW c \in Seq(S), NEW k \in Seq(S), Len(c) > 0
    PROVE  ZenohMatches(s \o c, s \o k) <=> ZenohMatches(c, k)
<1> DEFINE open == c[Len(c)] = "**"
           n    == IF open THEN Len(c) - 1 ELSE Len(c)
           m    == Len(s) + n
<1>1. /\ Len(s \o c) = Len(s) + Len(c) /\ Len(s \o k) = Len(s) + Len(k)
      /\ \A i \in 1..Len(s) : (s \o c)[i] = s[i] /\ (s \o k)[i] = s[i]
      /\ \A i \in 1..Len(c) : (s \o c)[Len(s) + i] = c[i]
      /\ \A i \in 1..Len(k) : (s \o k)[Len(s) + i] = k[i]
      /\ Len(s) \in Nat /\ Len(c) \in Nat /\ Len(k) \in Nat
  OBVIOUS
<1>2. (s \o c)[Len(s \o c)] = c[Len(c)]
  <2>1. Len(c) \in 1..Len(c)
    BY <1>1
  <2> QED
    BY <1>1, <2>1
<1>3. n \in 0..Len(c) /\ m \in Nat
  BY <1>1
<1>4. ZenohMatches(c, k) <=>
        /\ IF open THEN n <= Len(k) ELSE n = Len(k)
        /\ \A i \in 1..n : c[i] = k[i] \/ (c[i] = "*" /\ k[i] \notin Verbatim)
        /\ \A i \in (n + 1)..Len(k) : k[i] \notin Verbatim
  BY Zenon DEF ZenohMatches
<1>5. ZenohMatches(s \o c, s \o k) <=>
        /\ IF open THEN m <= Len(s \o k) ELSE m = Len(s \o k)
        /\ \A i \in 1..m : (s \o c)[i] = (s \o k)[i] \/ ((s \o c)[i] = "*" /\ (s \o k)[i] \notin Verbatim)
        /\ \A i \in (m + 1)..Len(s \o k) : (s \o k)[i] \notin Verbatim
  <2>1. (IF (s \o c)[Len(s \o c)] = "**" THEN Len(s \o c) - 1 ELSE Len(s \o c)) = m
    BY <1>1, <1>2
  <2> QED
    BY <1>2, <2>1, Zenon DEF ZenohMatches
<1> HIDE DEF open, n, m
<1>6. (IF open THEN m <= Len(s \o k) ELSE m = Len(s \o k))
        <=> (IF open THEN n <= Len(k) ELSE n = Len(k))
  <2>1. \A x, y, z \in Nat : (x + y <= x + z <=> y <= z) /\ (x + y = x + z <=> y = z)
    OBVIOUS
  <2>2. n \in Nat
    BY <1>1, <1>3
  <2>3. (m <= Len(s \o k) <=> n <= Len(k)) /\ (m = Len(s \o k) <=> n = Len(k))
    <3>1. Len(s \o k) = Len(s) + Len(k) /\ Len(s) \in Nat /\ Len(k) \in Nat
      BY <1>1
    <3>2. (Len(s) + n <= Len(s) + Len(k) <=> n <= Len(k)) /\ (Len(s) + n = Len(s) + Len(k) <=> n = Len(k))
      BY <2>1, <2>2, <3>1, SMTT(30)
    <3> QED
      BY <3>1, <3>2, Zenon DEF m
  <2> QED
    BY <2>3, Zenon
<1>7. ASSUME IF open THEN n <= Len(k) ELSE n = Len(k)
      PROVE  (\A i \in 1..m : (s \o c)[i] = (s \o k)[i] \/ ((s \o c)[i] = "*" /\ (s \o k)[i] \notin Verbatim))
                <=> (\A i \in 1..n : c[i] = k[i] \/ (c[i] = "*" /\ k[i] \notin Verbatim))
  <2>1. n <= Len(k)
    BY <1>1, <1>3, <1>7
  <2>2. \A i \in 1..n : (s \o c)[Len(s) + i] = c[i] /\ (s \o k)[Len(s) + i] = k[i] /\ Len(s) + i \in 1..m
    BY <1>1, <1>3, <2>1 DEF m
  <2>3. \A i \in 1..m : i \in 1..Len(s) \/ (i - Len(s) \in 1..n /\ i = Len(s) + (i - Len(s)))
    BY <1>1, <1>3 DEF m
  <2>4. ASSUME \A i \in 1..n : c[i] = k[i] \/ (c[i] = "*" /\ k[i] \notin Verbatim), NEW i \in 1..m
        PROVE  (s \o c)[i] = (s \o k)[i] \/ ((s \o c)[i] = "*" /\ (s \o k)[i] \notin Verbatim)
    <3>1. CASE i \in 1..Len(s)
      BY <1>1, <3>1
    <3>2. CASE i - Len(s) \in 1..n /\ i = Len(s) + (i - Len(s))
      <4> DEFINE j == i - Len(s)
      <4>1. j \in 1..n /\ i = Len(s) + j
        BY <3>2
      <4> HIDE DEF j
      <4>2. (s \o c)[i] = c[j] /\ (s \o k)[i] = k[j]
        BY <2>2, <4>1
      <4> QED
        BY <2>4, <4>1, <4>2
    <3> QED
      BY <2>3, <3>1, <3>2
  <2>5. ASSUME \A i \in 1..m : (s \o c)[i] = (s \o k)[i] \/ ((s \o c)[i] = "*" /\ (s \o k)[i] \notin Verbatim),
               NEW i \in 1..n
        PROVE  c[i] = k[i] \/ (c[i] = "*" /\ k[i] \notin Verbatim)
    BY <2>2, <2>5, Zenon
  <2> QED
    BY <2>4, <2>5
<1>8. (\A i \in (m + 1)..Len(s \o k) : (s \o k)[i] \notin Verbatim)
        <=> (\A i \in (n + 1)..Len(k) : k[i] \notin Verbatim)
  <2>1. \A i \in (n + 1)..Len(k) : (s \o k)[Len(s) + i] = k[i] /\ Len(s) + i \in (m + 1)..Len(s \o k)
    BY <1>1, <1>3 DEF m
  <2>2. \A i \in (m + 1)..Len(s \o k) : i - Len(s) \in (n + 1)..Len(k) /\ i = Len(s) + (i - Len(s))
    BY <1>1, <1>3 DEF m
  <2>3. ASSUME \A i \in (n + 1)..Len(k) : k[i] \notin Verbatim, NEW i \in (m + 1)..Len(s \o k)
        PROVE  (s \o k)[i] \notin Verbatim
    <3> DEFINE j == i - Len(s)
    <3>1. j \in (n + 1)..Len(k) /\ i = Len(s) + j
      BY <2>2
    <3> HIDE DEF j
    <3> QED
      BY <2>1, <2>3, <3>1
  <2> QED
    BY <2>1, <2>3, Zenon
<1> QED
  BY <1>4, <1>5, <1>6, <1>7, <1>8, Zenon

\* A valid filter's key expression, chunk by chunk, against a plain name.
LEMMA ChunkMatches ==
    ASSUME NEW f \in LevelSeq, ValidFilter(f), NEW i \in 1..Len(f), NEW x \in Names
    PROVE  /\ (FilterChunk(f, i) = x \/ (FilterChunk(f, i) = "*" /\ x \notin Verbatim))
                <=> f[i] \in {"+", x}
           /\ FilterChunk(f, i) = "**" <=> f[i] = "#"
<1>1. x \notin Verbatim /\ x # "*" /\ x # "**" /\ x # "+" /\ x # "#"
  BY TopicAssumption DEF Wild
<1>2. f[i] \in Names => f[i] \notin Verbatim \cup {"*", "**", "+", "#"}
  BY TopicAssumption DEF Wild
<1>3. \/ f[i] \in Names \/ f[i] = "+" \/ f[i] = "#" \/ f[i] \in Spaces
  BY DEF ValidFilter
<1> QED
  BY <1>1, <1>2, <1>3, ChunkOf, TopicAssumption DEF Spaces, Verbatim, Wild

\* Without a scope: zenoh's matching of the keys is topic_matches.
LEMMA MatchUnscoped ==
    ASSUME NEW f \in LevelSeq, ValidFilter(f), NEW t \in LevelSeq, ValidTopic(t)
    PROVE  ZenohMatches([i \in 1..Len(f) |-> FilterChunk(f, i)], t) <=> topic_matches(f, t)
<1> DEFINE c == [i \in 1..Len(f) |-> FilterChunk(f, i)]
           n == IF f[Len(f)] = "#" THEN Len(f) - 1 ELSE Len(f)
<1>1. Len(f) \in Nat /\ Len(f) > 0 /\ Len(t) \in Nat /\ Len(t) > 0
  BY DEF LevelSeq
<1>2. Len(c) = Len(f) /\ \A i \in 1..Len(f) : c[i] = FilterChunk(f, i)
  BY <1>1
<1>3. \A i \in 1..Len(t) : t[i] \in Names /\ t[i] \notin Verbatim
  BY TopicAssumption DEF ValidTopic
<1>4. \A i \in 1..Len(f) : c[i] = "**" <=> f[i] = "#"
  <2> SUFFICES ASSUME NEW i \in 1..Len(f) PROVE c[i] = "**" <=> f[i] = "#"
    OBVIOUS
  <2>1. t[1] \in Names
    BY <1>1, <1>3
  <2> QED
    BY <1>2, <2>1, ChunkMatches
<1>5. \A i \in 1..Len(f) : i <= Len(t) =>
         ((c[i] = t[i] \/ (c[i] = "*" /\ t[i] \notin Verbatim)) <=> f[i] \in {"+", t[i]})
  <2> SUFFICES ASSUME NEW i \in 1..Len(f), i <= Len(t)
               PROVE (c[i] = t[i] \/ (c[i] = "*" /\ t[i] \notin Verbatim)) <=> f[i] \in {"+", t[i]}
    OBVIOUS
  <2>1. t[i] \in Names
    BY <1>1, <1>3
  <2> QED
    BY <1>2, <2>1, ChunkMatches
<1>6. \A i \in 1..(Len(f) - 1) : f[i] # "#"
  <2> SUFFICES ASSUME NEW i \in 1..(Len(f) - 1), f[i] = "#" PROVE FALSE
    OBVIOUS
  <2>1. i \in 1..Len(f) /\ i # Len(f)
    BY <1>1
  <2>2. "#" \notin Names /\ "#" \notin Spaces
    BY TopicAssumption DEF Wild, Spaces
  <2> QED
    BY <2>1, <2>2 DEF ValidFilter
<1>7. ZenohMatches(c, t) <=>
        /\ IF f[Len(f)] = "#" THEN n <= Len(t) ELSE n = Len(t)
        /\ \A i \in 1..n : c[i] = t[i] \/ (c[i] = "*" /\ t[i] \notin Verbatim)
        /\ \A i \in (n + 1)..Len(t) : t[i] \notin Verbatim
  <2>1. c[Len(c)] = "**" <=> f[Len(f)] = "#"
    BY <1>1, <1>2, <1>4
  <2>2. (IF c[Len(c)] = "**" THEN Len(c) - 1 ELSE Len(c)) = n
    BY <1>2, <2>1
  <2> HIDE DEF c, n
  <2> QED
    BY <2>1, <2>2, Zenon DEF ZenohMatches
<1> HIDE DEF c
<1>8. CASE f[Len(f)] = "#"
  <2>1. ZenohMatches(c, t) <=>
          Len(f) - 1 <= Len(t) /\ \A i \in 1..(Len(f) - 1) : f[i] \in {"+", t[i]}
    BY <1>1, <1>3, <1>5, <1>7, <1>8, SMTT(30)
  <2>2. topic_matches(f, t) <=>
          \A i \in 1..(Len(f) - 1) : f[i] # "#" /\ i <= Len(t) /\ f[i] \in {"+", t[i]}
    <3>1. ASSUME topic_matches(f, t)
          PROVE  \A i \in 1..(Len(f) - 1) : f[i] # "#" /\ i <= Len(t) /\ f[i] \in {"+", t[i]}
      <4>1. PICK h \in 1..Len(f) :
              /\ f[h] = "#"
              /\ \A i \in 1..(h - 1) : f[i] # "#" /\ i <= Len(t) /\ f[i] \in {"+", t[i]}
        BY <1>1, <1>8, <3>1 DEF topic_matches
      <4>2. h = Len(f)
        BY <1>1, <1>6, <4>1
      <4> QED
        BY <4>1, <4>2
    <3>2. ASSUME \A i \in 1..(Len(f) - 1) : f[i] # "#" /\ i <= Len(t) /\ f[i] \in {"+", t[i]}
          PROVE  topic_matches(f, t)
      <4>1. Len(f) \in 1..Len(f)
        BY <1>1
      <4> QED
        BY <1>8, <3>2, <4>1 DEF topic_matches
    <3> QED
      BY <3>1, <3>2
  <2>3. (Len(f) - 1 <= Len(t) /\ \A i \in 1..(Len(f) - 1) : f[i] \in {"+", t[i]})
          <=> \A i \in 1..(Len(f) - 1) : f[i] # "#" /\ i <= Len(t) /\ f[i] \in {"+", t[i]}
    <3>1. ASSUME \A i \in 1..(Len(f) - 1) : i <= Len(t) PROVE Len(f) - 1 <= Len(t)
      <4>1. CASE Len(f) = 1
        BY <1>1, <4>1
      <4>2. CASE Len(f) > 1
        BY <1>1, <3>1, <4>2
      <4> QED
        BY <1>1, <4>1, <4>2
    <3> QED
      BY <1>1, <1>6, <3>1
  <2> QED
    BY <2>1, <2>2, <2>3 DEF c
<1>9. CASE f[Len(f)] # "#"
  <2>1. \A i \in 1..Len(f) : f[i] # "#"
    BY <1>1, <1>6, <1>9
  <2>2. ZenohMatches(c, t) <=> Len(f) = Len(t) /\ \A i \in 1..Len(f) : f[i] \in {"+", t[i]}
    BY <1>1, <1>3, <1>5, <1>7, <1>9
  <2> QED
    BY <2>1, <2>2 DEF topic_matches, c
<1> QED
  BY <1>8, <1>9

(***************************************************************************)
(* The live path and the retained path agree: zenoh delivers a sample on   *)
(* the key of t to the key expression of f exactly when topic_matches, on  *)
(* which retained lookups, ACLs and staleness rules rest, says that f      *)
(* matches t (topic.rs:61, topic.rs:82, topic.rs:133).                     *)
(***************************************************************************)
THEOREM MatchAgrees ==
    ASSUME NEW f \in LevelSeq, NEW t \in LevelSeq, NEW s \in Seq(Names),
           filter_to_keyexpr(f, s) # Invalid, topic_to_keyexpr(t, s) # Invalid
    PROVE  ZenohMatches(filter_to_keyexpr(f, s), topic_to_keyexpr(t, s)) <=> topic_matches(f, t)
<1> DEFINE c == [i \in 1..Len(f) |-> FilterChunk(f, i)]
<1>1. ValidFilter(f) /\ filter_to_keyexpr(f, s) = s \o c
  BY FilterAccepted
<1>2. ValidTopic(t) /\ topic_to_keyexpr(t, s) = s \o t
  BY TopicAccepted
<1>3. c \in Seq(Level) /\ Len(c) > 0
  <2>1. \A i \in 1..Len(f) : FilterChunk(f, i) \in Level
    BY <1>1, ChunkOf, TopicAssumption, ZenonT(30) DEF ValidFilter, Level
  <2>2. Len(f) \in Nat /\ Len(f) > 0
    BY DEF LevelSeq
  <2> QED
    BY <2>1, <2>2
<1>4. s \in Seq(Level) /\ t \in Seq(Level)
  <2>1. Names \subseteq Level
    BY DEF Level
  <2>2. s \in Seq(Level)
    BY <2>1
  <2>3. t \in Seq(Level)
    BY DEF LevelSeq
  <2> QED
    BY <2>2, <2>3
<1>5. ZenohMatches(s \o c, s \o t) <=> ZenohMatches(c, t)
  BY <1>3, <1>4, ScopeShift
<1>6. ZenohMatches(c, t) <=> topic_matches(f, t)
  BY <1>1, <1>2, MatchUnscoped
<1> QED
  BY <1>1, <1>2, <1>5, <1>6

-----------------------------------------------------------------------------
\* Cutting the scope off a scoped key gives back what was scoped.
LEMMA StripScoped ==
    ASSUME NEW S, NEW s \in Seq(S), NEW k \in Seq(S), Len(k) > 0
    PROVE  strip_scope(s \o k, s) = k
<1>1. Len(s) \in Nat /\ Len(k) \in Nat /\ Len(s \o k) = Len(s) + Len(k)
  OBVIOUS
<1>2. SubSeq(s \o k, 1, Len(s)) = s
  OBVIOUS
<1>3. SubSeq(s \o k, Len(s) + 1, Len(s \o k)) = k
  BY <1>1
<1> QED
  BY <1>1, <1>2, <1>3 DEF strip_scope

(***************************************************************************)
(* Names survive the detour: the topic a subscriber's task takes from the  *)
(* key of a sample is the one the message was published on, and the topic  *)
(* the retained store keeps it under too (topic.rs:61, 118, 196).          *)
(***************************************************************************)
THEOREM RoundTrip ==
    ASSUME NEW t \in LevelSeq, NEW s \in Seq(Names), topic_to_keyexpr(t, s) # Invalid
    PROVE  /\ keyexpr_to_topic(topic_to_keyexpr(t, s), s) = t
           /\ retained_keyexpr_to_topic(retained_keyexpr(t, s), s) = t
<1>1. ValidTopic(t) /\ topic_to_keyexpr(t, s) = s \o t
  BY TopicAccepted
<1>2. t \in Seq(Level) /\ Len(t) \in Nat /\ Len(t) > 0
  BY DEF LevelSeq
<1>3. s \in Seq(Level)
  <2>1. Names \subseteq Level
    BY DEF Level
  <2> QED
    BY <2>1
<1>4. t[1] \in Names
  BY <1>1, <1>2 DEF ValidTopic
<1>5. t[1] \notin Verbatim
  BY <1>4, TopicAssumption
<1>6. strip_scope(s \o t, s) = t
  BY <1>2, <1>3, StripScoped
<1>7. keyexpr_to_topic(s \o t, s) = t
  <2>1. t # << >>
    BY <1>2
  <2> QED
    BY <1>5, <1>6, <2>1 DEF keyexpr_to_topic, Invalid, Verbatim
<1>8. retained_keyexpr_to_topic(retained_keyexpr(t, s), s) = t
  <2> DEFINE k == <<"@retained">> \o t
  <2>1. /\ k \in Seq(Level) /\ Len(k) = Len(t) + 1
        /\ k[1] = "@retained" /\ Tail(k) = t
    <3>1. "@retained" \in Level
      BY TopicAssumption DEF Level, Verbatim
    <3> QED
      BY <1>2, <3>1
  <2> HIDE DEF k
  <2>2. strip_scope(s \o k, s) = k
    BY <1>2, <1>3, <2>1, StripScoped
  <2>3. k # << >>
    BY <1>2, <2>1
  <2>4. retained_keyexpr(t, s) = s \o k
    BY DEF retained_keyexpr, scoped, k
  <2> QED
    BY <1>2, <2>1, <2>2, <2>3, <2>4 DEF retained_keyexpr_to_topic, Invalid
<1> QED
  BY <1>1, <1>7, <1>8

\* Keys under scopes that differ at some chunk never match.
LEMMA Apart ==
    ASSUME NEW a \in Seq(Names), NEW b \in Seq(Names), NEW c \in Seq(Level), NEW k \in Seq(Level),
           Len(c) > 0, NEW j \in 1..Len(a), j <= Len(b), a[j] # b[j]
    PROVE  ~ZenohMatches(a \o c, b \o k)
<1> DEFINE ke == a \o c
           n  == IF ke[Len(ke)] = "**" THEN Len(ke) - 1 ELSE Len(ke)
<1>1. Len(a) \in Nat /\ Len(b) \in Nat /\ Len(c) \in Nat
  OBVIOUS
<1>2. Names \subseteq Level
  BY DEF Level
<1>3. Len(ke) = Len(a) + Len(c)
  BY <1>2
<1>4. ke[j] = a[j] /\ (b \o k)[j] = b[j]
  BY <1>1, <1>2
<1>5. j \in 1..n
  BY <1>1, <1>3
<1>6. ke[j] # "*"
  <2>1. a[j] \in Names
    OBVIOUS
  <2> QED
    BY <1>4, <2>1, TopicAssumption
<1> HIDE DEF ke
<1>7. ZenohMatches(ke, b \o k) => ke[j] = (b \o k)[j] \/ ke[j] = "*"
  BY <1>5 DEF ZenohMatches
<1> QED
  BY <1>4, <1>6, <1>7 DEF ke

(***************************************************************************)
(* Scopes isolate: nodes whose scopes part at some chunk see nothing of    *)
(* each other, neither live messages nor retained ones (config.rs:18       *)
(* "isolating the MQTT namespace on a shared fabric").                     *)
(***************************************************************************)
THEOREM ScopesIsolate ==
    ASSUME NEW a \in Seq(Names), NEW b \in Seq(Names),
           NEW j \in 1..Len(a), j <= Len(b), a[j] # b[j],
           NEW f \in LevelSeq, NEW t \in LevelSeq,
           filter_to_keyexpr(f, a) # Invalid, topic_to_keyexpr(t, b) # Invalid
    PROVE  /\ ~ZenohMatches(filter_to_keyexpr(f, a), topic_to_keyexpr(t, b))
           /\ ~ZenohMatches(retained_filter(a), retained_keyexpr(t, b))
<1> DEFINE c == [i \in 1..Len(f) |-> FilterChunk(f, i)]
<1>1. ValidFilter(f) /\ filter_to_keyexpr(f, a) = a \o c
  BY FilterAccepted
<1>2. topic_to_keyexpr(t, b) = b \o t
  BY TopicAccepted
<1>3. t \in Seq(Level) /\ Len(f) \in Nat /\ Len(f) > 0
  BY DEF LevelSeq
<1>4. c \in Seq(Level) /\ Len(c) > 0
  <2>1. \A i \in 1..Len(f) : FilterChunk(f, i) \in Level
    BY <1>1, ChunkOf, TopicAssumption, ZenonT(30) DEF ValidFilter, Level
  <2> QED
    BY <1>3, <2>1
<1> HIDE DEF c
<1>5. ~ZenohMatches(a \o c, b \o t)
  BY <1>3, <1>4, Apart
<1>6. ~ZenohMatches(retained_filter(a), retained_keyexpr(t, b))
  <2>1. "@retained" \in Level /\ "**" \in Level
    BY TopicAssumption DEF Level, Verbatim
  <2>2. <<"@retained", "**">> \in Seq(Level) /\ Len(<<"@retained", "**">>) > 0
    BY <2>1
  <2>3. <<"@retained">> \o t \in Seq(Level)
    BY <1>3, <2>1
  <2> QED
    BY <2>2, <2>3, Apart DEF retained_filter, retained_keyexpr, scoped
<1> QED
  BY <1>1, <1>2, <1>5, <1>6

=============================================================================
