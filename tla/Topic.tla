------------------------------- MODULE Topic --------------------------------
(***************************************************************************)
(* MQTT topics and filters and the zenoh key expressions they become       *)
(* (crates/entmoot-core/src/topic.rs).  What the code splits at `/' is a   *)
(* sequence here: a topic or a filter is a sequence of levels, a key a     *)
(* sequence of chunks, the scope a sequence of chunks that may be empty.   *)
(* Of the characters inside a level only their class matters.              *)
(***************************************************************************)
EXTENDS Naturals, Sequences

CONSTANTS
    Names,     \* levels without wildcards, zenoh syntax or a leading `@'
    Partials,  \* levels that hold `+' or `#' among other characters
    Reserved   \* levels without wildcards but with a leading `@', or `*', `$', `?'

Verbatim == {"@retained", "@sys", "@meta"}   \* RETAINED_CHUNK, SYS_CHUNK, META_CHUNK
Spaces   == {"$SYS", "$meta"}                \* SYS_PREFIX, META_PREFIX
Wild     == {"+", "#"}

ASSUME TopicAssumption ==
    /\ Verbatim \cup Spaces \cup {"*", "**"} \subseteq Reserved
    /\ Names \cap (Partials \cup Reserved \cup Wild \cup {""}) = {}
    /\ Partials \cap (Reserved \cup Wild \cup {""}) = {}
    /\ Reserved \cap (Wild \cup {""}) = {}

Level == Names \cup Partials \cup Reserved \cup Wild \cup {""}
Chunk == Names \cup Verbatim

\* What splitting a string at `/' gives: at least one level.
LevelSeq == {s \in Seq(Level) : Len(s) > 0}

Invalid == << >>   \* an error: no topic, filter or key has no level at all

-----------------------------------------------------------------------------
check_level_chars(l) == l \notin Reserved

\* No level may be empty; the empty topic is one empty level.
levels(s) == \A i \in DOMAIN s : s[i] # ""

scoped(scope, ke) == scope \o ke

\* Mutant: wildcards in a topic to publish on go unnoticed.
topic_to_keyexpr_unchecked(t, scope) ==
    IF levels(t) /\ \A i \in DOMAIN t : check_level_chars(t[i]) THEN scoped(scope, t)
    ELSE Invalid

\* Mutant: the scope is left out.
topic_to_keyexpr_unscoped(t, scope) ==
    IF /\ levels(t)
       /\ \A i \in DOMAIN t : t[i] \notin Wild \cup Partials /\ check_level_chars(t[i])
    THEN t
    ELSE Invalid

topic_to_keyexpr(t, scope) ==
    IF /\ levels(t)
       /\ \A i \in DOMAIN t : t[i] \notin Wild \cup Partials /\ check_level_chars(t[i])
    THEN scoped(scope, t)
    ELSE Invalid

FilterLevelOK(f, i) ==
    \/ i = 1 /\ f[i] \in Spaces
    \/ f[i] = "+"
    \/ f[i] = "#" /\ i = Len(f)
    \/ f[i] \notin Wild \cup Partials /\ check_level_chars(f[i])

FilterChunk(f, i) ==
    CASE i = 1 /\ f[i] = "$SYS"  -> "@sys"
      [] i = 1 /\ f[i] = "$meta" -> "@meta"
      [] f[i] = "+"              -> "*"
      [] f[i] = "#"              -> "**"
      [] OTHER                   -> f[i]

filter_to_keyexpr(f, scope) ==
    IF levels(f) /\ \A i \in DOMAIN f : FilterLevelOK(f, i)
    THEN scoped(scope, [i \in 1..Len(f) |-> FilterChunk(f, i)])
    ELSE Invalid

strip_scope(ke, scope) ==
    IF Len(scope) < Len(ke) /\ SubSeq(ke, 1, Len(scope)) = scope
    THEN SubSeq(ke, Len(scope) + 1, Len(ke))
    ELSE Invalid

\* The MQTT topic of a sample's key; internal keyspaces other than the
\* broker's two public ones have none.
keyexpr_to_topic(ke, scope) ==
    LET rest == strip_scope(ke, scope)
    IN  CASE rest = Invalid -> Invalid
          [] rest # Invalid /\ rest[1] \in {"@sys", "@meta"} ->
               IF Len(rest) = 1 THEN Invalid
               ELSE <<IF rest[1] = "@sys" THEN "$SYS" ELSE "$meta">> \o Tail(rest)
          [] rest # Invalid /\ rest[1] = "@retained" -> Invalid
          [] OTHER -> rest

-----------------------------------------------------------------------------
\* The loop over the filter's levels: it returns true at the first `#', or
\* runs to the end of both.
topic_matches(f, t) ==
    \/ /\ Len(f) = Len(t)
       /\ \A i \in 1..Len(f) : f[i] # "#" /\ f[i] \in {"+", t[i]}
    \/ \E h \in 1..Len(f) :
         /\ f[h] = "#"
         /\ \A i \in 1..(h - 1) : f[i] # "#" /\ i <= Len(t) /\ f[i] \in {"+", t[i]}

\* Mutant: `+' is taken to grant what `#' asks for.
CoversLevel_any(o, i, j) ==
    /\ j <= Len(i)
    /\ o[j] # "#"
    /\ o[j] = "+" \/ o[j] = i[j]

\* One turn of filter_covers' loop that neither returns true nor false.
CoversLevel(o, i, j) ==
    /\ j <= Len(i)
    /\ o[j] # "#"
    /\ IF o[j] = "+" THEN i[j] # "#" ELSE o[j] = i[j]

\* The loop of filter_covers: n is the index at which it returns true.
filter_covers(o, i) ==
    \E n \in 1..(Len(o) + 1) :
       /\ \A j \in 1..(n - 1) : CoversLevel(o, i, j)
       /\ \/ n <= Len(o) /\ o[n] = "#"
          \/ n = Len(o) + 1 /\ Len(i) = Len(o)

-----------------------------------------------------------------------------
\* The broker's internal keyspaces.
retained_keyexpr(t, scope) == scoped(scope, <<"@retained">> \o t)
retained_filter(scope)     == scoped(scope, <<"@retained", "**">>)
sys_keyexpr(suffix, scope) == scoped(scope, <<"@sys">> \o suffix)
meta_keyexpr(t, scope)     == scoped(scope, <<"@meta">> \o t)

retained_keyexpr_to_topic(ke, scope) ==
    LET rest == strip_scope(ke, scope)
    IN  IF rest # Invalid /\ rest[1] = "@retained" /\ Len(rest) > 1 THEN Tail(rest)
        ELSE Invalid

(***************************************************************************)
(* External: zenoh's matching of a concrete key against a key expression.  *)
(* `*' stands for one chunk and `**', which is only ever last here, for    *)
(* any number of them; neither stands for a verbatim chunk.                *)
(***************************************************************************)
ZenohMatches(ke, key) ==
    LET open == ke[Len(ke)] = "**"
        n    == IF open THEN Len(ke) - 1 ELSE Len(ke)
    IN  /\ IF open THEN n <= Len(key) ELSE n = Len(key)
        /\ \A i \in 1..n : ke[i] = key[i] \/ (ke[i] = "*" /\ key[i] \notin Verbatim)
        /\ \A i \in (n + 1)..Len(key) : key[i] \notin Verbatim

=============================================================================
