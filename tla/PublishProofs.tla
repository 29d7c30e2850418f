--------------------------- MODULE PublishProofs ----------------------------
(***************************************************************************)
(* What PublishPath promises, for any messages, any number of connections, *)
(* any rate and any number of faults: types, that what was acknowledged    *)
(* was relayed, that no packet id is left behind, and that the limiter is  *)
(* a bucket which fills by itself.                                         *)
(***************************************************************************)
EXTENDS PublishPath, SequenceTheorems, TLAPS

\* handle_publish is at work on conn[c].msg.
Busy(r) == r.pc \in {"put", "retain", "ack"}

TypeInv ==
    /\ TypeOK
    /\ \A c \in Slots : Busy(conn[c]) => conn[c].msg \in Ids

-----------------------------------------------------------------------------
(***************************************************************************)
(* Sequences.                                                              *)
(***************************************************************************)

\* What a sequence holds after a packet is added to it.
LEMMA AppendHolds ==
    ASSUME NEW S, NEW s \in Seq(S), NEW e \in S
    PROVE  Append(s, e) \in Seq(S) /\ Range(Append(s, e)) = Range(s) \cup {e}
<1>1. /\ Append(s, e) \in Seq(S)
      /\ DOMAIN Append(s, e) = 1..(Len(s) + 1)
      /\ DOMAIN s = 1..Len(s) /\ Len(s) \in Nat
      /\ \A i \in 1..Len(s) : Append(s, e)[i] = s[i]
      /\ Append(s, e)[Len(s) + 1] = e
  OBVIOUS
<1>2. Range(Append(s, e)) \subseteq Range(s) \cup {e}
  BY <1>1 DEF Range
<1>3. Range(s) \subseteq Range(Append(s, e))
  BY <1>1 DEF Range
<1>4. e \in Range(Append(s, e))
  BY <1>1 DEF Range
<1> QED
  BY <1>1, <1>2, <1>3, <1>4

\* And after its first one is taken.
LEMMA TailHolds ==
    ASSUME NEW S, NEW s \in Seq(S), s # << >>
    PROVE  /\ Head(s) \in S /\ Tail(s) \in Seq(S)
           /\ Head(s) \in Range(s)
           /\ Range(Tail(s)) \subseteq Range(s)
<1>1. /\ Len(s) \in Nat /\ Len(s) # 0 /\ DOMAIN s = 1..Len(s)
      /\ Head(s) = s[1] /\ Tail(s) \in Seq(S)
      /\ Len(Tail(s)) = Len(s) - 1
      /\ \A i \in 1..Len(Tail(s)) : Tail(s)[i] = s[i + 1]
  BY HeadTailProperties, EmptySeq
<1>2. s[1] \in S /\ s[1] \in Range(s)
  BY <1>1 DEF Range
<1>3. Range(Tail(s)) \subseteq Range(s)
  <2>1. DOMAIN Tail(s) = 1..Len(Tail(s))
    BY <1>1
  <2> SUFFICES ASSUME NEW i \in 1..Len(Tail(s)) PROVE Tail(s)[i] \in Range(s)
    BY <2>1 DEF Range
  <2>2. Tail(s)[i] = s[i + 1] /\ i + 1 \in DOMAIN s
    BY <1>1
  <2> QED
    BY <2>2 DEF Range
<1> QED
  BY <1>1, <1>2, <1>3

\* A prefix holds nothing else.
LEMMA PrefixHolds ==
    ASSUME NEW S, NEW s \in Seq(S), NEW p \in Prefixes(s)
    PROVE  p \in Seq(S) /\ Range(p) \subseteq Range(s)
<1>1. PICK n \in 0..Len(s) : p = SubSeq(s, 1, n)
  BY DEF Prefixes
<1>2. /\ p \in Seq(S) /\ Len(p) = n /\ DOMAIN p = 1..n
      /\ \A i \in 1..n : p[i] = s[i]
  <2>1. n \in Nat /\ 1..n \subseteq DOMAIN s
    BY <1>1, LenProperties
  <2>2. p \in Seq(S) /\ Len(p) = IF 1 <= n THEN n - 1 + 1 ELSE 0
    BY <1>1, <2>1, SubSeqProperties
  <2>3. \A i \in 1..n : p[i] = s[1 + i - 1]
    BY <1>1, <2>1, SubSeqProperties
  <2> QED
    BY <2>1, <2>2, <2>3, LenProperties
<1>3. Range(p) \subseteq Range(s)
  <2>1. \A i \in 1..n : i \in DOMAIN s
    BY <1>1
  <2> QED
    BY <1>2, <2>1 DEF Range
<1> QED
  BY <1>2, <1>3

\* Nothing holds nothing.
LEMMA EmptyHolds == ASSUME NEW S PROVE << >> \in Seq(S) /\ Range(<< >>) = {}
<1>1. << >> \in Seq(S) /\ DOMAIN << >> = {}
  OBVIOUS
<1> QED
  BY <1>1 DEF Range

\* What a sequence holds is of its kind.
LEMMA RangeIn == ASSUME NEW S, NEW s \in Seq(S) PROVE Range(s) \subseteq S
BY DEF Range

\* No id twice.
Distinct(s) == \A i, j \in DOMAIN s : s[i].id = s[j].id => i = j

Unacked == [id : Ids, stage : {"pub", "rel"}]

\* Where each message that is left goes when one is taken out of the middle.
LEMMA WithoutAt ==
    ASSUME NEW s \in Seq(Unacked), NEW k \in DOMAIN s
    PROVE  LET w == SubSeq(s, 1, k - 1) \o SubSeq(s, k + 1, Len(s))
           IN  /\ w \in Seq(Unacked)
               /\ DOMAIN w = 1..(Len(s) - 1)
               /\ \A i \in DOMAIN w : w[i] = IF i < k THEN s[i] ELSE s[i + 1]
<1> DEFINE a == SubSeq(s, 1, k - 1)
           b == SubSeq(s, k + 1, Len(s))
           w == a \o b
<1>1. Len(s) \in Nat /\ DOMAIN s = 1..Len(s) /\ k \in 1..Len(s)
  OBVIOUS
<1>2. /\ a \in Seq(Unacked) /\ Len(a) = k - 1
      /\ \A i \in 1..(k - 1) : a[i] = s[i]
  <2>1. \A i \in 1..(k - 1) : s[i] \in Unacked
    BY <1>1
  <2>2. /\ a \in Seq(Unacked) /\ Len(a) = IF 1 <= k - 1 THEN (k - 1) - 1 + 1 ELSE 0
        /\ \A i \in 1..((k - 1) - 1 + 1) : a[i] = s[1 + i - 1]
    BY <1>1, <2>1, SubSeqProperties
  <2> QED
    BY <1>1, <2>2
<1>3. /\ b \in Seq(Unacked) /\ Len(b) = Len(s) - k
      /\ \A i \in 1..(Len(s) - k) : b[i] = s[k + i]
  <2>1. \A i \in (k + 1)..Len(s) : s[i] \in Unacked
    BY <1>1
  <2>2. /\ b \in Seq(Unacked) /\ Len(b) = IF k + 1 <= Len(s) THEN Len(s) - (k + 1) + 1 ELSE 0
        /\ \A i \in 1..(Len(s) - (k + 1) + 1) : b[i] = s[(k + 1) + i - 1]
    BY <1>1, <2>1, SubSeqProperties
  <2> QED
    BY <1>1, <2>2, SMTT(30)
<1> HIDE DEF a, b
<1>4. /\ w \in Seq(Unacked) /\ Len(w) = Len(a) + Len(b)
      /\ \A i \in 1..(Len(a) + Len(b)) : w[i] = IF i <= Len(a) THEN a[i] ELSE b[i - Len(a)]
  BY <1>2, <1>3, ConcatProperties
<1> HIDE DEF w
<1>5. DOMAIN w = 1..(Len(s) - 1)
  BY <1>1, <1>2, <1>3, <1>4
<1>6. ASSUME NEW i \in DOMAIN w PROVE w[i] = IF i < k THEN s[i] ELSE s[i + 1]
  <2>1. CASE i < k
    BY <1>1, <1>2, <1>3, <1>4, <1>5, <2>1, SMTT(30)
  <2>2. CASE ~(i < k)
    <3>1. i \in 1..(Len(s) - 1) /\ i \in Int /\ k \in Int /\ i >= k /\ Len(s) \in Int
      BY <1>1, <1>5, <2>2
    <3>2. w[i] = b[i - (k - 1)]
      BY <1>1, <1>2, <1>3, <1>4, <3>1
    <3>3. i - (k - 1) \in 1..(Len(s) - k) /\ k + (i - (k - 1)) = i + 1
      BY <3>1
    <3>4. b[i - (k - 1)] = s[i + 1]
      BY <1>3, <3>3
    <3> QED
      BY <2>2, <3>2, <3>4
  <2> QED
    BY <2>1, <2>2
<1> QED
  BY <1>4, <1>5, <1>6 DEF w, a, b

\* A message is done with: the others are still there, in their order.
LEMMA WithoutHolds ==
    ASSUME NEW s \in Seq(Unacked), NEW id
    PROVE  /\ Without(s, id) \in Seq(Unacked)
           /\ Range(Without(s, id)) \subseteq Range(s)
           /\ \A p \in Range(s) : p.id # id => p \in Range(Without(s, id))
           /\ Distinct(s) => Distinct(Without(s, id))
<1> DEFINE w == Without(s, id)
<1>1. CASE ~ \E j \in DOMAIN s : s[j].id = id
  BY <1>1 DEF Without
<1>2. CASE \E j \in DOMAIN s : s[j].id = id
  <2>1. PICK k \in DOMAIN s : /\ s[k].id = id
                              /\ w = SubSeq(s, 1, k - 1) \o SubSeq(s, k + 1, Len(s))
    BY <1>2 DEF Without
  <2> HIDE DEF w
  <2>2. /\ w \in Seq(Unacked)
        /\ DOMAIN w = 1..(Len(s) - 1)
        /\ \A i \in DOMAIN w : w[i] = IF i < k THEN s[i] ELSE s[i + 1]
    BY <2>1, WithoutAt
  <2>3. Len(s) \in Nat /\ DOMAIN s = 1..Len(s) /\ k \in 1..Len(s)
    OBVIOUS
  <2>4. Range(w) \subseteq Range(s)
    <3> SUFFICES ASSUME NEW i \in DOMAIN w PROVE w[i] \in Range(s)
      BY DEF Range
    <3>1. i \in DOMAIN s /\ i + 1 \in DOMAIN s
      BY <2>2, <2>3
    <3>2. s[i] \in Range(s) /\ s[i + 1] \in Range(s)
      BY <3>1 DEF Range
    <3> QED
      BY <2>2, <3>2
  <2>5. ASSUME NEW p \in Range(s), p.id # id PROVE p \in Range(w)
    <3>1. PICK i \in DOMAIN s : p = s[i]
      BY DEF Range
    <3>2. i # k
      BY <2>1, <2>5, <3>1
    <3>3. CASE i < k
      <4>1. i \in DOMAIN w /\ w[i] = p
        BY <2>2, <2>3, <3>1, <3>3
      <4> QED
        BY <4>1 DEF Range
    <3>4. CASE i > k
      <4>1. i - 1 \in DOMAIN w /\ ~(i - 1 < k) /\ (i - 1) + 1 = i
        BY <2>2, <2>3, <3>4
      <4>2. w[i - 1] = p
        BY <2>2, <3>1, <4>1
      <4> QED
        BY <4>1, <4>2 DEF Range
    <3> QED
      BY <2>3, <3>2, <3>3, <3>4
  <2>6. ASSUME Distinct(s) PROVE Distinct(w)
    <3> SUFFICES ASSUME NEW i \in DOMAIN w, NEW j \in DOMAIN w, w[i].id = w[j].id PROVE i = j
      BY DEF Distinct
    <3> DEFINE at(n) == IF n < k THEN n ELSE n + 1
    <3>1. at(i) \in DOMAIN s /\ at(j) \in DOMAIN s /\ w[i] = s[at(i)] /\ w[j] = s[at(j)]
      BY <2>2, <2>3
    <3>2. at(i) = at(j)
      BY <2>6, <3>1 DEF Distinct
    <3> QED
      BY <2>2, <2>3, <3>2
  <2> QED
    BY <2>2, <2>4, <2>5, <2>6 DEF w
<1> QED
  BY <1>1, <1>2

-----------------------------------------------------------------------------
(***************************************************************************)
(* The limiter.                                                            *)
(***************************************************************************)
Limiter == [tokens : 0..Full, last : 0..Ticks]

\* The bounds are numbers.
LEMMA BoundsType == Token \in Nat /\ Token # 0 /\ Full \in Nat /\ MaxAge \in Nat
<1>1. Ticks \in Nat /\ Ticks # 0 /\ Rate \in Nat /\ Len(Messages) \in Nat
  BY PublishAssumption
<1>2. Full \in Nat
  BY <1>1 DEF Full
<1>3. MaxAge \in Nat
  <2>1. CASE Rate = 0
    BY <2>1 DEF MaxAge
  <2>2. CASE Rate # 0
    <3>1. Monus(Len(Messages), Rate) \in Nat
      BY <1>1 DEF Monus
    <3>2. Monus(Len(Messages), Rate) * Token \in Nat
      BY <1>1, <3>1 DEF Token
    <3>3. (Monus(Len(Messages), Rate) * Token) \div Rate \in Nat
      BY <1>1, <2>2, <3>2
    <3> QED
      BY <2>2, <3>3 DEF MaxAge
  <2> QED
    BY <2>1, <2>2
<1> QED
  BY <1>1, <1>2, <1>3 DEF Token

\* What a limiter turns into is a limiter.
LEMMA LimiterType ==
    /\ NewLimiter \in Limiter
    /\ \A r \in Limiter :
          /\ Refill(r) \in 0..Full
          /\ refused(r) \in Limiter
          /\ allow(r) => allowed(r) \in Limiter
          /\ [r EXCEPT !.last = Aged(@, Ticks)] \in Limiter
<1>1. Token \in Nat /\ Full \in Nat /\ Ticks \in Nat /\ Rate \in Nat /\ Token # 0
  BY BoundsType, PublishAssumption
<1>2. NewLimiter \in Limiter
  BY <1>1 DEF NewLimiter, Limiter
<1>3. ASSUME NEW r \in Limiter PROVE Refill(r) \in 0..Full
  <2>1. Rate * r.last \in Nat
    BY <1>1 DEF Limiter
  <2> QED
    BY <1>1, <2>1 DEF Limiter, Refill
<1>4. ASSUME NEW r \in Limiter PROVE refused(r) \in Limiter
  BY <1>1, <1>3 DEF refused, Limiter
<1>5. ASSUME NEW r \in Limiter, allow(r) PROVE allowed(r) \in Limiter
  <2>1. Rate # 0 => Refill(r) - Token \in 0..Full
    BY <1>1, <1>3, <1>5 DEF allow
  <2> QED
    BY <1>1, <2>1 DEF allowed, Limiter
<1>6. ASSUME NEW r \in Limiter PROVE [r EXCEPT !.last = Aged(@, Ticks)] \in Limiter
  BY <1>1 DEF Limiter, Aged
<1> QED
  BY <1>2, <1>3, <1>4, <1>5, <1>6

-----------------------------------------------------------------------------
(***************************************************************************)
(* Types.                                                                  *)
(***************************************************************************)

\* The message about to be published, and the ids that are on their way.
LEMMA IdsType ==
    /\ Len(Messages) \in Nat /\ Ids = 1..Len(Messages)
    /\ \A m \in Ids : Messages[m] \in [qos : 0..2, retain : BOOLEAN, valid : BOOLEAN, permitted : BOOLEAN]
<1> DEFINE M == [qos : 0..2, retain : BOOLEAN, valid : BOOLEAN, permitted : BOOLEAN]
<1>1. Messages \in Seq(M)
  BY PublishAssumption
<1> HIDE DEF M
<1>2. Len(Messages) \in Nat /\ Ids = 1..Len(Messages) /\ \A m \in Ids : Messages[m] \in M
  BY <1>1 DEF Ids
<1> QED
  BY <1>2 DEF M

\* What is read from the socket.
LEMMA ReadsType ==
    ASSUME TypeOK, NEW c \in Slots, NEW kind, Reads(c, kind)
    PROVE  /\ conn[c] \in ConnRecord
           /\ Head(conn[c].in) \in Range(conn[c].in)
           /\ Tail(conn[c].in) \in Seq(Inbound)
           /\ Range(Tail(conn[c].in)) \subseteq Range(conn[c].in)
           /\ kind \in {"publish", "pubrel"}
                 => Id(c) \in Ids /\ Head(conn[c].in) = [kind |-> kind, id |-> Id(c)]
<1>1. conn[c] \in ConnRecord
  BY DEF TypeOK
<1>2. conn[c].in \in Seq(Inbound) /\ conn[c].in # << >>
  BY <1>1 DEF ConnRecord, Reads
<1>3. /\ Head(conn[c].in) \in Inbound
      /\ Head(conn[c].in) \in Range(conn[c].in)
      /\ Tail(conn[c].in) \in Seq(Inbound)
      /\ Range(Tail(conn[c].in)) \subseteq Range(conn[c].in)
  BY <1>2, TailHolds
<1>4. kind \in {"publish", "pubrel"}
         => Id(c) \in Ids /\ Head(conn[c].in) = [kind |-> kind, id |-> Id(c)]
  BY <1>3 DEF Reads, Id, Inbound, Bye
<1> QED
  BY <1>1, <1>3, <1>4

\* The connection that has read it.
LEMMA TookType ==
    ASSUME TypeOK, NEW c \in Slots, NEW kind, Reads(c, kind)
    PROVE  LET r == Took(conn[c])
           IN  /\ r \in ConnRecord
               /\ r.in = Tail(conn[c].in) /\ r.out = conn[c].out
               /\ r.pc = conn[c].pc /\ r.msg = conn[c].msg
               /\ r.rate = conn[c].rate /\ r.cut = conn[c].cut
               /\ r.inflight_qos2 = conn[c].inflight_qos2
<1>1. conn[c] \in ConnRecord /\ Tail(conn[c].in) \in Seq(Inbound)
  BY ReadsType
<1> QED
  BY <1>1 DEF ConnRecord, Took

\* A step of one connection.
LEMMA OneConnType ==
    ASSUME TypeInv, NEW c \in Slots, NEW r \in ConnRecord,
           conn' = [conn EXCEPT ![c] = r],
           Busy(r) => r.msg \in Ids,
           client' \in ClientRecord, sent' \in Seq(0..MaxAge),
           relayed' \subseteq Ids, stored' \subseteq Ids, faults' \in 0..MaxFaults
    PROVE  TypeInv'
<1>1. conn' \in [Slots -> ConnRecord]
  BY DEF TypeInv, TypeOK
<1>2. \A d \in Slots : Busy(conn'[d]) => conn'[d].msg \in Ids
  <2> TAKE d \in Slots
  <2>1. CASE d = c
    BY <2>1 DEF TypeInv, TypeOK
  <2>2. CASE d # c
    BY <2>2 DEF TypeInv, TypeOK
  <2> QED
    BY <2>1, <2>2
<1> QED
  BY <1>1, <1>2 DEF TypeInv, TypeOK, Ids, MaxAge, Busy

\* A fault is counted.
LEMMA FaultType == ASSUME TypeOK, Fault PROVE faults' \in 0..MaxFaults
<1>1. faults \in 0..MaxFaults /\ MaxFaults \in Nat
  BY PublishAssumption DEF TypeOK
<1>2. faults < MaxFaults /\ faults' = faults + 1
  BY DEF Fault
<1> QED
  BY <1>1, <1>2

\* Init.
LEMMA TypeInit == Init => TypeInv
<1> SUFFICES ASSUME Init PROVE TypeInv
  OBVIOUS
<1>1. client \in ClientRecord
  BY IdsType DEF Init, ClientRecord
<1>2. Closed \in ConnRecord
  BY LimiterType DEF Closed, ConnRecord, Limiter
<1>3. ~Busy(Closed)
  BY DEF Busy, Closed
<1> QED
  BY <1>1, <1>2, <1>3, PublishAssumption DEF Init, TypeInv, TypeOK

\* The client's steps.
LEMMA ClientTypeStep ==
    ASSUME TypeInv, NEW c \in Slots,
           Connect(c) \/ Publish(c) \/ Receive(c) \/ Notice(c) \/ Lose(c) \/ Leave(c)
    PROVE  TypeInv'
<1>1. TypeOK /\ conn[c] \in ConnRecord /\ client \in ClientRecord
  BY DEF TypeInv, TypeOK
<1>2. /\ conn[c].in \in Seq(Inbound) /\ conn[c].out \in Seq(Outbound)
      /\ client.pending \in Seq(Unacked)
      /\ Busy(conn[c]) => conn[c].msg \in Ids
  BY <1>1 DEF ConnRecord, ClientRecord, TypeInv, Unacked
<1>3. CASE Connect(c)
  <2> DEFINE s == [i \in DOMAIN client.pending |-> Resend(client.pending[i])]
  <2>1. s \in Seq(Inbound)
    <3>1. Len(client.pending) \in Nat /\ DOMAIN client.pending = 1..Len(client.pending)
      BY <1>2
    <3>2. ASSUME NEW i \in 1..Len(client.pending) PROVE Resend(client.pending[i]) \in Inbound
      <4>1. client.pending[i] \in Unacked
        BY <1>2, <3>1
      <4> QED
        BY <4>1 DEF Resend, Inbound, Unacked
    <3> QED
      BY <3>1, <3>2, IsASeq
  <2> HIDE DEF s
  <2>2. Closed \in ConnRecord /\ ~Busy(Closed)
    BY LimiterType DEF Closed, ConnRecord, Limiter, Busy
  <2>3. [Closed EXCEPT !.pc = "select", !.owner = TRUE, !.in = s] \in ConnRecord
    BY <2>1, <2>2 DEF ConnRecord
  <2>4. \A d \in Slots : Superseded(conn[d]) \in ConnRecord
    <3> TAKE d \in Slots
    <3>1. conn[d] \in ConnRecord
      BY <1>1 DEF TypeOK
    <3>2. conn[d].kicked \/ (conn[d].owner /\ conn[d].pc = "select") \in BOOLEAN
      BY <3>1 DEF ConnRecord
    <3> QED
      BY <3>1, <3>2 DEF Superseded, ConnRecord
  <2>5. conn' \in [Slots -> ConnRecord]
    BY <1>3, <2>3, <2>4 DEF Connect, s
  <2>6. \A d \in Slots : Busy(conn'[d]) => conn'[d].msg \in Ids
    <3> TAKE d \in Slots
    <3>1. CASE d = c
      <4>1. conn'[d].pc = "select"
        BY <1>3, <3>1 DEF Connect, Closed
      <4> QED
        BY <4>1 DEF Busy
    <3>2. CASE d # c
      <4>1. conn'[d] = Superseded(conn[d])
        BY <1>3, <3>2 DEF Connect
      <4>2. conn'[d].pc = conn[d].pc /\ conn'[d].msg = conn[d].msg
        BY <1>1, <4>1 DEF TypeOK, ConnRecord, Superseded
      <4> QED
        BY <4>2 DEF TypeInv, Busy
    <3> QED
      BY <3>1, <3>2
  <2>7. client' \in ClientRecord
    BY <1>1, <1>3 DEF Connect, ClientRecord
  <2> QED
    BY <1>1, <1>3, <2>5, <2>6, <2>7 DEF Connect, TypeInv, TypeOK, Busy, Ids, MaxAge
<1>4. CASE Publish(c)
  <2> DEFINE p == [kind |-> "publish", id |-> client.next]
             u == [id |-> client.next, stage |-> "pub"]
             r == [conn[c] EXCEPT !.in = Append(@, p)]
  <2>1. client.next \in Ids
    BY <1>4 DEF Publish
  <2>2. Append(conn[c].in, p) \in Seq(Inbound) /\ Append(client.pending, u) \in Seq(Unacked)
    BY <1>2, <2>1, AppendHolds DEF Inbound, Unacked
  <2>3. r \in ConnRecord /\ (Busy(r) => r.msg \in Ids)
    BY <1>1, <1>2, <2>2 DEF ConnRecord, Busy
  <2>4. conn' = [conn EXCEPT ![c] = r]
    BY <1>1, <1>4 DEF Publish, TypeOK, ConnRecord
  <2>5. client' \in ClientRecord
    <3>1. client.next + 1 \in 1..(Len(Messages) + 1)
      BY <2>1, IdsType
    <3> QED
      BY <1>1, <1>4, <2>2, <3>1 DEF Publish, ClientRecord, Unacked
  <2> HIDE DEF r
  <2> QED
    BY <1>1, <1>4, <2>3, <2>4, <2>5, OneConnType DEF Publish, TypeOK
<1>5. CASE Receive(c)
  <2> DEFINE a == Head(conn[c].out)
             rest == Tail(conn[c].out)
             p == [kind |-> "pubrel", id |-> a.id]
  <2>1. a \in Outbound /\ rest \in Seq(Outbound)
    BY <1>2, <1>5, TailHolds DEF Receive
  <2>2. Append(conn[c].in, p) \in Seq(Inbound)
    BY <1>2, <2>1, AppendHolds DEF Inbound, Outbound
  <2>3. CASE a.kind = "pubrec"
    <3> DEFINE r == [conn[c] EXCEPT !.out = rest, !.in = Append(@, p)]
               u == [i \in DOMAIN client.pending |->
                        IF client.pending[i].id = a.id THEN [client.pending[i] EXCEPT !.stage = "rel"]
                        ELSE client.pending[i]]
    <3>1. r \in ConnRecord /\ (Busy(r) => r.msg \in Ids)
      BY <1>1, <1>2, <2>1, <2>2 DEF ConnRecord, Busy
    <3>2. conn' = [conn EXCEPT ![c] = r]
      BY <1>1, <1>5, <2>3 DEF Receive, TypeOK, ConnRecord
    <3>3. u \in Seq(Unacked)
      <4>1. Len(client.pending) \in Nat /\ DOMAIN client.pending = 1..Len(client.pending)
        BY <1>2
      <4>2. ASSUME NEW i \in 1..Len(client.pending)
            PROVE  (IF client.pending[i].id = a.id THEN [client.pending[i] EXCEPT !.stage = "rel"]
                    ELSE client.pending[i]) \in Unacked
        <5>1. client.pending[i] \in Unacked
          BY <1>2, <4>1
        <5> QED
          BY <5>1 DEF Unacked
      <4> QED
        BY <4>1, <4>2, IsASeq
    <3>4. client' \in ClientRecord
      BY <1>1, <1>5, <2>3, <3>3 DEF Receive, ClientRecord, Unacked
    <3> HIDE DEF r
    <3> QED
      BY <1>1, <1>5, <3>1, <3>2, <3>4, OneConnType DEF Receive, TypeOK
  <2>4. CASE a.kind # "pubrec"
    <3> DEFINE r == [conn[c] EXCEPT !.out = rest]
    <3>1. r \in ConnRecord /\ (Busy(r) => r.msg \in Ids)
      BY <1>1, <1>2, <2>1 DEF ConnRecord, Busy
    <3>2. conn' = [conn EXCEPT ![c] = r]
      BY <1>1, <1>5, <2>4 DEF Receive, TypeOK, ConnRecord
    <3>3. client' \in ClientRecord
      <4>1. Without(client.pending, a.id) \in Seq(Unacked)
        BY <1>2, WithoutHolds
      <4> QED
        BY <1>1, <1>5, <2>4, <4>1 DEF Receive, ClientRecord, Unacked
    <3> HIDE DEF r
    <3> QED
      BY <1>1, <1>5, <3>1, <3>2, <3>3, OneConnType DEF Receive, TypeOK
  <2> QED
    BY <2>3, <2>4
<1>6. CASE Notice(c)
  <2>1. client' \in ClientRecord
    BY <1>1, <1>6 DEF Notice, ClientRecord
  <2> QED
    BY <1>1, <1>6, <2>1 DEF Notice, TypeInv, TypeOK, Busy, Ids, MaxAge
<1>7. CASE Lose(c)
  <2>1. PICK s \in Prefixes(conn[c].in) : conn' = [conn EXCEPT ![c].in = s, ![c].out = << >>]
    BY <1>7 DEF Lose
  <2> DEFINE r == [conn[c] EXCEPT !.in = s, !.out = << >>]
  <2>2. s \in Seq(Inbound)
    BY <1>2, <2>1, PrefixHolds
  <2>3. r \in ConnRecord /\ (Busy(r) => r.msg \in Ids)
    BY <1>1, <1>2, <2>2, EmptyHolds DEF ConnRecord, Busy
  <2>4. conn' = [conn EXCEPT ![c] = r]
    BY <1>1, <2>1 DEF TypeOK, ConnRecord
  <2>5. client' \in ClientRecord
    BY <1>1, <1>7 DEF Lose, ClientRecord
  <2>6. faults' \in 0..MaxFaults
    BY <1>1, <1>7, FaultType DEF Lose
  <2> HIDE DEF r
  <2> QED
    BY <1>1, <1>7, <2>3, <2>4, <2>5, <2>6, OneConnType DEF Lose, TypeOK
<1>8. CASE Leave(c)
  <2> DEFINE r == [conn[c] EXCEPT !.in = Append(@, Bye)]
  <2>1. Append(conn[c].in, Bye) \in Seq(Inbound)
    BY <1>2, AppendHolds DEF Inbound
  <2>2. r \in ConnRecord /\ (Busy(r) => r.msg \in Ids)
    BY <1>1, <1>2, <2>1 DEF ConnRecord, Busy
  <2>3. conn' = [conn EXCEPT ![c] = r]
    BY <1>1, <1>8 DEF Leave, TypeOK, ConnRecord
  <2>4. client' \in ClientRecord
    BY <1>1, <1>8 DEF Leave, ClientRecord
  <2> HIDE DEF r
  <2> QED
    BY <1>1, <1>8, <2>2, <2>3, <2>4, OneConnType DEF Leave, TypeOK
<1> QED
  BY <1>3, <1>4, <1>5, <1>6, <1>7, <1>8

\* The steps of a connection's task.
LEMMA ServeTypeStep ==
    ASSUME TypeInv, NEW c \in Slots,
           \/ RateRefuses(c) \/ Accept(c) \/ Put(c) \/ WriteRetained(c) \/ WriteFails(c) \/ Ack(c)
           \/ ReadPubRel(c) \/ SendFails(c) \/ ReadDisconnect(c) \/ ReadError(c) \/ Return(c)
    PROVE  TypeInv'
<1>1. TypeOK /\ conn[c] \in ConnRecord /\ client \in ClientRecord
  BY DEF TypeInv, TypeOK
<1>2. /\ conn[c].out \in Seq(Outbound) /\ conn[c].rate \in Limiter
      /\ Busy(conn[c]) => conn[c].msg \in Ids
  BY <1>1 DEF ConnRecord, Limiter, TypeInv
<1>3. /\ client \in ClientRecord /\ sent \in Seq(0..MaxAge) /\ relayed \subseteq Ids
      /\ stored \subseteq Ids /\ faults \in 0..MaxFaults
  BY <1>1 DEF TypeOK
<1>4. CASE RateRefuses(c)
  <2> DEFINE t == Took(conn[c])
             r == [t EXCEPT !.pc = "bail", !.cut = TRUE, !.rate = refused(conn[c].rate)]
  <2>1. t \in ConnRecord /\ t.rate = conn[c].rate
    BY <1>1, <1>4, TookType DEF RateRefuses
  <2> HIDE DEF t
  <2>2. refused(conn[c].rate) \in Limiter
    BY <1>2, LimiterType
  <2>3. r \in ConnRecord /\ ~Busy(r)
    BY <2>1, <2>2 DEF ConnRecord, Limiter, Busy
  <2>4. conn' = [conn EXCEPT ![c] = r]
    BY <1>4 DEF RateRefuses, t
  <2> HIDE DEF r
  <2> QED
    BY <1>3, <1>4, <2>3, <2>4, OneConnType DEF RateRefuses
<1>5. CASE Accept(c)
  <2> DEFINE t == Took(conn[c])
             r == [t EXCEPT !.rate = allowed(conn[c].rate), !.msg = Id(c), !.pc = Verdict(Messages[Id(c)])]
  <2>0. Reads(c, "publish")
    BY <1>5 DEF Accept
  <2>1. t \in ConnRecord /\ t.rate = conn[c].rate /\ Id(c) \in Ids
    <3>1. t \in ConnRecord /\ t.rate = conn[c].rate
      BY <1>1, <2>0, TookType
    <3>2. Id(c) \in Ids
      BY <1>1, <2>0, ReadsType
    <3> QED
      BY <3>1, <3>2
  <2> HIDE DEF t
  <2>2. allowed(conn[c].rate) \in Limiter
    BY <1>2, <1>5, LimiterType DEF Accept
  <2>3. Verdict(Messages[Id(c)]) \in {"bail", "put", "ack"}
    BY DEF Verdict
  <2>4. r \in ConnRecord /\ r.msg \in Ids
    BY <2>1, <2>2, <2>3 DEF ConnRecord, Limiter
  <2>5. conn' = [conn EXCEPT ![c] = r]
    BY <1>5 DEF Accept, t
  <2>6. sent' \in Seq(0..MaxAge)
    <3>1. <<0>> \in Seq(0..MaxAge)
      BY BoundsType
    <3>2. <<0>> \o sent \in Seq(0..MaxAge)
      BY <1>3, <3>1, ConcatProperties
    <3> QED
      BY <1>3, <1>5, <3>2 DEF Accept
  <2> HIDE DEF r
  <2> QED
    BY <1>3, <1>5, <2>4, <2>5, <2>6, OneConnType DEF Accept
<1>6. CASE Put(c)
  <2> DEFINE r == [conn[c] EXCEPT !.pc = AfterPut(Messages[conn[c].msg])]
  <2>1. conn[c].msg \in Ids
    BY <1>2, <1>6 DEF Put, Busy
  <2>2. r \in ConnRecord /\ r.msg \in Ids
    BY <1>1, <2>1 DEF ConnRecord, AfterPut
  <2>3. conn' = [conn EXCEPT ![c] = r]
    BY <1>1, <1>6 DEF Put, TypeOK, ConnRecord
  <2> HIDE DEF r
  <2> QED
    BY <1>3, <1>6, <2>1, <2>2, <2>3, OneConnType DEF Put
<1>7. CASE WriteRetained(c)
  <2> DEFINE r == [conn[c] EXCEPT !.pc = "ack"]
  <2>1. conn[c].msg \in Ids
    BY <1>2, <1>7 DEF WriteRetained, Busy
  <2>2. r \in ConnRecord /\ r.msg \in Ids
    BY <1>1, <2>1 DEF ConnRecord
  <2>3. conn' = [conn EXCEPT ![c] = r]
    BY <1>1, <1>7 DEF WriteRetained, TypeOK, ConnRecord
  <2> HIDE DEF r
  <2> QED
    BY <1>3, <1>7, <2>1, <2>2, <2>3, OneConnType DEF WriteRetained
<1>8. CASE WriteFails(c) \/ SendFails(c) \/ ReadError(c)
  <2> DEFINE r == [conn[c] EXCEPT !.pc = "bail"]
  <2>1. r \in ConnRecord /\ ~Busy(r)
    BY <1>1 DEF ConnRecord, Busy
  <2>2. conn' = [conn EXCEPT ![c] = r]
    BY <1>1, <1>8 DEF WriteFails, SendFails, ReadError, TypeOK, ConnRecord
  <2>3. faults' \in 0..MaxFaults
    BY <1>1, <1>3, <1>8, FaultType DEF WriteFails, SendFails, ReadError
  <2> HIDE DEF r
  <2> QED
    BY <1>3, <1>8, <2>1, <2>2, <2>3, OneConnType DEF WriteFails, SendFails, ReadError
<1>9. CASE Ack(c)
  <2> DEFINE m == conn[c].msg
  <2>1. m \in Ids
    BY <1>2, <1>9 DEF Ack, Busy
  <2>2. Messages[m].qos \in 0..2
    BY <2>1, IdsType
  <2>3. CASE Messages[m].qos = 0
    <3> DEFINE r == [conn[c] EXCEPT !.pc = "select"]
    <3>1. r \in ConnRecord /\ ~Busy(r)
      BY <1>1 DEF ConnRecord, Busy
    <3>2. conn' = [conn EXCEPT ![c] = r]
      BY <1>9, <2>3 DEF Ack
    <3> HIDE DEF r
    <3> QED
      BY <1>3, <1>9, <3>1, <3>2, OneConnType DEF Ack
  <2>4. CASE Messages[m].qos = 1
    <3> DEFINE o == Append(conn[c].out, [kind |-> "puback", id |-> m])
               r == [conn[c] EXCEPT !.out = o, !.pc = "select"]
    <3>1. o \in Seq(Outbound)
      BY <1>2, <2>1, AppendHolds DEF Outbound
    <3>2. r \in ConnRecord /\ ~Busy(r)
      BY <1>1, <3>1 DEF ConnRecord, Busy
    <3>3. conn' = [conn EXCEPT ![c] = r]
      BY <1>9, <2>4 DEF Ack, Acked
    <3> HIDE DEF r
    <3> QED
      BY <1>3, <1>9, <3>2, <3>3, OneConnType DEF Ack
  <2>5. CASE Messages[m].qos = 2
    <3> DEFINE o == Append(conn[c].out, [kind |-> "pubrec", id |-> m])
               r == [conn[c] EXCEPT !.inflight_qos2 = @ \cup {m}, !.out = o, !.pc = "select"]
    <3>1. o \in Seq(Outbound)
      BY <1>2, <2>1, AppendHolds DEF Outbound
    <3>2. r \in ConnRecord /\ ~Busy(r)
      BY <1>1, <2>1, <3>1 DEF ConnRecord, Busy
    <3>3. conn' = [conn EXCEPT ![c] = r]
      BY <1>1, <1>9, <2>5 DEF Ack, Acked, ConnRecord
    <3> HIDE DEF r
    <3> QED
      BY <1>3, <1>9, <3>2, <3>3, OneConnType DEF Ack
  <2> QED
    BY <2>2, <2>3, <2>4, <2>5
<1>10. CASE ReadPubRel(c)
  <2> DEFINE o == Append(conn[c].out, [kind |-> "pubcomp", id |-> Id(c)])
             t == Took(conn[c])
             u == [t EXCEPT !.inflight_qos2 = Release(@, Id(c))]
             r == [u EXCEPT !.out = o, !.pc = "select"]
  <2>0. Reads(c, "pubrel")
    BY <1>10 DEF ReadPubRel
  <2>1. t \in ConnRecord /\ t.out = conn[c].out /\ Id(c) \in Ids
    <3>1. t \in ConnRecord /\ t.out = conn[c].out
      BY <1>1, <2>0, TookType
    <3>2. Id(c) \in Ids
      BY <1>1, <2>0, ReadsType
    <3> QED
      BY <3>1, <3>2
  <2> HIDE DEF t
  <2>2. o \in Seq(Outbound)
    BY <1>2, <2>1, AppendHolds DEF Outbound
  <2>3. r \in ConnRecord /\ ~Busy(r)
    BY <2>1, <2>2 DEF ConnRecord, Busy, Release
  <2>4. conn' = [conn EXCEPT ![c] = r]
    <3>1. u.out = conn[c].out
      BY <2>1 DEF ConnRecord
    <3>2. conn' = [conn EXCEPT ![c] = Acked(u, "pubcomp", Id(c))]
      BY <1>10 DEF ReadPubRel, t
    <3> QED
      BY <3>1, <3>2 DEF Acked
  <2> HIDE DEF r
  <2> QED
    BY <1>3, <1>10, <2>3, <2>4, OneConnType DEF ReadPubRel
<1>11. CASE ReadDisconnect(c)
  <2> DEFINE r == [conn[c] EXCEPT !.in = Tail(@), !.kicked = FALSE, !.pc = "bail"]
  <2>1. Tail(conn[c].in) \in Seq(Inbound)
    BY <1>1, <1>11, ReadsType DEF ReadDisconnect
  <2>2. r \in ConnRecord /\ ~Busy(r)
    BY <1>1, <2>1 DEF ConnRecord, Busy
  <2>3. conn' = [conn EXCEPT ![c] = r]
    BY <1>1, <1>11 DEF ReadDisconnect, Took, ConnRecord, TypeOK
  <2> HIDE DEF r
  <2> QED
    BY <1>3, <1>11, <2>2, <2>3, OneConnType DEF ReadDisconnect
<1>12. CASE Return(c)
  <2>1. PICK s \in Prefixes(conn[c].out) :
           conn' = [conn EXCEPT ![c] = [Closed EXCEPT !.out = IF client.at = c THEN s ELSE << >>]]
    BY <1>12 DEF Return
  <2> DEFINE o == IF client.at = c THEN s ELSE << >>
             r == [Closed EXCEPT !.out = o]
  <2>2. o \in Seq(Outbound)
    BY <1>2, <2>1, PrefixHolds, EmptyHolds
  <2>3. Closed \in ConnRecord /\ ~Busy(Closed)
    BY LimiterType DEF Closed, ConnRecord, Limiter, Busy
  <2>4. r \in ConnRecord /\ ~Busy(r)
    BY <2>2, <2>3 DEF ConnRecord, Busy
  <2>5. sent' \in Seq(0..MaxAge)
    BY <1>3, <1>12, EmptyHolds DEF Return
  <2> HIDE DEF r
  <2> QED
    BY <1>3, <1>12, <2>1, <2>4, <2>5, OneConnType DEF Return, r
<1> QED
  BY <1>4, <1>5, <1>6, <1>7, <1>8, <1>9, <1>10, <1>11, <1>12

\* Time passes.
LEMMA TickTypeStep == ASSUME TypeInv, Tick PROVE TypeInv'
<1>1. TypeOK
  BY DEF TypeInv
<1>2. ASSUME NEW d \in Slots
      PROVE  /\ conn'[d] \in ConnRecord
             /\ conn'[d].pc = conn[d].pc /\ conn'[d].msg = conn[d].msg
  <2>1. conn[d] \in ConnRecord /\ conn[d].rate \in Limiter
    BY <1>1 DEF TypeOK, ConnRecord, Limiter
  <2>2. [conn[d].rate EXCEPT !.last = Aged(@, Ticks)] \in Limiter
    BY <2>1, LimiterType
  <2>3. conn'[d] = IF conn[d].pc = "closed" THEN conn[d]
                   ELSE [conn[d] EXCEPT !.rate = [conn[d].rate EXCEPT !.last = Aged(@, Ticks)]]
    BY <2>1 DEF Tick, ConnRecord, Limiter
  <2>4. CASE conn[d].pc = "closed"
    BY <2>1, <2>3, <2>4
  <2>5. CASE conn[d].pc # "closed"
    <3> DEFINE aged == [conn[d].rate EXCEPT !.last = Aged(@, Ticks)]
    <3>1. aged \in Limiter
      BY <2>2
    <3>2. conn'[d] = [conn[d] EXCEPT !.rate = aged]
      BY <2>3, <2>5
    <3> HIDE DEF aged
    <3>3. [conn[d] EXCEPT !.rate = aged] \in ConnRecord
      BY <2>1, <3>1 DEF ConnRecord, Limiter
    <3>4. conn'[d].pc = conn[d].pc /\ conn'[d].msg = conn[d].msg
      BY <2>1, <3>2 DEF ConnRecord
    <3> QED
      BY <3>2, <3>3, <3>4
  <2> QED
    BY <2>4, <2>5
<1>3. conn' \in [Slots -> ConnRecord]
  BY <1>2 DEF Tick
<1>4. sent' \in Seq(0..MaxAge)
  <2>1. sent \in Seq(0..MaxAge) /\ Len(sent) \in Nat /\ DOMAIN sent = 1..Len(sent)
    BY <1>1, LenProperties DEF TypeOK
  <2>2. \A i \in 1..Len(sent) : Aged(sent[i], MaxAge) \in 0..MaxAge
    <3> TAKE i \in 1..Len(sent)
    <3>1. sent[i] \in 0..MaxAge
      BY <2>1, ElementOfSeq
    <3> QED
      BY <3>1, BoundsType DEF Aged
  <2> QED
    BY <2>1, <2>2, IsASeq DEF Tick
<1> QED
  BY <1>1, <1>2, <1>3, <1>4 DEF Tick, TypeInv, TypeOK, Busy, Ids, MaxAge

\* Every step.
LEMMA TypeNext == ASSUME TypeInv, [Next]_vars PROVE TypeInv'
<1>1. CASE UNCHANGED vars
  BY <1>1 DEF vars, TypeInv, TypeOK, Busy, Ids, MaxAge
<1>2. CASE Next
  BY <1>2, ClientTypeStep, ServeTypeStep, TickTypeStep DEF Next
<1> QED
  BY <1>1, <1>2

\* TypeInv holds in every reachable state.
LEMMA TypeInvariant == Spec => []TypeInv
BY TypeInit, TypeNext, PTL DEF Spec

(***************************************************************************)
(* PublishPath is type correct: the packets of both directions, what the   *)
(* client keeps, the limiter of every connection (its tokens never exceed  *)
(* max_publish_rate and never go below zero) and the histories.            *)
(***************************************************************************)
THEOREM PublishTypeCorrect == Spec => []TypeOK
<1>1. TypeInv => TypeOK
  BY DEF TypeInv
<1> QED
  BY <1>1, TypeInvariant, PTL

-----------------------------------------------------------------------------
(***************************************************************************)
(* What each step makes of its connection's record, field by field; no     *)
(* other connection changes.                                               *)
(***************************************************************************)
Became(c, pc, in, out, msg, rate, cut, ids) ==
    /\ \A d \in Slots : d # c => conn'[d] = conn[d]
    /\ conn'[c].pc = pc /\ conn'[c].in = in /\ conn'[c].out = out /\ conn'[c].msg = msg
    /\ conn'[c].rate = rate /\ conn'[c].cut = cut /\ conn'[c].inflight_qos2 = ids

\* Only the packets under way change.
LEMMA PacketsEffect ==
    ASSUME TypeOK, NEW c \in Slots
    PROVE  LET r == conn[c]
               Moves(in, out) == Became(c, r.pc, in, out, r.msg, r.rate, r.cut, r.inflight_qos2)
           IN  /\ Publish(c) => Moves(Append(r.in, [kind |-> "publish", id |-> client.next]), r.out)
               /\ Receive(c) => Moves(IF Head(r.out).kind = "pubrec"
                                      THEN Append(r.in, [kind |-> "pubrel", id |-> Head(r.out).id])
                                      ELSE r.in, Tail(r.out))
               /\ Lose(c) => \E s \in Prefixes(r.in) : Moves(s, << >>)
               /\ Leave(c) => Moves(Append(r.in, Bye), r.out)
<1> DEFINE r == conn[c]
           Moves(in, out) == Became(c, r.pc, in, out, r.msg, r.rate, r.cut, r.inflight_qos2)
<1>1. conn \in [Slots -> ConnRecord] /\ conn[c] \in ConnRecord
  BY DEF TypeOK
<1>2. ASSUME Publish(c)
      PROVE  Moves(Append(r.in, [kind |-> "publish", id |-> client.next]), r.out)
  BY <1>1, <1>2 DEF Publish, ConnRecord, Became
<1>3. ASSUME Receive(c)
      PROVE  Moves(IF Head(r.out).kind = "pubrec"
                   THEN Append(r.in, [kind |-> "pubrel", id |-> Head(r.out).id])
                   ELSE r.in, Tail(r.out))
  <2>1. CASE Head(r.out).kind = "pubrec"
    <3>1. conn' = [conn EXCEPT ![c].out = Tail(r.out),
                               ![c].in = Append(@, [kind |-> "pubrel", id |-> Head(r.out).id])]
      BY <1>3, <2>1 DEF Receive
    <3> QED
      BY <1>1, <2>1, <3>1 DEF ConnRecord, Became
  <2>2. CASE Head(r.out).kind # "pubrec"
    <3>1. conn' = [conn EXCEPT ![c].out = Tail(r.out)]
      BY <1>3, <2>2 DEF Receive
    <3> QED
      BY <1>1, <2>2, <3>1 DEF ConnRecord, Became
  <2> QED
    BY <2>1, <2>2
<1>4. ASSUME Lose(c) PROVE \E s \in Prefixes(r.in) : Moves(s, << >>)
  <2>1. PICK s \in Prefixes(conn[c].in) : conn' = [conn EXCEPT ![c].in = s, ![c].out = << >>]
    BY <1>4 DEF Lose
  <2>2. Moves(s, << >>)
    BY <1>1, <2>1 DEF ConnRecord, Became
  <2> QED
    BY <2>2
<1>5. ASSUME Leave(c) PROVE Moves(Append(r.in, Bye), r.out)
  BY <1>1, <1>5 DEF Leave, ConnRecord, Became
<1> QED
  BY <1>2, <1>3, <1>4, <1>5

\* Only the task moves on.
LEMMA PcEffect ==
    ASSUME TypeOK, NEW c \in Slots
    PROVE  LET r == conn[c]
               Goes(pc) == Became(c, pc, r.in, r.out, r.msg, r.rate, r.cut, r.inflight_qos2)
           IN  /\ Put(c) => Goes(AfterPut(Messages[r.msg]))
               /\ WriteRetained(c) => Goes("ack")
               /\ WriteFails(c) \/ SendFails(c) \/ ReadError(c) => Goes("bail")
<1>1. conn \in [Slots -> ConnRecord] /\ conn[c] \in ConnRecord
  BY DEF TypeOK
<1> QED
  BY <1>1 DEF Put, WriteRetained, WriteFails, SendFails, ReadError, ConnRecord, Became

\* A packet is read.
LEMMA ReadEffect ==
    ASSUME TypeOK, NEW c \in Slots
    PROVE  LET r == conn[c]
           IN  /\ RateRefuses(c) => Became(c, "bail", Tail(r.in), r.out, r.msg, refused(r.rate), TRUE,
                                           r.inflight_qos2)
               /\ Accept(c) => Became(c, Verdict(Messages[Id(c)]), Tail(r.in), r.out, Id(c),
                                      allowed(r.rate), r.cut, r.inflight_qos2)
               /\ ReadPubRel(c) => Became(c, "select", Tail(r.in),
                                          Append(r.out, [kind |-> "pubcomp", id |-> Id(c)]), r.msg,
                                          r.rate, r.cut, r.inflight_qos2 \ {Id(c)})
               /\ ReadDisconnect(c) => Became(c, "bail", Tail(r.in), r.out, r.msg, r.rate, r.cut,
                                              r.inflight_qos2)
<1> DEFINE r == conn[c]
           t == Took(r)
<1>1. conn \in [Slots -> ConnRecord]
  BY DEF TypeOK
<1>2. ASSUME NEW kind, Reads(c, kind)
      PROVE  /\ t \in ConnRecord
             /\ t.in = Tail(r.in) /\ t.out = r.out /\ t.pc = r.pc /\ t.msg = r.msg
             /\ t.rate = r.rate /\ t.cut = r.cut /\ t.inflight_qos2 = r.inflight_qos2
  BY <1>2, TookType
<1> HIDE DEF t
<1>3. ASSUME RateRefuses(c)
      PROVE  Became(c, "bail", Tail(r.in), r.out, r.msg, refused(r.rate), TRUE, r.inflight_qos2)
  <2>1. Reads(c, "publish")
    BY <1>3 DEF RateRefuses
  <2>2. conn' = [conn EXCEPT ![c] = [t EXCEPT !.pc = "bail", !.cut = TRUE, !.rate = refused(r.rate)]]
    BY <1>3 DEF RateRefuses, t
  <2>3. /\ t \in ConnRecord
        /\ t.in = Tail(r.in) /\ t.out = r.out /\ t.msg = r.msg /\ t.inflight_qos2 = r.inflight_qos2
    BY <1>2, <2>1
  <2> QED
    BY <1>1, <2>2, <2>3 DEF ConnRecord, Became
<1>4. ASSUME Accept(c)
      PROVE  Became(c, Verdict(Messages[Id(c)]), Tail(r.in), r.out, Id(c), allowed(r.rate), r.cut,
                    r.inflight_qos2)
  <2>1. Reads(c, "publish")
    BY <1>4 DEF Accept
  <2>2. conn' = [conn EXCEPT ![c] = [t EXCEPT !.rate = allowed(r.rate), !.msg = Id(c),
                                              !.pc = Verdict(Messages[Id(c)])]]
    BY <1>4 DEF Accept, t
  <2>3. /\ t \in ConnRecord
        /\ t.in = Tail(r.in) /\ t.out = r.out /\ t.cut = r.cut /\ t.inflight_qos2 = r.inflight_qos2
    BY <1>2, <2>1
  <2> QED
    BY <1>1, <2>2, <2>3 DEF ConnRecord, Became
<1>5. ASSUME ReadPubRel(c)
      PROVE  Became(c, "select", Tail(r.in), Append(r.out, [kind |-> "pubcomp", id |-> Id(c)]), r.msg,
                    r.rate, r.cut, r.inflight_qos2 \ {Id(c)})
  <2> DEFINE u == [t EXCEPT !.inflight_qos2 = Release(@, Id(c))]
  <2>1. Reads(c, "pubrel")
    BY <1>5 DEF ReadPubRel
  <2>2. conn' = [conn EXCEPT ![c] = Acked(u, "pubcomp", Id(c))]
    BY <1>5 DEF ReadPubRel, t
  <2>3. /\ t \in ConnRecord
        /\ t.in = Tail(r.in) /\ t.out = r.out /\ t.pc = r.pc /\ t.msg = r.msg
        /\ t.rate = r.rate /\ t.cut = r.cut /\ t.inflight_qos2 = r.inflight_qos2
    BY <1>2, <2>1
  <2>4. /\ DOMAIN u = DOMAIN t
        /\ u.in = Tail(r.in) /\ u.out = r.out /\ u.msg = r.msg
        /\ u.rate = r.rate /\ u.cut = r.cut /\ u.inflight_qos2 = r.inflight_qos2 \ {Id(c)}
    BY <2>3 DEF ConnRecord, Release
  <2> HIDE DEF u
  <2>5. Became(c, "select", u.in, Append(u.out, [kind |-> "pubcomp", id |-> Id(c)]), u.msg,
               u.rate, u.cut, u.inflight_qos2)
    BY <1>1, <2>2, <2>3, <2>4 DEF ConnRecord, Became, Acked
  <2> QED
    BY <2>4, <2>5
<1>6. ASSUME ReadDisconnect(c)
      PROVE  Became(c, "bail", Tail(r.in), r.out, r.msg, r.rate, r.cut, r.inflight_qos2)
  <2>1. Reads(c, "disconnect")
    BY <1>6 DEF ReadDisconnect
  <2>2. conn' = [conn EXCEPT ![c] = [t EXCEPT !.pc = "bail"]]
    BY <1>6 DEF ReadDisconnect, t
  <2>3. /\ t \in ConnRecord
        /\ t.in = Tail(r.in) /\ t.out = r.out /\ t.msg = r.msg
        /\ t.rate = r.rate /\ t.cut = r.cut /\ t.inflight_qos2 = r.inflight_qos2
    BY <1>2, <2>1
  <2> QED
    BY <1>1, <2>2, <2>3 DEF ConnRecord, Became
<1> QED
  BY <1>3, <1>4, <1>5, <1>6

\* An acknowledgement is sent, and the connection is closed.
LEMMA EndEffect ==
    ASSUME TypeInv, NEW c \in Slots
    PROVE  LET r == conn[c]
               Acks(out, ids) == Became(c, "select", r.in, out, r.msg, r.rate, r.cut, ids)
           IN  /\ Ack(c) => \/ Messages[r.msg].qos = 0 /\ Acks(r.out, r.inflight_qos2)
                            \/ /\ Messages[r.msg].qos = 1
                               /\ Acks(Append(r.out, [kind |-> "puback", id |-> r.msg]), r.inflight_qos2)
                            \/ /\ Messages[r.msg].qos = 2
                               /\ Acks(Append(r.out, [kind |-> "pubrec", id |-> r.msg]),
                                       r.inflight_qos2 \cup {r.msg})
               /\ Return(c) => \E s \in Prefixes(r.out) :
                                  Became(c, "closed", << >>, IF client.at = c THEN s ELSE << >>, 0,
                                         NewLimiter, FALSE, {})
<1> DEFINE r == conn[c]
           m == r.msg
           Acks(out, ids) == Became(c, "select", r.in, out, r.msg, r.rate, r.cut, ids)
<1>1. conn \in [Slots -> ConnRecord] /\ conn[c] \in ConnRecord
  BY DEF TypeInv, TypeOK
<1>2. ASSUME Ack(c)
      PROVE  \/ Messages[m].qos = 0 /\ Acks(r.out, r.inflight_qos2)
             \/ /\ Messages[m].qos = 1
                /\ Acks(Append(r.out, [kind |-> "puback", id |-> m]), r.inflight_qos2)
             \/ /\ Messages[m].qos = 2
                /\ Acks(Append(r.out, [kind |-> "pubrec", id |-> m]), r.inflight_qos2 \cup {m})
  <2>1. Messages[m].qos \in 0..2
    BY <1>2, IdsType DEF Ack, TypeInv, Busy
  <2>2. CASE Messages[m].qos = 0
    <3>1. conn' = [conn EXCEPT ![c] = [r EXCEPT !.pc = "select"]]
      BY <1>2, <2>2 DEF Ack
    <3> QED
      BY <1>1, <2>2, <3>1 DEF ConnRecord, Became
  <2>3. CASE Messages[m].qos = 1
    <3>1. conn' = [conn EXCEPT ![c] = Acked(r, "puback", m)]
      BY <1>2, <2>3 DEF Ack
    <3> QED
      BY <1>1, <2>3, <3>1 DEF ConnRecord, Became, Acked
  <2>4. CASE Messages[m].qos = 2
    <3>1. conn' = [conn EXCEPT ![c] = Acked([r EXCEPT !.inflight_qos2 = @ \cup {m}], "pubrec", m)]
      BY <1>2, <2>4 DEF Ack
    <3> QED
      BY <1>1, <2>4, <3>1 DEF ConnRecord, Became, Acked
  <2> QED
    BY <2>1, <2>2, <2>3, <2>4
<1>3. ASSUME Return(c)
      PROVE  \E s \in Prefixes(r.out) :
                Became(c, "closed", << >>, IF client.at = c THEN s ELSE << >>, 0, NewLimiter, FALSE, {})
  <2>1. PICK s \in Prefixes(conn[c].out) :
           conn' = [conn EXCEPT ![c] = [Closed EXCEPT !.out = IF client.at = c THEN s ELSE << >>]]
    BY <1>3 DEF Return
  <2>2. Became(c, "closed", << >>, IF client.at = c THEN s ELSE << >>, 0, NewLimiter, FALSE, {})
    BY <1>1, <2>1 DEF Closed, Became
  <2> QED
    BY <2>2
<1> QED
  BY <1>2, <1>3

\* A new connection, as every slot sees it.
LEMMA ConnectEffect ==
    ASSUME TypeOK, NEW c \in Slots, Connect(c)
    PROVE  LET s == [i \in DOMAIN client.pending |-> Resend(client.pending[i])]
               Same(d) == /\ conn'[d].pc = conn[d].pc /\ conn'[d].in = conn[d].in
                          /\ conn'[d].out = conn[d].out /\ conn'[d].msg = conn[d].msg
                          /\ conn'[d].rate = conn[d].rate /\ conn'[d].cut = conn[d].cut
                          /\ conn'[d].inflight_qos2 = conn[d].inflight_qos2
           IN  /\ \A d \in Slots : d # c => Same(d)
               /\ conn'[c].pc = "select" /\ conn'[c].in = s /\ conn'[c].out = << >>
               /\ conn'[c].msg = 0 /\ conn'[c].rate = NewLimiter
               /\ ~conn'[c].cut /\ conn'[c].inflight_qos2 = {}
               /\ client'.at = c /\ client'.pending = client.pending /\ client'.next = client.next
<1>1. conn \in [Slots -> ConnRecord] /\ client \in ClientRecord
  BY DEF TypeOK
<1>2. ASSUME NEW d \in Slots, d # c
      PROVE  conn'[d] = Superseded(conn[d])
  BY <1>2 DEF Connect
<1>3. conn'[c] = [Closed EXCEPT !.pc = "select", !.owner = TRUE,
                               !.in = [i \in DOMAIN client.pending |-> Resend(client.pending[i])]]
  BY DEF Connect
<1>4. client'.at = c /\ client'.pending = client.pending /\ client'.next = client.next
  BY <1>1 DEF Connect, ClientRecord
<1>5. ASSUME NEW d \in Slots, d # c
      PROVE  /\ conn'[d].pc = conn[d].pc /\ conn'[d].in = conn[d].in
             /\ conn'[d].out = conn[d].out /\ conn'[d].msg = conn[d].msg
             /\ conn'[d].rate = conn[d].rate /\ conn'[d].cut = conn[d].cut
             /\ conn'[d].inflight_qos2 = conn[d].inflight_qos2
  <2>1. conn[d] \in ConnRecord
    BY <1>1
  <2>2. PICK k : conn'[d] = [conn[d] EXCEPT !.kicked = k, !.owner = FALSE]
    BY <1>2, <1>5 DEF Superseded
  <2> QED
    BY <2>1, <2>2 DEF ConnRecord
<1>6. /\ conn'[c].pc = "select" /\ conn'[c].out = << >>
      /\ conn'[c].in = [i \in DOMAIN client.pending |-> Resend(client.pending[i])]
      /\ conn'[c].msg = 0 /\ conn'[c].rate = NewLimiter
      /\ ~conn'[c].cut /\ conn'[c].inflight_qos2 = {}
  BY <1>3 DEF Closed
<1> QED
  BY <1>4, <1>5, <1>6

\* And a tick.
LEMMA TickEffect ==
    ASSUME TypeOK, Tick, NEW d \in Slots
    PROVE  /\ conn'[d].pc = conn[d].pc /\ conn'[d].in = conn[d].in
           /\ conn'[d].out = conn[d].out /\ conn'[d].msg = conn[d].msg
           /\ conn'[d].cut = conn[d].cut /\ conn'[d].inflight_qos2 = conn[d].inflight_qos2
           /\ conn'[d].rate = IF conn[d].pc = "closed" THEN conn[d].rate
                              ELSE [conn[d].rate EXCEPT !.last = Aged(@, Ticks)]
<1>1. conn[d] \in ConnRecord
  BY DEF TypeOK
<1>2. conn'[d] = IF conn[d].pc = "closed" THEN conn[d]
                 ELSE [conn[d] EXCEPT !.rate = [conn[d].rate EXCEPT !.last = Aged(@, Ticks)]]
  BY <1>1 DEF Tick, ConnRecord
<1> QED
  BY <1>1, <1>2 DEF ConnRecord

-----------------------------------------------------------------------------
(***************************************************************************)
(* What is acknowledged was relayed.  AckedIsRelayed looks at the client's *)
(* side only; to keep it, whatever may still become an acknowledgement has *)
(* to be safe already: the acknowledgements under way, the PUBRELs that    *)
(* answer them, and the message of a task that is about to acknowledge,    *)
(* on every connection, the ones the client has given up included.         *)
(***************************************************************************)
Safe(m, rel, sto) ==
    Messages[m].permitted => /\ m \in rel
                             /\ Messages[m].retain => m \in sto

ConnAcks(r, rel, sto) ==
    /\ \A p \in Range(r.out) : Safe(p.id, rel, sto)
    /\ \A p \in Range(r.in) : p.kind = "pubrel" => Safe(p.id, rel, sto)
    /\ r.pc = "ack" => Safe(r.msg, rel, sto)
    /\ r.pc = "retain" => r.msg \in rel

ClientAcks(cl, rel, sto) ==
    /\ \A p \in Range(cl.pending) : p.stage = "rel" => Safe(p.id, rel, sto)
    /\ \A m \in Ids : (m < cl.next /\ Messages[m].qos > 0)
                         => \/ Safe(m, rel, sto)
                            \/ \E p \in Range(cl.pending) : p.id = m

AckInv ==
    /\ \A c \in Slots : ConnAcks(conn[c], relayed, stored)
    /\ ClientAcks(client, relayed, stored)

\* Nothing is taken back from the mesh.
LEMMA AcksGrow ==
    ASSUME NEW rel, NEW sto, NEW rel2, NEW sto2, rel \subseteq rel2, sto \subseteq sto2
    PROVE  /\ \A r : ConnAcks(r, rel, sto) => ConnAcks(r, rel2, sto2)
           /\ \A cl : ClientAcks(cl, rel, sto) => ClientAcks(cl, rel2, sto2)
<1>1. \A m : Safe(m, rel, sto) => Safe(m, rel2, sto2)
  BY DEF Safe
<1> QED
  BY <1>1 DEF ConnAcks, ClientAcks

\* A step of one connection.
LEMMA OneConnAcks ==
    ASSUME AckInv, NEW c \in Slots, \A d \in Slots : d # c => conn'[d] = conn[d],
           ConnAcks(conn'[c], relayed', stored'),
           relayed \subseteq relayed', stored \subseteq stored',
           ClientAcks(client', relayed', stored')
    PROVE  AckInv'
<1>1. \A d \in Slots : ConnAcks(conn'[d], relayed', stored')
  <2> TAKE d \in Slots
  <2>1. CASE d = c
    BY <2>1
  <2>2. CASE d # c
    BY <2>2, AcksGrow DEF AckInv
  <2> QED
    BY <2>1, <2>2
<1> QED
  BY <1>1 DEF AckInv, ConnAcks, ClientAcks, Safe, Ids

\* The client's steps.
LEMMA ClientAckStep ==
    ASSUME TypeInv, AckInv, NEW c \in Slots,
           Connect(c) \/ Publish(c) \/ Receive(c) \/ Notice(c) \/ Lose(c) \/ Leave(c)
    PROVE  AckInv'
<1>1. TypeOK /\ conn[c] \in ConnRecord /\ client \in ClientRecord
  BY DEF TypeInv, TypeOK
<1>2. /\ conn[c].in \in Seq(Inbound) /\ conn[c].out \in Seq(Outbound)
      /\ client.pending \in Seq(Unacked)
  BY <1>1 DEF ConnRecord, ClientRecord, Unacked
<1>3. /\ \A d \in Slots : ConnAcks(conn[d], relayed, stored)
      /\ ClientAcks(client, relayed, stored)
  BY DEF AckInv
<1>4. relayed' = relayed /\ stored' = stored
  BY DEF Connect, Publish, Receive, Notice, Lose, Leave
<1>5. CASE Connect(c)
  <2> DEFINE s == [i \in DOMAIN client.pending |-> Resend(client.pending[i])]
  <2>1. /\ \A d \in Slots : d # c => /\ conn'[d].pc = conn[d].pc /\ conn'[d].in = conn[d].in
                                     /\ conn'[d].out = conn[d].out /\ conn'[d].msg = conn[d].msg
        /\ conn'[c].pc = "select" /\ conn'[c].in = s /\ conn'[c].out = << >>
        /\ client'.pending = client.pending /\ client'.next = client.next
    BY <1>1, <1>5, ConnectEffect
  <2>2. ASSUME NEW p \in Range(s), p.kind = "pubrel" PROVE Safe(p.id, relayed, stored)
    <3>1. PICK i \in DOMAIN client.pending : p = Resend(client.pending[i])
      BY DEF Range
    <3>2. client.pending[i] \in Range(client.pending)
      BY DEF Range
    <3>3. client.pending[i].stage = "rel" /\ p.id = client.pending[i].id
      BY <2>2, <3>1 DEF Resend
    <3> QED
      BY <1>3, <3>2, <3>3 DEF ClientAcks
  <2> HIDE DEF s
  <2>3. ConnAcks(conn'[c], relayed, stored)
    BY <2>1, <2>2, EmptyHolds DEF ConnAcks
  <2>4. \A d \in Slots : ConnAcks(conn'[d], relayed, stored)
    <3> TAKE d \in Slots
    <3>1. CASE d # c
      BY <1>3, <2>1, <3>1 DEF ConnAcks
    <3> QED
      BY <2>3, <3>1
  <2>5. ClientAcks(client', relayed, stored)
    BY <1>3, <2>1 DEF ClientAcks
  <2> QED
    BY <1>4, <2>4, <2>5 DEF AckInv, ConnAcks, ClientAcks, Safe, Ids
<1>6. CASE Publish(c)
  <2> DEFINE p == [kind |-> "publish", id |-> client.next]
             u == [id |-> client.next, stage |-> "pub"]
  <2>1. client.next \in Ids /\ p \in Inbound /\ u \in Unacked
    BY <1>6 DEF Publish, Inbound, Unacked
  <2>2. Became(c, conn[c].pc, Append(conn[c].in, p), conn[c].out, conn[c].msg,
               conn[c].rate, conn[c].cut, conn[c].inflight_qos2)
    BY <1>1, <1>6, PacketsEffect
  <2>3. Range(Append(conn[c].in, p)) = Range(conn[c].in) \cup {p}
    BY <1>2, <2>1, AppendHolds
  <2>4. ConnAcks(conn'[c], relayed, stored)
    BY <1>3, <2>2, <2>3 DEF ConnAcks, Became
  <2>5. Range(Append(client.pending, u)) = Range(client.pending) \cup {u}
    BY <1>2, <2>1, AppendHolds
  <2>6. /\ client'.next = client.next + 1
        /\ client'.pending = IF Messages[client.next].qos = 0 THEN client.pending
                             ELSE Append(client.pending, u)
    BY <1>1, <1>6 DEF Publish, ClientRecord
  <2>7. ClientAcks(client', relayed, stored)
    <3>1. \A q \in Range(client'.pending) : q.stage = "rel" => Safe(q.id, relayed, stored)
      BY <1>3, <2>5, <2>6 DEF ClientAcks
    <3>2. ASSUME NEW m \in Ids, m < client'.next, Messages[m].qos > 0
          PROVE  Safe(m, relayed, stored) \/ \E q \in Range(client'.pending) : q.id = m
      <4>1. CASE m = client.next
        <5>1. Messages[client.next].qos # 0
          BY <3>2, <4>1
        <5>2. u \in Range(client'.pending) /\ u.id = m
          BY <2>5, <2>6, <4>1, <5>1
        <5> QED
          BY <5>2
      <4>2. CASE m # client.next
        <5>1. m < client.next
          BY <2>1, <2>6, <3>2, <4>2, IdsType
        <5>2. Range(client.pending) \subseteq Range(client'.pending)
          BY <2>5, <2>6
        <5> QED
          BY <1>3, <3>2, <5>1, <5>2 DEF ClientAcks
      <4> QED
        BY <4>1, <4>2
    <3> QED
      BY <3>1, <3>2 DEF ClientAcks
  <2> QED
    BY <1>4, <2>2, <2>4, <2>7, OneConnAcks DEF Became
<1>7. CASE Receive(c)
  <2> DEFINE a == Head(conn[c].out)
             p == [kind |-> "pubrel", id |-> a.id]
             in == IF a.kind = "pubrec" THEN Append(conn[c].in, p) ELSE conn[c].in
  <2>1. conn[c].out # << >>
    BY <1>7 DEF Receive
  <2>2. /\ a \in Outbound /\ a \in Range(conn[c].out) /\ p \in Inbound
        /\ Range(Tail(conn[c].out)) \subseteq Range(conn[c].out)
    <3>1. /\ a \in Outbound /\ a \in Range(conn[c].out)
          /\ Range(Tail(conn[c].out)) \subseteq Range(conn[c].out)
      BY <1>2, <2>1, TailHolds
    <3>2. p \in Inbound
      BY <3>1 DEF Outbound, Inbound
    <3> QED
      BY <3>1, <3>2
  <2>3. Safe(a.id, relayed, stored)
    BY <1>3, <2>2 DEF ConnAcks
  <2>4. Became(c, conn[c].pc, in, Tail(conn[c].out), conn[c].msg,
               conn[c].rate, conn[c].cut, conn[c].inflight_qos2)
    BY <1>1, <1>7, PacketsEffect
  <2>5. Range(in) \subseteq Range(conn[c].in) \cup {p}
    BY <1>2, <2>2, AppendHolds
  <2>6. ConnAcks(conn'[c], relayed, stored)
    <3> HIDE DEF in
    <3> QED
      BY <1>3, <2>2, <2>3, <2>4, <2>5 DEF ConnAcks, Became
  <2>7. ClientAcks(client', relayed, stored)
    <3>1. CASE a.kind = "pubrec"
      <4>1. /\ client'.next = client.next
            /\ client'.pending = [i \in DOMAIN client.pending |->
                                     IF client.pending[i].id = a.id
                                     THEN [client.pending[i] EXCEPT !.stage = "rel"]
                                     ELSE client.pending[i]]
        BY <1>1, <1>7, <3>1 DEF Receive, ClientRecord
      <4>2. DOMAIN client'.pending = DOMAIN client.pending
        BY <4>1
      <4>3. ASSUME NEW i \in DOMAIN client.pending
            PROVE  /\ client.pending[i] \in Range(client.pending)
                   /\ client'.pending[i] \in Range(client'.pending)
                   /\ client'.pending[i].id = client.pending[i].id
                   /\ \/ client'.pending[i] = client.pending[i]
                      \/ client'.pending[i].id = a.id
        <5>1. client.pending[i] \in Unacked
          BY <1>2
        <5> QED
          BY <4>1, <4>2, <5>1 DEF Range, Unacked
      <4>4. \A q \in Range(client'.pending) : q.stage = "rel" => Safe(q.id, relayed, stored)
        <5> TAKE q \in Range(client'.pending)
        <5>1. PICK i \in DOMAIN client.pending : q = client'.pending[i]
          BY <4>2 DEF Range
        <5> QED
          BY <1>3, <2>3, <4>3, <5>1 DEF ClientAcks
      <4>5. ASSUME NEW q \in Range(client.pending)
            PROVE  \E q2 \in Range(client'.pending) : q2.id = q.id
        <5>1. PICK i \in DOMAIN client.pending : q = client.pending[i]
          BY DEF Range
        <5> QED
          BY <4>3, <5>1
      <4> QED
        BY <1>3, <4>1, <4>4, <4>5 DEF ClientAcks
    <3>2. CASE a.kind # "pubrec"
      <4>1. client'.next = client.next /\ client'.pending = Without(client.pending, a.id)
        BY <1>1, <1>7, <3>2 DEF Receive, ClientRecord
      <4>2. /\ Range(client'.pending) \subseteq Range(client.pending)
            /\ \A q \in Range(client.pending) : q.id # a.id => q \in Range(client'.pending)
        BY <1>2, <4>1, WithoutHolds
      <4> QED
        BY <1>3, <2>3, <4>1, <4>2 DEF ClientAcks
    <3> QED
      BY <3>1, <3>2
  <2> QED
    BY <1>4, <2>4, <2>6, <2>7, OneConnAcks DEF Became
<1>8. CASE Notice(c)
  <2>1. conn' = conn /\ client'.next = client.next /\ client'.pending = client.pending
    BY <1>1, <1>8 DEF Notice, ClientRecord
  <2> QED
    BY <1>3, <1>4, <2>1 DEF AckInv, ConnAcks, ClientAcks, Safe, Ids
<1>9. CASE Lose(c)
  <2>1. PICK s \in Prefixes(conn[c].in) :
           Became(c, conn[c].pc, s, << >>, conn[c].msg, conn[c].rate, conn[c].cut, conn[c].inflight_qos2)
    BY <1>1, <1>9, PacketsEffect
  <2>2. Range(s) \subseteq Range(conn[c].in) /\ Range(<< >>) = {}
    BY <1>2, <2>1, PrefixHolds, EmptyHolds
  <2>3. ConnAcks(conn'[c], relayed, stored)
    BY <1>3, <2>1, <2>2 DEF ConnAcks, Became
  <2>4. client'.next = client.next /\ client'.pending = client.pending
    BY <1>1, <1>9 DEF Lose, ClientRecord
  <2>5. ClientAcks(client', relayed, stored)
    BY <1>3, <2>4 DEF ClientAcks
  <2> QED
    BY <1>4, <2>1, <2>3, <2>5, OneConnAcks DEF Became
<1>10. CASE Leave(c)
  <2>1. Became(c, conn[c].pc, Append(conn[c].in, Bye), conn[c].out, conn[c].msg,
               conn[c].rate, conn[c].cut, conn[c].inflight_qos2)
    BY <1>1, <1>10, PacketsEffect
  <2>2. Range(Append(conn[c].in, Bye)) = Range(conn[c].in) \cup {Bye} /\ Bye.kind # "pubrel"
    BY <1>2, AppendHolds DEF Inbound, Bye
  <2>3. ConnAcks(conn'[c], relayed, stored)
    BY <1>3, <2>1, <2>2 DEF ConnAcks, Became
  <2>4. client'.next = client.next /\ client'.pending = client.pending
    BY <1>1, <1>10 DEF Leave, ClientRecord
  <2>5. ClientAcks(client', relayed, stored)
    BY <1>3, <2>4 DEF ClientAcks
  <2> QED
    BY <1>4, <2>1, <2>3, <2>5, OneConnAcks DEF Became
<1> QED
  BY <1>5, <1>6, <1>7, <1>8, <1>9, <1>10

\* The steps of a connection's task.
LEMMA ServeAckStep ==
    ASSUME TypeInv, AckInv, NEW c \in Slots,
           \/ RateRefuses(c) \/ Accept(c) \/ Put(c) \/ WriteRetained(c) \/ WriteFails(c) \/ Ack(c)
           \/ ReadPubRel(c) \/ SendFails(c) \/ ReadDisconnect(c) \/ ReadError(c) \/ Return(c)
    PROVE  AckInv'
<1>1. TypeOK /\ conn[c] \in ConnRecord
  BY DEF TypeInv, TypeOK
<1>2. /\ conn[c].in \in Seq(Inbound) /\ conn[c].out \in Seq(Outbound)
      /\ Busy(conn[c]) => conn[c].msg \in Ids
  BY <1>1 DEF ConnRecord, TypeInv
<1>3. ConnAcks(conn[c], relayed, stored) /\ ClientAcks(client, relayed, stored)
  BY DEF AckInv
<1>4. client' = client /\ relayed \subseteq relayed' /\ stored \subseteq stored'
  BY DEF RateRefuses, Accept, Put, WriteRetained, WriteFails, Ack, ReadPubRel, SendFails,
         ReadDisconnect, ReadError, Return
<1>5. ClientAcks(client', relayed', stored')
  BY <1>3, <1>4, AcksGrow
<1>6. CASE RateRefuses(c) \/ ReadDisconnect(c)
  <2>1. Range(Tail(conn[c].in)) \subseteq Range(conn[c].in)
    BY <1>1, <1>6, ReadsType DEF RateRefuses, ReadDisconnect
  <2>2. /\ \A d \in Slots : d # c => conn'[d] = conn[d]
        /\ conn'[c].pc = "bail" /\ conn'[c].in = Tail(conn[c].in) /\ conn'[c].out = conn[c].out
    BY <1>1, <1>6, ReadEffect DEF Became
  <2>3. ConnAcks(conn'[c], relayed', stored')
    <3>1. relayed' = relayed /\ stored' = stored
      BY <1>6 DEF RateRefuses, ReadDisconnect
    <3> QED
      BY <1>3, <2>1, <2>2, <3>1 DEF ConnAcks
  <2> QED
    BY <1>4, <1>5, <2>2, <2>3, OneConnAcks
<1>7. CASE Accept(c)
  <2>1. Reads(c, "publish")
    BY <1>7 DEF Accept
  <2>2. Range(Tail(conn[c].in)) \subseteq Range(conn[c].in) /\ Id(c) \in Ids
    BY <1>1, <2>1, ReadsType
  <2>3. /\ \A d \in Slots : d # c => conn'[d] = conn[d]
        /\ conn'[c].pc = Verdict(Messages[Id(c)]) /\ conn'[c].msg = Id(c)
        /\ conn'[c].in = Tail(conn[c].in) /\ conn'[c].out = conn[c].out
    BY <1>1, <1>7, ReadEffect DEF Became
  <2>4. /\ conn'[c].pc # "retain"
        /\ conn'[c].pc = "ack" => Safe(conn'[c].msg, relayed', stored')
    BY <2>3 DEF Verdict, Safe
  <2>5. ConnAcks(conn'[c], relayed', stored')
    <3>1. relayed' = relayed /\ stored' = stored
      BY <1>7 DEF Accept
    <3> QED
      BY <1>3, <2>2, <2>3, <2>4, <3>1 DEF ConnAcks
  <2> QED
    BY <1>4, <1>5, <2>3, <2>5, OneConnAcks
<1>8. CASE Put(c)
  <2>1. /\ \A d \in Slots : d # c => conn'[d] = conn[d]
        /\ conn'[c].pc = AfterPut(Messages[conn[c].msg]) /\ conn'[c].msg = conn[c].msg
        /\ conn'[c].in = conn[c].in /\ conn'[c].out = conn[c].out
    BY <1>1, <1>8, PcEffect DEF Became
  <2>2. conn[c].msg \in relayed'
    BY <1>8 DEF Put
  <2>3. conn'[c].pc = "ack" => Safe(conn'[c].msg, relayed', stored')
    BY <2>1, <2>2 DEF AfterPut, Safe
  <2>4. ConnAcks(conn[c], relayed', stored')
    BY <1>3, <1>4, AcksGrow
  <2>5. ConnAcks(conn'[c], relayed', stored')
    BY <2>1, <2>2, <2>3, <2>4 DEF ConnAcks
  <2> QED
    BY <1>4, <1>5, <2>1, <2>5, OneConnAcks
<1>9. CASE WriteRetained(c)
  <2>1. /\ \A d \in Slots : d # c => conn'[d] = conn[d]
        /\ conn'[c].pc = "ack" /\ conn'[c].msg = conn[c].msg
        /\ conn'[c].in = conn[c].in /\ conn'[c].out = conn[c].out
    BY <1>1, <1>9, PcEffect DEF Became
  <2>2. conn[c].msg \in relayed' /\ conn[c].msg \in stored'
    BY <1>3, <1>9 DEF WriteRetained, ConnAcks
  <2>3. ConnAcks(conn[c], relayed', stored')
    BY <1>3, <1>4, AcksGrow
  <2>4. ConnAcks(conn'[c], relayed', stored')
    BY <2>1, <2>2, <2>3 DEF ConnAcks, Safe
  <2> QED
    BY <1>4, <1>5, <2>1, <2>4, OneConnAcks
<1>10. CASE WriteFails(c) \/ SendFails(c) \/ ReadError(c)
  <2>1. /\ \A d \in Slots : d # c => conn'[d] = conn[d]
        /\ conn'[c].pc = "bail" /\ conn'[c].in = conn[c].in /\ conn'[c].out = conn[c].out
    BY <1>1, <1>10, PcEffect DEF Became
  <2>2. ConnAcks(conn'[c], relayed', stored')
    <3>1. relayed' = relayed /\ stored' = stored
      BY <1>10 DEF WriteFails, SendFails, ReadError
    <3> QED
      BY <1>3, <2>1, <3>1 DEF ConnAcks
  <2> QED
    BY <1>4, <1>5, <2>1, <2>2, OneConnAcks
<1>11. CASE Ack(c)
  <2> DEFINE m == conn[c].msg
  <2>1. m \in Ids /\ Safe(m, relayed, stored)
    BY <1>2, <1>3, <1>11 DEF Ack, Busy, ConnAcks
  <2>2. ASSUME NEW kind \in {"puback", "pubrec"}
        PROVE  Range(Append(conn[c].out, [kind |-> kind, id |-> m]))
                  = Range(conn[c].out) \cup {[kind |-> kind, id |-> m]}
    <3>1. [kind |-> kind, id |-> m] \in Outbound
      BY <2>1 DEF Outbound
    <3> QED
      BY <1>2, <3>1, AppendHolds
  <2>3. /\ \A d \in Slots : d # c => conn'[d] = conn[d]
        /\ conn'[c].pc = "select" /\ conn'[c].in = conn[c].in
        /\ \/ conn'[c].out = conn[c].out
           \/ \E kind \in {"puback", "pubrec"} :
                 conn'[c].out = Append(conn[c].out, [kind |-> kind, id |-> m])
    BY <1>11, EndEffect DEF Became
  <2>4. \A p \in Range(conn'[c].out) : Safe(p.id, relayed, stored)
    <3>1. CASE conn'[c].out = conn[c].out
      BY <1>3, <3>1 DEF ConnAcks
    <3>2. ASSUME NEW kind \in {"puback", "pubrec"},
                 conn'[c].out = Append(conn[c].out, [kind |-> kind, id |-> m])
          PROVE  \A p \in Range(conn'[c].out) : Safe(p.id, relayed, stored)
      <4>1. Range(conn'[c].out) = Range(conn[c].out) \cup {[kind |-> kind, id |-> m]}
        BY <2>2, <3>2
      <4> QED
        BY <1>3, <2>1, <4>1 DEF ConnAcks
    <3> QED
      BY <2>3, <3>1, <3>2
  <2>5. relayed' = relayed /\ stored' = stored
    BY <1>11 DEF Ack
  <2>6. ConnAcks(conn'[c], relayed', stored')
    BY <1>3, <2>3, <2>4, <2>5 DEF ConnAcks
  <2> QED
    BY <1>4, <1>5, <2>3, <2>6, OneConnAcks
<1>12. CASE ReadPubRel(c)
  <2> DEFINE p == [kind |-> "pubcomp", id |-> Id(c)]
  <2>1. Reads(c, "pubrel")
    BY <1>12 DEF ReadPubRel
  <2>2. /\ Range(Tail(conn[c].in)) \subseteq Range(conn[c].in) /\ Id(c) \in Ids
        /\ Head(conn[c].in) \in Range(conn[c].in) /\ Head(conn[c].in) = [kind |-> "pubrel", id |-> Id(c)]
    BY <1>1, <2>1, ReadsType
  <2>3. Safe(Id(c), relayed, stored)
    BY <1>3, <2>2 DEF ConnAcks
  <2>4. Range(Append(conn[c].out, p)) = Range(conn[c].out) \cup {p}
    <3>1. p \in Outbound
      BY <2>2 DEF Outbound
    <3> QED
      BY <1>2, <3>1, AppendHolds
  <2>5. /\ \A d \in Slots : d # c => conn'[d] = conn[d]
        /\ conn'[c].pc = "select" /\ conn'[c].in = Tail(conn[c].in)
        /\ conn'[c].out = Append(conn[c].out, p)
    BY <1>1, <1>12, ReadEffect DEF Became
  <2>6. ConnAcks(conn'[c], relayed', stored')
    <3>1. relayed' = relayed /\ stored' = stored
      BY <1>12 DEF ReadPubRel
    <3> QED
      BY <1>3, <2>2, <2>3, <2>4, <2>5, <3>1 DEF ConnAcks
  <2> QED
    BY <1>4, <1>5, <2>5, <2>6, OneConnAcks
<1>13. CASE Return(c)
  <2>1. PICK s \in Prefixes(conn[c].out) :
           /\ \A d \in Slots : d # c => conn'[d] = conn[d]
           /\ conn'[c].pc = "closed" /\ conn'[c].in = << >>
           /\ conn'[c].out = IF client.at = c THEN s ELSE << >>
    BY <1>13, EndEffect DEF Became
  <2>2. Range(s) \subseteq Range(conn[c].out) /\ Range(<< >>) = {}
    BY <1>2, <2>1, PrefixHolds, EmptyHolds
  <2>3. ConnAcks(conn'[c], relayed', stored')
    <3>1. relayed' = relayed /\ stored' = stored
      BY <1>13 DEF Return
    <3> QED
      BY <1>3, <2>1, <2>2, <3>1 DEF ConnAcks
  <2> QED
    BY <1>4, <1>5, <2>1, <2>3, OneConnAcks
<1> QED
  BY <1>6, <1>7, <1>8, <1>9, <1>10, <1>11, <1>12, <1>13

(***************************************************************************)
(* Whatever is lost, resent, refused or still handled by a task whose      *)
(* client has gone: a message that its client may forget was put on its    *)
(* key, and on the retained key if it is retained, unless the ACL denied   *)
(* it.                                                                     *)
(***************************************************************************)
THEOREM AckedCorrect == Spec => []AckedIsRelayed
<1>1. Init => AckInv
  <2> SUFFICES ASSUME Init PROVE AckInv
    OBVIOUS
  <2>1. ASSUME NEW c \in Slots PROVE ConnAcks(conn[c], relayed, stored)
    <3>1. conn[c].pc = "closed" /\ conn[c].in = << >> /\ conn[c].out = << >>
      BY DEF Init, Closed
    <3> QED
      BY <3>1, EmptyHolds DEF ConnAcks
  <2>2. ClientAcks(client, relayed, stored)
    <3>1. client.next = 1 /\ client.pending = << >>
      BY DEF Init
    <3> QED
      BY <3>1, EmptyHolds, IdsType DEF ClientAcks
  <2> QED
    BY <2>1, <2>2 DEF AckInv
<1>2. TypeInv /\ AckInv /\ [Next]_vars => AckInv'
  <2> SUFFICES ASSUME TypeInv, AckInv, [Next]_vars PROVE AckInv'
    OBVIOUS
  <2>1. CASE UNCHANGED vars
    BY <2>1 DEF vars, AckInv, ConnAcks, ClientAcks, Safe, Ids
  <2>2. CASE Tick
    <3>1. \A d \in Slots : /\ conn'[d].pc = conn[d].pc /\ conn'[d].in = conn[d].in
                           /\ conn'[d].out = conn[d].out /\ conn'[d].msg = conn[d].msg
      BY <2>2, TickEffect DEF TypeInv
    <3>2. client' = client /\ relayed' = relayed /\ stored' = stored
      BY <2>2 DEF Tick
    <3> QED
      BY <3>1, <3>2 DEF AckInv, ConnAcks, ClientAcks, Safe, Ids
  <2>3. CASE Next
    BY <2>2, <2>3, ClientAckStep, ServeAckStep DEF Next
  <2> QED
    BY <2>1, <2>3
<1>3. TypeInv /\ AckInv => AckedIsRelayed
  <2> SUFFICES ASSUME AckInv, NEW m \in Ids, m < client.next, Messages[m].qos > 0, ~Waiting(m),
                      Messages[m].permitted, TypeInv
               PROVE  m \in relayed /\ (Messages[m].retain => m \in stored)
    BY DEF AckedIsRelayed
  <2>1. CASE Safe(m, relayed, stored)
    BY <2>1 DEF Safe
  <2>2. CASE \E p \in Range(client.pending) : p.id = m
    <3>1. PICK i \in DOMAIN client.pending : client.pending[i].id = m
      BY <2>2 DEF Range
    <3>2. client.pending[i] \in Unacked /\ client.pending[i] \in Range(client.pending)
      <4>1. client.pending \in Seq(Unacked)
        BY DEF TypeInv, TypeOK, ClientRecord, Unacked
      <4> QED
        BY <4>1 DEF Range
    <3>3. client.pending[i].stage = "rel"
      BY <3>1, <3>2 DEF Waiting, Unacked
    <3> QED
      BY <3>1, <3>2, <3>3 DEF AckInv, ClientAcks, Safe
  <2> QED
    BY <2>1, <2>2 DEF AckInv, ClientAcks
<1> QED
  BY <1>1, <1>2, <1>3, TypeInvariant, PTL DEF Spec

-----------------------------------------------------------------------------
(***************************************************************************)
(* The limiter is a bucket which fills by itself, though the code looks at *)
(* it only when a publish comes.  Two facts about the connections are      *)
(* needed: who was refused does nothing but leave, and a slot that is not  *)
(* in use has a full bucket.                                               *)
(***************************************************************************)
BucketInv ==
    /\ \A c \in Slots : conn[c].cut => conn[c].pc = "bail"
    /\ conn[Watched].pc = "closed" => sent = << >> /\ conn[Watched].rate = NewLimiter

\* What a bucket holds, seen from outside.
LEMMA RefillFacts ==
    /\ Refill(NewLimiter) = Full
    /\ \A r \in Limiter :
          /\ Rate = 0 => Refill(allowed(r)) = Refill(r)
          /\ Rate # 0 /\ allow(r) => Refill(allowed(r)) = Refill(r) - Token
          /\ Refill(refused(r)) = Refill(r)
          /\ Refill([r EXCEPT !.last = Aged(@, Ticks)])
                = IF Refill(r) + Rate <= Full THEN Refill(r) + Rate ELSE Full
<1>1. Token \in Nat /\ Full \in Nat /\ Ticks \in Nat /\ Rate \in Nat
  BY BoundsType, PublishAssumption
<1>2. Rate * 0 = 0 /\ Rate * Ticks = Full
  BY <1>1 DEF Full
<1>3. Refill(NewLimiter) = Full
  BY <1>1, <1>2 DEF Refill, NewLimiter
<1>4. ASSUME NEW r \in Limiter
      PROVE  /\ Rate = 0 => Refill(allowed(r)) = Refill(r)
             /\ Rate # 0 /\ allow(r) => Refill(allowed(r)) = Refill(r) - Token
             /\ Refill(refused(r)) = Refill(r)
  <2>1. Refill(r) \in 0..Full
    BY LimiterType
  <2>2. Rate = 0 => Refill(allowed(r)) = Refill(r)
    BY DEF allowed
  <2>3. ASSUME Rate # 0, allow(r) PROVE Refill(allowed(r)) = Refill(r) - Token
    <3>1. allowed(r) = [tokens |-> Refill(r) - Token, last |-> 0]
      BY <2>3 DEF allowed
    <3>2. Refill(allowed(r)) = LET tokens == (Refill(r) - Token) + Rate * 0
                               IN  IF tokens <= Full THEN tokens ELSE Full
      BY <3>1 DEF Refill
    <3>3. Refill(r) - Token <= Full /\ Refill(r) - Token \in Int
      BY <1>1, <2>1
    <3> QED
      BY <1>2, <3>2, <3>3
  <2>4. Refill(refused(r)) = Refill(r)
    <3>1. Refill(refused(r)) = LET tokens == Refill(r) + Rate * 0
                               IN  IF tokens <= Full THEN tokens ELSE Full
      BY DEF Refill, refused
    <3> QED
      BY <1>2, <2>1, <3>1
  <2> QED
    BY <2>2, <2>3, <2>4
<1>5. ASSUME NEW r \in Limiter
      PROVE  Refill([r EXCEPT !.last = Aged(@, Ticks)])
                = IF Refill(r) + Rate <= Full THEN Refill(r) + Rate ELSE Full
  <2> DEFINE x == Rate * r.last
             y == Rate * Aged(r.last, Ticks)
  <2>1. r.tokens \in 0..Full /\ r.last \in 0..Ticks
    BY DEF Limiter
  <2>2. x \in Nat
    BY <1>1, <2>1
  <2>3. Refill([r EXCEPT !.last = Aged(@, Ticks)]) = IF r.tokens + y <= Full THEN r.tokens + y ELSE Full
    BY DEF Refill, Limiter
  <2>4. Refill(r) = IF r.tokens + x <= Full THEN r.tokens + x ELSE Full
    BY DEF Refill
  <2>5. CASE r.last < Ticks
    <3>1. y = x + Rate
      BY <1>1, <2>1, <2>5 DEF Aged
    <3> HIDE DEF x, y
    <3> QED
      BY <1>1, <2>1, <2>2, <2>3, <2>4, <3>1
  <2>6. CASE ~(r.last < Ticks)
    <3>1. x = Full /\ y = Full
      BY <1>1, <1>2, <2>1, <2>6 DEF Aged
    <3> HIDE DEF x, y
    <3> QED
      BY <1>1, <2>1, <2>2, <2>3, <2>4, <3>1
  <2> QED
    BY <2>5, <2>6
<1> QED
  BY <1>3, <1>4, <1>5

\* A step that the bucket does not see.
LEMMA BucketStutters ==
    ASSUME conn'[Watched].rate = conn[Watched].rate, conn'[Watched].cut = conn[Watched].cut,
           sent' = sent
    PROVE  UNCHANGED Bucket!vars
BY DEF Bucket!vars, Refill

\* Every step is one of the bucket, or none.
LEMMA BucketStep ==
    ASSUME TypeInv, BucketInv, [Next]_vars
    PROVE  BucketInv' /\ [Bucket!Next]_(Bucket!vars)
<1>1. TypeOK /\ Watched \in Slots /\ conn[Watched] \in ConnRecord
  BY PublishAssumption DEF TypeInv, TypeOK
<1>2. conn[Watched].rate \in Limiter /\ conn[Watched].cut \in BOOLEAN /\ sent \in Seq(0..MaxAge)
  BY <1>1 DEF ConnRecord, Limiter, TypeOK
<1>3. CASE UNCHANGED vars
  BY <1>3, BucketStutters DEF vars, BucketInv
<1>4. ASSUME NEW c \in Slots, Connect(c) PROVE BucketInv' /\ [Bucket!Next]_(Bucket!vars)
  <2>1. /\ \A d \in Slots : d # c => /\ conn'[d].pc = conn[d].pc /\ conn'[d].rate = conn[d].rate
                                     /\ conn'[d].cut = conn[d].cut
        /\ conn'[c].pc = "select" /\ conn'[c].rate = NewLimiter /\ ~conn'[c].cut
    BY <1>1, <1>4, ConnectEffect, ZenonT(30)
  <2>2. sent' = sent /\ conn[c].pc = "closed"
    BY <1>4 DEF Connect
  <2>3. BucketInv'
    BY <1>1, <2>1, <2>2 DEF BucketInv
  <2>4. conn'[Watched].rate = conn[Watched].rate /\ conn'[Watched].cut = conn[Watched].cut
    <3>1. CASE Watched # c
      BY <1>1, <2>1, <3>1
    <3>2. CASE Watched = c
      <4>1. conn[c].rate = NewLimiter /\ ~conn[c].cut
        BY <2>2, <3>2 DEF BucketInv
      <4>2. conn'[c].cut \in BOOLEAN
        BY TypeNext DEF TypeInv, TypeOK, ConnRecord
      <4> QED
        BY <1>2, <2>1, <3>2, <4>1, <4>2
    <3> QED
      BY <3>1, <3>2
  <2> QED
    BY <2>2, <2>3, <2>4, BucketStutters
<1>5. ASSUME NEW c \in Slots, NEW pc, NEW in, NEW out, NEW msg, NEW ids,
             Became(c, pc, in, out, msg, conn[c].rate, conn[c].cut, ids),
             sent' = sent, pc # "closed" \/ pc = conn[c].pc, conn[c].cut => pc = "bail"
      PROVE  BucketInv' /\ [Bucket!Next]_(Bucket!vars)
  <2>1. \A d \in Slots : conn'[d].rate = conn[d].rate /\ conn'[d].cut = conn[d].cut
    BY <1>5 DEF Became
  <2>2. BucketInv'
    BY <1>1, <1>5, <2>1 DEF BucketInv, Became
  <2> QED
    BY <1>1, <1>5, <2>1, <2>2, BucketStutters
<1>6. ASSUME NEW c \in Slots, Publish(c) \/ Receive(c) \/ Lose(c) \/ Leave(c)
      PROVE  BucketInv' /\ [Bucket!Next]_(Bucket!vars)
  <2>1. PICK in, out : Became(c, conn[c].pc, in, out, conn[c].msg, conn[c].rate, conn[c].cut,
                              conn[c].inflight_qos2)
    BY <1>1, <1>6, PacketsEffect
  <2>2. sent' = sent
    BY <1>6 DEF Publish, Receive, Lose, Leave
  <2> QED
    BY <1>5, <2>1, <2>2 DEF BucketInv
<1>7. ASSUME NEW c \in Slots, Notice(c) PROVE BucketInv' /\ [Bucket!Next]_(Bucket!vars)
  BY <1>7, BucketStutters DEF Notice, BucketInv
<1>8. ASSUME NEW c \in Slots, Put(c) \/ WriteRetained(c) \/ WriteFails(c) \/ SendFails(c) \/ ReadError(c)
      PROVE  BucketInv' /\ [Bucket!Next]_(Bucket!vars)
  <2>1. PICK pc \in {"ack", "retain", "bail"} :
           Became(c, pc, conn[c].in, conn[c].out, conn[c].msg, conn[c].rate, conn[c].cut,
                  conn[c].inflight_qos2)
    BY <1>1, <1>8, PcEffect DEF AfterPut
  <2>2. conn[c].pc # "bail" /\ sent' = sent
    BY <1>8 DEF Put, WriteRetained, WriteFails, SendFails, ReadError, Reads
  <2> QED
    BY <1>5, <2>1, <2>2 DEF BucketInv
<1>9. ASSUME NEW c \in Slots, Ack(c) PROVE BucketInv' /\ [Bucket!Next]_(Bucket!vars)
  <2>1. PICK out, ids : Became(c, "select", conn[c].in, out, conn[c].msg, conn[c].rate, conn[c].cut, ids)
    BY <1>9, EndEffect
  <2>2. conn[c].pc # "bail" /\ sent' = sent
    BY <1>9 DEF Ack
  <2>3. ~conn[c].cut
    BY <2>2 DEF BucketInv
  <2>4. "select" # "closed"
    OBVIOUS
  <2> QED
    BY <1>5, <2>1, <2>2, <2>3, <2>4
<1>10. ASSUME NEW c \in Slots, ReadPubRel(c) \/ ReadDisconnect(c)
       PROVE  BucketInv' /\ [Bucket!Next]_(Bucket!vars)
  <2>1. PICK in, out, ids :
           \/ Became(c, "select", in, out, conn[c].msg, conn[c].rate, conn[c].cut, ids)
           \/ Became(c, "bail", in, out, conn[c].msg, conn[c].rate, conn[c].cut, ids)
    <3>1. CASE ReadPubRel(c)
      <4>1. Became(c, "select", Tail(conn[c].in),
                   Append(conn[c].out, [kind |-> "pubcomp", id |-> Id(c)]), conn[c].msg,
                   conn[c].rate, conn[c].cut, conn[c].inflight_qos2 \ {Id(c)})
        BY <1>1, <3>1, ReadEffect
      <4> QED
        BY <4>1
    <3>2. CASE ReadDisconnect(c)
      <4>1. Became(c, "bail", Tail(conn[c].in), conn[c].out, conn[c].msg, conn[c].rate, conn[c].cut,
                   conn[c].inflight_qos2)
        BY <1>1, <3>2, ReadEffect
      <4> QED
        BY <4>1
    <3> QED
      BY <1>10, <3>1, <3>2
  <2>2. conn[c].pc # "bail" /\ sent' = sent
    BY <1>10 DEF ReadPubRel, ReadDisconnect, Reads
  <2>3. ~conn[c].cut /\ "select" # "closed" /\ "bail" # "closed"
    BY <2>2 DEF BucketInv
  <2>4. CASE Became(c, "select", in, out, conn[c].msg, conn[c].rate, conn[c].cut, ids)
    BY <1>5, <2>2, <2>3, <2>4
  <2>5. CASE Became(c, "bail", in, out, conn[c].msg, conn[c].rate, conn[c].cut, ids)
    BY <1>5, <2>2, <2>3, <2>5
  <2> QED
    BY <2>1, <2>4, <2>5
<1>11. ASSUME NEW c \in Slots, RateRefuses(c) PROVE BucketInv' /\ [Bucket!Next]_(Bucket!vars)
  <2>1. /\ \A d \in Slots : d # c => conn'[d] = conn[d]
        /\ conn'[c].pc = "bail" /\ conn'[c].rate = refused(conn[c].rate) /\ conn'[c].cut = TRUE
    BY <1>1, <1>11, ReadEffect DEF Became
  <2>2. sent' = sent /\ ~allow(conn[c].rate) /\ conn[c].pc = "select"
    BY <1>11 DEF RateRefuses, Reads
  <2>3. BucketInv'
    BY <1>1, <2>1, <2>2 DEF BucketInv
  <2>4. CASE c = Watched
    <3>1. Refill(conn'[Watched].rate) = Refill(conn[Watched].rate)
      BY <1>2, <2>1, <2>4, RefillFacts
    <3>2. Rate # 0 /\ Refill(conn[Watched].rate) < Token
      <4>1. Refill(conn[Watched].rate) \in Nat /\ Token \in Nat
        <5>1. Refill(conn[Watched].rate) \in 0..Full
          BY <1>2, LimiterType
        <5> QED
          BY <5>1, BoundsType
      <4> QED
        BY <2>2, <2>4, <4>1 DEF allow
    <3>3. ~conn[Watched].cut
      BY <2>2, <2>4 DEF BucketInv
    <3>4. Bucket!Refuse
      BY <2>1, <2>2, <2>4, <3>1, <3>2, <3>3 DEF Bucket!Refuse, Bucket!Token, Token, Refill, Full
    <3> QED
      BY <2>3, <3>4 DEF Bucket!Next
  <2>5. CASE c # Watched
    BY <1>1, <2>1, <2>2, <2>3, <2>5, BucketStutters
  <2> QED
    BY <2>4, <2>5
<1>12. ASSUME NEW c \in Slots, Accept(c) PROVE BucketInv' /\ [Bucket!Next]_(Bucket!vars)
  <2>1. /\ \A d \in Slots : d # c => conn'[d] = conn[d]
        /\ conn'[c].pc \in {"bail", "put", "ack"}
        /\ conn'[c].rate = allowed(conn[c].rate) /\ conn'[c].cut = conn[c].cut
    BY <1>1, <1>12, ReadEffect DEF Became, Verdict
  <2>2. allow(conn[c].rate) /\ conn[c].pc = "select" /\ ~conn[c].cut
    BY <1>12 DEF Accept, Reads, BucketInv
  <2>3. sent' = IF c = Watched THEN <<0>> \o sent ELSE sent
    BY <1>12 DEF Accept
  <2>4. BucketInv'
    BY <1>1, <2>1, <2>2, <2>3 DEF BucketInv
  <2>5. CASE c = Watched
    <3>1. Refill(conn'[Watched].rate)
             = IF Rate = 0 THEN Refill(conn[Watched].rate) ELSE Refill(conn[Watched].rate) - Token
      BY <1>2, <2>1, <2>2, <2>5, RefillFacts
    <3>2. Len(sent') = Len(sent) + 1
      <4>1. <<0>> \in Seq(0..MaxAge) /\ Len(<<0>>) = 1
        BY BoundsType
      <4>2. Len(<<0>> \o sent) = 1 + Len(sent) /\ Len(sent) \in Nat
        BY <1>2, <4>1, ConcatProperties, LenProperties
      <4> QED
        BY <2>3, <2>5, <4>2
    <3>3. Rate = 0 \/ Refill(conn[Watched].rate) >= Token
      BY <2>2, <2>5 DEF allow
    <3>4. Bucket!Accept
      BY <2>1, <2>2, <2>5, <3>1, <3>2, <3>3 DEF Bucket!Accept, Bucket!Token, Token, Refill, Full
    <3> QED
      BY <2>4, <3>4 DEF Bucket!Next
  <2>6. CASE c # Watched
    BY <1>1, <2>1, <2>3, <2>4, <2>6, BucketStutters
  <2> QED
    BY <2>5, <2>6
<1>13. ASSUME NEW c \in Slots, Return(c) PROVE BucketInv' /\ [Bucket!Next]_(Bucket!vars)
  <2>1. /\ \A d \in Slots : d # c => conn'[d] = conn[d]
        /\ conn'[c].pc = "closed" /\ conn'[c].rate = NewLimiter /\ conn'[c].cut = FALSE
    BY <1>13, EndEffect DEF Became
  <2>2. sent' = IF c = Watched THEN << >> ELSE sent
    BY <1>13 DEF Return
  <2>3. BucketInv'
    BY <1>1, <2>1, <2>2 DEF BucketInv
  <2>4. CASE c = Watched
    <3>1. Refill(conn'[Watched].rate) = Full
      BY <2>1, <2>4, RefillFacts
    <3>2. Len(sent') = 0
      BY <2>2, <2>4
    <3>3. Bucket!Open
      BY <2>1, <2>4, <3>1, <3>2 DEF Bucket!Open, Bucket!Full, Full, Refill
    <3> QED
      BY <2>3, <3>3 DEF Bucket!Next
  <2>5. CASE c # Watched
    BY <1>1, <2>1, <2>2, <2>3, <2>5, BucketStutters
  <2> QED
    BY <2>4, <2>5
<1>14. CASE Tick
  <2>1. \A d \in Slots : /\ conn'[d].pc = conn[d].pc /\ conn'[d].cut = conn[d].cut
                         /\ conn'[d].rate = IF conn[d].pc = "closed" THEN conn[d].rate
                                            ELSE [conn[d].rate EXCEPT !.last = Aged(@, Ticks)]
    BY <1>1, <1>14, TickEffect
  <2>2. Len(sent') = Len(sent) /\ (sent = << >> => sent' = << >>)
    <3>1. Len(sent) \in Nat /\ DOMAIN sent = 1..Len(sent)
      BY <1>2, LenProperties
    <3>2. sent' \in Seq(0..MaxAge) /\ DOMAIN sent' = DOMAIN sent
      BY <1>14, TypeNext DEF TypeInv, TypeOK, Tick
    <3>3. Len(sent') \in Nat /\ DOMAIN sent' = 1..Len(sent')
      BY <3>2, LenProperties
    <3>4. Len(sent') = Len(sent)
      BY <3>1, <3>2, <3>3
    <3> QED
      BY <1>2, <3>2, <3>4, EmptySeq
  <2>3. BucketInv'
    BY <1>1, <2>1, <2>2 DEF BucketInv
  <2>4. CASE conn[Watched].pc = "closed"
    <3>1. conn'[Watched].rate = conn[Watched].rate /\ conn'[Watched].cut = conn[Watched].cut
      BY <1>1, <2>1, <2>4
    <3>2. sent' = sent
      BY <2>2, <2>4 DEF BucketInv
    <3> QED
      BY <2>3, <3>1, <3>2, BucketStutters
  <2>5. CASE conn[Watched].pc # "closed"
    <3>1. Refill(conn'[Watched].rate)
             = IF Refill(conn[Watched].rate) + Rate <= Full THEN Refill(conn[Watched].rate) + Rate ELSE Full
      <4>1. conn'[Watched].rate = [conn[Watched].rate EXCEPT !.last = Aged(@, Ticks)]
        BY <1>1, <2>1, <2>5
      <4>2. Refill([conn[Watched].rate EXCEPT !.last = Aged(@, Ticks)])
               = IF Refill(conn[Watched].rate) + Rate <= Full THEN Refill(conn[Watched].rate) + Rate ELSE Full
        BY <1>2, RefillFacts
      <4> QED
        BY <4>1, <4>2
    <3>2. conn'[Watched].cut = conn[Watched].cut
      BY <1>1, <2>1
    <3>3. Bucket!Fill
      BY <2>2, <3>1, <3>2 DEF Bucket!Fill, Bucket!Capped, Bucket!Full, Full, Refill
    <3> QED
      BY <2>3, <3>3 DEF Bucket!Next
  <2> QED
    BY <2>4, <2>5
<1>15. CASE Next
  BY <1>4, <1>6, <1>7, <1>8, <1>9, <1>10, <1>11, <1>12, <1>13, <1>14, <1>15 DEF Next
<1> QED
  BY <1>3, <1>15

(***************************************************************************)
(* RateLimiter::allow, which refills what has come in since it was last    *)
(* asked, implements the bucket of TokenBucket for any connection, rate    *)
(* and resolution of the clock: it starts full with every connection,      *)
(* never grants a token it does not have and never refuses one it has.     *)
(***************************************************************************)
THEOREM BucketImplemented == Spec => ImplementsBucket
<1>1. Init => BucketInv /\ Bucket!Init
  <2> SUFFICES ASSUME Init PROVE BucketInv /\ Bucket!Init
    OBVIOUS
  <2>1. \A c \in Slots : conn[c] = Closed
    BY DEF Init
  <2>2. BucketInv
    BY <2>1, PublishAssumption DEF Init, BucketInv, Closed
  <2>3. Refill(conn[Watched].rate) = Full /\ conn[Watched].cut = FALSE /\ Len(sent) = 0
    BY <2>1, RefillFacts, PublishAssumption DEF Init, Closed
  <2>4. Bucket!Init
    BY <2>3 DEF Bucket!Init, Bucket!Full, Full
  <2> QED
    BY <2>2, <2>4
<1>2. TypeInv /\ BucketInv /\ [Next]_vars => BucketInv' /\ [Bucket!Next]_(Bucket!vars)
  BY BucketStep
<1> QED
  BY <1>1, <1>2, TypeInvariant, PTL DEF Spec, ImplementsBucket, Bucket!Spec

-----------------------------------------------------------------------------
(***************************************************************************)
(* No packet id is left behind.  inflight_qos2 only holds ids of messages  *)
(* the client has not completed.  That is kept because a message goes      *)
(* through its connection in one direction: while it is on its way in or   *)
(* being handled, nothing of its handshake exists yet, so a PUBCOMP is     *)
(* never overtaken by a PUBREC for the same message.                       *)
(***************************************************************************)
PublishOf(m) == [kind |-> "publish", id |-> m]
PubrelOf(m)  == [kind |-> "pubrel", id |-> m]
PubcompOf(m) == [kind |-> "pubcomp", id |-> m]

PendingIds(cl) == {p.id : p \in Range(cl.pending)}

\* A message is published once on a connection.
Once(s) == \A i, j \in DOMAIN s : (s[i].kind = "publish" /\ s[i] = s[j]) => i = j

\* On its way in, or being handled.
Early(r, m) == PublishOf(m) \in Range(r.in) \/ (Busy(r) /\ r.msg = m)

Turns(r, cl) ==
    /\ Once(r.in)
    /\ Busy(r) => PublishOf(r.msg) \notin Range(r.in)
    /\ \A m \in Ids : Early(r, m) => /\ \A p \in Range(r.out) : p.id # m
                                     /\ PubrelOf(m) \notin Range(r.in)
                                     /\ m \notin r.inflight_qos2
                                     /\ m < cl.next
                                     /\ Messages[m].qos > 0 => m \in PendingIds(cl)
    /\ \A m \in r.inflight_qos2 : /\ Messages[m].qos = 2
                                  /\ m \in PendingIds(cl)
                                  /\ PubcompOf(m) \notin Range(r.out)
    /\ \A p \in Range(r.out) : p.id < cl.next /\ (p.kind = "puback" => Messages[p.id].qos = 1)
    /\ \A p \in Range(r.in) : p.id < cl.next

ClientIds(cl) ==
    /\ Distinct(cl.pending)
    /\ \A m \in PendingIds(cl) : m < cl.next

IdInv ==
    /\ client.at \in Slots => Turns(conn[client.at], client)
    /\ ClientIds(client)

\* A packet that is not there yet, or is no PUBLISH, may be added.
LEMMA OnceAppend ==
    ASSUME NEW s \in Seq(Inbound), NEW e \in Inbound, Once(s),
           e.kind = "publish" => e \notin Range(s)
    PROVE  Once(Append(s, e))
<1>1. /\ Len(s) \in Nat /\ DOMAIN s = 1..Len(s)
      /\ DOMAIN Append(s, e) = 1..(Len(s) + 1)
      /\ \A i \in 1..Len(s) : Append(s, e)[i] = s[i]
      /\ Append(s, e)[Len(s) + 1] = e
  OBVIOUS
<1> DEFINE t == Append(s, e)
<1> HIDE DEF t
<1> SUFFICES ASSUME NEW i \in DOMAIN t, NEW j \in DOMAIN t, t[i].kind = "publish", t[i] = t[j]
             PROVE  i = j
  BY DEF Once, t
<1>2. CASE i \in DOMAIN s /\ j \in DOMAIN s
  BY <1>1, <1>2 DEF Once, t
<1>3. CASE i \notin DOMAIN s /\ j \notin DOMAIN s
  BY <1>1, <1>3 DEF t
<1>4. CASE i \in DOMAIN s /\ j \notin DOMAIN s
  <2>1. j = Len(s) + 1 /\ t[j] = e /\ t[i] = s[i]
    BY <1>1, <1>4 DEF t
  <2>2. e \in Range(s)
    BY <1>4, <2>1 DEF Range
  <2> QED
    BY <2>1, <2>2
<1>5. CASE i \notin DOMAIN s /\ j \in DOMAIN s
  <2>1. i = Len(s) + 1 /\ t[i] = e /\ t[j] = s[j]
    BY <1>1, <1>5 DEF t
  <2>2. e \in Range(s)
    BY <1>5, <2>1 DEF Range
  <2> QED
    BY <2>1, <2>2
<1> QED
  BY <1>2, <1>3, <1>4, <1>5

\* A PUBLISH that was read is not there any more.
LEMMA OnceTail ==
    ASSUME NEW s \in Seq(Inbound), s # << >>, Once(s)
    PROVE  /\ Once(Tail(s))
           /\ Head(s).kind = "publish" => Head(s) \notin Range(Tail(s))
<1> DEFINE t == Tail(s)
<1>1. /\ Len(s) \in Nat /\ Len(s) # 0 /\ DOMAIN s = 1..Len(s) /\ Head(s) = s[1]
      /\ t \in Seq(Inbound) /\ Len(t) = Len(s) - 1
      /\ \A i \in 1..Len(t) : t[i] = s[i + 1]
  BY HeadTailProperties, EmptySeq
<1>2. DOMAIN t = 1..Len(t)
  BY <1>1
<1> HIDE DEF t
<1>3. \A i \in DOMAIN t : i \in Int /\ i + 1 \in DOMAIN s /\ i + 1 # 1 /\ t[i] = s[i + 1]
  BY <1>1, <1>2
<1>4. 1 \in DOMAIN s
  BY <1>1
<1>5. ASSUME NEW i \in DOMAIN t, NEW j \in DOMAIN t, t[i].kind = "publish", t[i] = t[j]
      PROVE  i = j
  <2>1. i + 1 = j + 1
    BY <1>3, <1>5 DEF Once
  <2> QED
    BY <1>3, <2>1
<1>6. ASSUME Head(s).kind = "publish", Head(s) \in Range(t) PROVE FALSE
  <2>1. PICK i \in DOMAIN t : t[i] = s[1]
    BY <1>1, <1>6 DEF Range
  <2>2. i + 1 = 1
    BY <1>1, <1>3, <1>4, <1>6, <2>1 DEF Once
  <2> QED
    BY <1>3, <2>2
<1> QED
  BY <1>5, <1>6 DEF Once, t

\* A connection on which nothing new appears.
LEMMA TurnsShrink ==
    ASSUME NEW r, NEW r2, NEW cl, Turns(r, cl),
           Once(r2.in), Range(r2.in) \subseteq Range(r.in), Range(r2.out) \subseteq Range(r.out),
           r2.inflight_qos2 \subseteq r.inflight_qos2,
           Busy(r2) => PublishOf(r2.msg) \notin Range(r2.in) /\ Early(r, r2.msg)
    PROVE  Turns(r2, cl)
<1>1. \A m : Early(r2, m) => Early(r, m)
  BY DEF Early
<1> QED
  BY <1>1 DEF Turns

\* A step of a task, which the client does not see.
LEMMA ServeKeepsIds ==
    ASSUME IdInv, client' = client, NEW c \in Slots, \A d \in Slots : d # c => conn'[d] = conn[d],
           client.at = c => Turns(conn'[c], client)
    PROVE  IdInv'
<1>1. client.at \in Slots => Turns(conn'[client.at], client)
  <2>1. CASE client.at # c
    BY <2>1 DEF IdInv
  <2> QED
    BY <2>1
<1>2. ClientIds(client)
  BY DEF IdInv
<1> QED
  BY <1>1, <1>2 DEF IdInv, ClientIds, Turns, PendingIds, Ids, Early, Busy, Once, PublishOf, PubrelOf,
                    PubcompOf, Distinct

\* Packets differ when their kinds or ids do.
LEMMA PacketFacts ==
    /\ \A m, n : (PublishOf(m) = PublishOf(n) \/ PubrelOf(m) = PubrelOf(n) \/ PubcompOf(m) = PubcompOf(n))
                    => m = n
    /\ \A m, n : PublishOf(m) # PubrelOf(n)
    /\ \A m : PublishOf(m) # Bye /\ PubrelOf(m) # Bye
    /\ \A m : PublishOf(m).kind = "publish" /\ PubrelOf(m).kind = "pubrel" /\ PubcompOf(m).kind = "pubcomp"
    /\ \A m : PublishOf(m).id = m /\ PubrelOf(m).id = m /\ PubcompOf(m).id = m
    /\ \A m \in Ids : PublishOf(m) \in Inbound /\ PubrelOf(m) \in Inbound /\ PubcompOf(m) \in Outbound
BY DEF PublishOf, PubrelOf, PubcompOf, Bye, Inbound, Outbound

\* A new connection starts with what is unacknowledged, each message once.
LEMMA ConnectIds ==
    ASSUME TypeInv, IdInv, NEW c \in Slots, Connect(c)
    PROVE  IdInv'
<1> DEFINE s == [i \in DOMAIN client.pending |-> Resend(client.pending[i])]
<1>1. TypeOK /\ client.pending \in Seq(Unacked)
  BY DEF TypeInv, TypeOK, ClientRecord, Unacked
<1>2. /\ conn'[c].pc = "select" /\ conn'[c].in = s /\ conn'[c].out = << >>
      /\ conn'[c].inflight_qos2 = {}
      /\ client'.at = c /\ client'.pending = client.pending /\ client'.next = client.next
  BY <1>1, ConnectEffect
<1>3. Distinct(client.pending) /\ \A m \in PendingIds(client) : m < client.next
  BY DEF IdInv, ClientIds
<1>4. ~Busy(conn'[c]) /\ Range(conn'[c].out) = {}
  BY <1>2, EmptyHolds DEF Busy
<1>5. ASSUME NEW i \in DOMAIN client.pending
      PROVE  /\ client.pending[i].id \in PendingIds(client)
             /\ s[i].id = client.pending[i].id
  <2>1. client.pending[i] \in Range(client.pending)
    BY DEF Range
  <2> QED
    BY <2>1 DEF PendingIds, Resend
<1>6. DOMAIN s = DOMAIN client.pending
  OBVIOUS
<1> HIDE DEF s
<1>7. \A i, j \in DOMAIN s : s[i].id = s[j].id => i = j
  BY <1>3, <1>5, <1>6 DEF Distinct
<1>8. \A p \in Range(s) : \E i \in DOMAIN s : p = s[i]
  BY DEF Range
<1>9. ASSUME NEW m \in Ids, Early(conn'[c], m)
      PROVE  PubrelOf(m) \notin Range(s) /\ m < client.next /\ m \in PendingIds(client)
  <2>1. PublishOf(m) \in Range(s)
    BY <1>2, <1>4, <1>9 DEF Early
  <2>2. PICK i \in DOMAIN s : s[i] = PublishOf(m)
    BY <1>8, <2>1
  <2>3. m = client.pending[i].id /\ m \in PendingIds(client)
    BY <1>5, <1>6, <2>2, PacketFacts
  <2>4. ASSUME PubrelOf(m) \in Range(s) PROVE FALSE
    <3>1. PICK j \in DOMAIN s : s[j] = PubrelOf(m)
      BY <1>8, <2>4
    <3>2. s[i].id = s[j].id
      BY <2>2, <3>1, PacketFacts
    <3> QED
      BY <1>7, <2>2, <3>1, <3>2, PacketFacts
  <2> QED
    BY <1>3, <2>3, <2>4
<1>10. Once(s)
  BY <1>7 DEF Once
<1>11. \A p \in Range(s) : p.id < client.next
  BY <1>3, <1>5, <1>6, <1>8
<1>12. PendingIds(client') = PendingIds(client)
  BY <1>2 DEF PendingIds
<1>13. Turns(conn'[c], client')
  BY <1>2, <1>4, <1>9, <1>10, <1>11, <1>12 DEF Turns
<1>14. ClientIds(client')
  BY <1>2, <1>3, <1>12 DEF ClientIds
<1> QED
  BY <1>2, <1>13, <1>14 DEF IdInv, ClientIds, Turns, PendingIds, Ids, Early, Busy, Once, PublishOf,
                            PubrelOf, PubcompOf, Distinct

\* A message that is published has an id that is nowhere yet.
LEMMA PublishIds ==
    ASSUME TypeInv, IdInv, NEW c \in Slots, Publish(c)
    PROVE  IdInv'
<1> DEFINE n == client.next
           u == [id |-> n, stage |-> "pub"]
           r == conn[c]
<1>1. /\ TypeOK /\ client \in ClientRecord /\ client.pending \in Seq(Unacked)
      /\ r.in \in Seq(Inbound) /\ r.out \in Seq(Outbound) /\ r.inflight_qos2 \subseteq Ids
  BY DEF TypeInv, TypeOK, ClientRecord, ConnRecord, Unacked
<1>2. /\ client.at = c /\ n \in Ids /\ u \in Unacked
  BY DEF Publish, Unacked
<1>3. /\ client'.at = c /\ client'.next = n + 1
      /\ client'.pending = IF Messages[n].qos = 0 THEN client.pending ELSE Append(client.pending, u)
  BY <1>1, <1>2 DEF Publish, ClientRecord
<1>4. /\ conn'[c].pc = r.pc /\ conn'[c].in = Append(r.in, PublishOf(n)) /\ conn'[c].out = r.out
      /\ conn'[c].msg = r.msg /\ conn'[c].inflight_qos2 = r.inflight_qos2
  BY <1>1, PacketsEffect DEF Became, PublishOf
<1>5. Turns(r, client) /\ ClientIds(client)
  BY <1>2 DEF IdInv
<1>6. Range(conn'[c].in) = Range(r.in) \cup {PublishOf(n)}
  BY <1>1, <1>2, <1>4, AppendHolds, PacketFacts
<1>7. Range(client'.pending) = IF Messages[n].qos = 0 THEN Range(client.pending)
                               ELSE Range(client.pending) \cup {u}
  <2>1. Range(Append(client.pending, u)) = Range(client.pending) \cup {u}
    BY <1>1, <1>2, AppendHolds
  <2> QED
    BY <1>3, <2>1
<1>8. PendingIds(client') = IF Messages[n].qos = 0 THEN PendingIds(client) ELSE PendingIds(client) \cup {n}
  <2>1. CASE Messages[n].qos = 0
    BY <1>7, <2>1 DEF PendingIds
  <2>2. CASE Messages[n].qos # 0
    <3>1. Range(client'.pending) = Range(client.pending) \cup {u} /\ u.id = n
      BY <1>7, <2>2
    <3> HIDE DEF u
    <3> QED
      BY <2>2, <3>1 DEF PendingIds
  <2> QED
    BY <2>1, <2>2
<1>9. n \in Nat /\ Ids \subseteq Nat
  BY <1>2, IdsType
<1>10. /\ PublishOf(n) \notin Range(r.in) /\ PubrelOf(n) \notin Range(r.in)
       /\ \A p \in Range(r.out) : p.id # n
       /\ n \notin r.inflight_qos2 /\ n \notin PendingIds(client)
  <2>1. /\ \A p \in Range(r.in) : p.id < n
        /\ \A p \in Range(r.out) : p.id < n
        /\ \A m \in PendingIds(client) : m < n
        /\ \A m \in r.inflight_qos2 : m \in PendingIds(client)
    BY <1>5 DEF Turns, ClientIds
  <2>2. ~(n < n)
    BY <1>9
  <2> QED
    BY <2>1, <2>2, PacketFacts
<1>11. \A m : m < n /\ m \in Nat => m < n + 1
  BY <1>9
<1>12. Busy(conn'[c]) <=> Busy(r)
  BY <1>4 DEF Busy
<1>13. ASSUME NEW m \in Ids
       PROVE  Early(conn'[c], m) => \/ m = n
                                    \/ Early(r, m)
  BY <1>4, <1>6, <1>12, PacketFacts DEF Early
<1>14. ~(Busy(r) /\ r.msg = n)
  <2>1. ~Early(r, n)
    BY <1>2, <1>5, <1>9 DEF Turns
  <2> QED
    BY <2>1 DEF Early
<1>15. Turns(conn'[c], client')
  <2>1. Once(conn'[c].in)
    BY <1>1, <1>2, <1>4, <1>5, <1>10, OnceAppend, PacketFacts DEF Turns
  <2>2. Busy(conn'[c]) => PublishOf(conn'[c].msg) \notin Range(conn'[c].in)
    BY <1>4, <1>5, <1>6, <1>12, <1>14, PacketFacts DEF Turns
  <2>3. ASSUME NEW m \in Ids, Early(conn'[c], m)
        PROVE  /\ \A p \in Range(conn'[c].out) : p.id # m
               /\ PubrelOf(m) \notin Range(conn'[c].in)
               /\ m \notin conn'[c].inflight_qos2
               /\ m < client'.next
               /\ Messages[m].qos > 0 => m \in PendingIds(client')
    <3>1. CASE m = n
      <4>1. Messages[n].qos > 0 => Messages[n].qos # 0
        BY <1>2, IdsType
      <4> QED
        BY <1>3, <1>4, <1>6, <1>8, <1>9, <1>10, <3>1, <4>1, PacketFacts
    <3>2. CASE Early(r, m)
      <4>1. /\ \A p \in Range(r.out) : p.id # m
            /\ PubrelOf(m) \notin Range(r.in) /\ m \notin r.inflight_qos2 /\ m < n
            /\ Messages[m].qos > 0 => m \in PendingIds(client)
        BY <1>5, <3>2 DEF Turns
      <4> QED
        BY <1>3, <1>4, <1>6, <1>8, <1>9, <1>11, <4>1, PacketFacts
    <3> QED
      BY <1>13, <2>3, <3>1, <3>2
  <2>4. \A m \in conn'[c].inflight_qos2 : /\ Messages[m].qos = 2
                                          /\ m \in PendingIds(client')
                                          /\ PubcompOf(m) \notin Range(conn'[c].out)
    BY <1>4, <1>5, <1>8 DEF Turns
  <2>5. \A p \in Range(conn'[c].out) : p.id < client'.next /\ (p.kind = "puback" => Messages[p.id].qos = 1)
    <3>1. \A p \in Range(r.out) : p.id \in Nat
      <4>1. Range(r.out) \subseteq Outbound
        BY <1>1, RangeIn
      <4> QED
        BY <1>9, <4>1 DEF Outbound
    <3> QED
      BY <1>3, <1>4, <1>5, <1>11, <3>1 DEF Turns
  <2>6. \A p \in Range(conn'[c].in) : p.id < client'.next
    <3>1. \A p \in Range(r.in) : p.id \in Nat
      <4>1. Range(r.in) \subseteq Inbound
        BY <1>1, RangeIn
      <4>2. \A p \in Inbound : p.id \in Nat
        <5> TAKE p \in Inbound
        <5>1. p.id \in Ids \/ p.id = 0
          BY DEF Inbound, Bye
        <5>2. 0 \in Nat
          OBVIOUS
        <5> QED
          BY <1>9, <5>1, <5>2, Zenon
      <4> QED
        BY <4>1, <4>2
    <3> QED
      BY <1>3, <1>5, <1>6, <1>9, <1>11, <3>1, PacketFacts DEF Turns
  <2> QED
    BY <2>1, <2>2, <2>3, <2>4, <2>5, <2>6 DEF Turns
<1>16. ClientIds(client')
  <2>1. PendingIds(client) \subseteq Nat
    <3>1. Range(client.pending) \subseteq Unacked
      BY <1>1, RangeIn
    <3> QED
      BY <1>9, <3>1 DEF PendingIds, Unacked
  <2>2. \A m \in PendingIds(client') : m < client'.next
    BY <1>3, <1>5, <1>8, <1>9, <1>11, <2>1 DEF ClientIds
  <2>3. Distinct(client'.pending)
    <3>1. CASE Messages[n].qos = 0
      BY <1>3, <1>5, <3>1 DEF ClientIds
    <3>2. CASE Messages[n].qos # 0
      <4> DEFINE s == client.pending
                 t == Append(s, u)
      <4>1. /\ Len(s) \in Nat /\ DOMAIN s = 1..Len(s) /\ DOMAIN t = 1..(Len(s) + 1)
            /\ \A i \in 1..Len(s) : t[i] = s[i]
            /\ t[Len(s) + 1] = u
        BY <1>1, <1>2
      <4>2. \A i \in DOMAIN s : s[i].id # n
        <5>1. \A i \in DOMAIN s : s[i] \in Range(s)
          BY DEF Range
        <5> QED
          BY <1>10, <5>1 DEF PendingIds
      <4>3. \A i \in DOMAIN t : (i \in DOMAIN s /\ t[i] = s[i]) \/ (i = Len(s) + 1 /\ t[i].id = n)
        BY <4>1
      <4> HIDE DEF t
      <4>4. Distinct(t)
        BY <1>5, <4>2, <4>3 DEF Distinct, ClientIds
      <4> QED
        BY <1>3, <3>2, <4>4 DEF t
    <3> QED
      BY <3>1, <3>2
  <2> QED
    BY <2>2, <2>3 DEF ClientIds
<1> QED
  BY <1>3, <1>15, <1>16 DEF IdInv, ClientIds, Turns, PendingIds, Ids, Early, Busy, Once, PublishOf,
                            PubrelOf, PubcompOf, Distinct

\* An acknowledgement ends a handshake, or begins its second half.
LEMMA ReceiveIds ==
    ASSUME TypeInv, IdInv, NEW c \in Slots, Receive(c)
    PROVE  IdInv'
<1> DEFINE r == conn[c]
           a == Head(r.out)
           in == IF a.kind = "pubrec" THEN Append(r.in, PubrelOf(a.id)) ELSE r.in
<1>1. /\ TypeOK /\ client \in ClientRecord /\ client.pending \in Seq(Unacked)
      /\ r.in \in Seq(Inbound) /\ r.out \in Seq(Outbound)
  BY DEF TypeInv, TypeOK, ClientRecord, ConnRecord, Unacked
<1>2. client.at = c /\ r.out # << >>
  BY DEF Receive
<1>3. Turns(r, client) /\ ClientIds(client)
  BY <1>2 DEF IdInv
<1>4. a \in Outbound /\ a \in Range(r.out) /\ Range(Tail(r.out)) \subseteq Range(r.out)
  BY <1>1, <1>2, TailHolds
<1>5. a.id \in Ids /\ a.kind \in {"puback", "pubrec", "pubcomp"} /\ a = [kind |-> a.kind, id |-> a.id]
  BY <1>4 DEF Outbound
<1>6. /\ conn'[c].pc = r.pc /\ conn'[c].in = in /\ conn'[c].out = Tail(r.out)
      /\ conn'[c].msg = r.msg /\ conn'[c].inflight_qos2 = r.inflight_qos2
  BY <1>1, PacketsEffect DEF Became, PubrelOf
<1>7. Range(in) \subseteq Range(r.in) \cup {PubrelOf(a.id)}
  BY <1>1, <1>5, AppendHolds, PacketFacts
<1>8. Once(in)
  <2>1. CASE a.kind = "pubrec"
    <3>1. PubrelOf(a.id) \in Inbound /\ PubrelOf(a.id).kind # "publish"
      BY <1>5, PacketFacts
    <3>2. Once(r.in)
      BY <1>3 DEF Turns
    <3> QED
      BY <1>1, <2>1, <3>1, <3>2, OnceAppend
  <2>2. CASE a.kind # "pubrec"
    BY <1>3, <2>2 DEF Turns
  <2> QED
    BY <2>1, <2>2
<1> HIDE DEF in, a
<1>9. Busy(conn'[c]) <=> Busy(r)
  BY <1>6 DEF Busy
<1>10. \A m : PublishOf(m) \in Range(conn'[c].in) => PublishOf(m) \in Range(r.in)
  BY <1>6, <1>7, PacketFacts
<1>11. \A m : Early(conn'[c], m) => Early(r, m)
  BY <1>6, <1>9, <1>10 DEF Early
<1>12. \A m \in Ids : Early(r, m) => m # a.id
  BY <1>3, <1>4 DEF Turns
<1>13. a.kind # "pubrec" => a.id \notin r.inflight_qos2
  <2>1. CASE a.kind = "puback"
    <3>1. Messages[a.id].qos = 1
      BY <1>3, <1>4, <2>1 DEF Turns
    <3>2. \A m \in r.inflight_qos2 : Messages[m].qos = 2
      BY <1>3 DEF Turns
    <3> QED
      BY <3>1, <3>2
  <2>2. CASE a.kind = "pubcomp"
    <3>1. PubcompOf(a.id) \in Range(r.out)
      BY <1>4, <1>5, <2>2 DEF PubcompOf
    <3> QED
      BY <1>3, <3>1 DEF Turns
  <2> QED
    BY <1>5, <2>1, <2>2
<1>14. /\ client'.at = c /\ client'.next = client.next
       /\ PendingIds(client') \subseteq PendingIds(client)
       /\ \A m \in PendingIds(client) : (a.kind = "pubrec" \/ m # a.id) => m \in PendingIds(client')
       /\ Distinct(client'.pending)
  <2>1. CASE a.kind = "pubrec"
    <3>1. /\ client'.at = c /\ client'.next = client.next
          /\ client'.pending = [i \in DOMAIN client.pending |->
                                   IF client.pending[i].id = a.id
                                   THEN [client.pending[i] EXCEPT !.stage = "rel"]
                                   ELSE client.pending[i]]
      BY <1>1, <1>2, <2>1 DEF Receive, ClientRecord, a
    <3>2. DOMAIN client'.pending = DOMAIN client.pending
      BY <3>1
    <3>3. ASSUME NEW i \in DOMAIN client.pending
          PROVE  client'.pending[i].id = client.pending[i].id
      <4>1. client.pending[i] \in Unacked
        BY <1>1
      <4> QED
        BY <3>1, <4>1 DEF Unacked
    <3>4. PendingIds(client') = PendingIds(client)
      <4>1. /\ PendingIds(client') = {client'.pending[i].id : i \in DOMAIN client'.pending}
            /\ PendingIds(client) = {client.pending[i].id : i \in DOMAIN client.pending}
        BY DEF PendingIds, Range
      <4> QED
        BY <3>2, <3>3, <4>1
    <3>5. Distinct(client'.pending)
      BY <1>3, <3>2, <3>3 DEF Distinct, ClientIds
    <3> QED
      BY <3>1, <3>4, <3>5
  <2>2. CASE a.kind # "pubrec"
    <3>1. /\ client'.at = c /\ client'.next = client.next
          /\ client'.pending = Without(client.pending, a.id)
      BY <1>1, <1>2, <2>2 DEF Receive, ClientRecord, a
    <3>2. /\ Range(client'.pending) \subseteq Range(client.pending)
          /\ \A p \in Range(client.pending) : p.id # a.id => p \in Range(client'.pending)
          /\ Distinct(client'.pending)
      BY <1>1, <1>3, <3>1, WithoutHolds DEF ClientIds
    <3> QED
      BY <2>2, <3>1, <3>2 DEF PendingIds
  <2> QED
    BY <2>1, <2>2
<1>15. Turns(conn'[c], client')
  <2>1. Busy(conn'[c]) => PublishOf(conn'[c].msg) \notin Range(conn'[c].in)
    BY <1>3, <1>6, <1>9, <1>10 DEF Turns
  <2>2. ASSUME NEW m \in Ids, Early(conn'[c], m)
        PROVE  /\ \A p \in Range(conn'[c].out) : p.id # m
               /\ PubrelOf(m) \notin Range(conn'[c].in)
               /\ m \notin conn'[c].inflight_qos2
               /\ m < client'.next
               /\ Messages[m].qos > 0 => m \in PendingIds(client')
    <3>1. Early(r, m) /\ m # a.id
      BY <1>11, <1>12, <2>2
    <3>2. /\ \A p \in Range(r.out) : p.id # m
          /\ PubrelOf(m) \notin Range(r.in) /\ m \notin r.inflight_qos2 /\ m < client.next
          /\ Messages[m].qos > 0 => m \in PendingIds(client)
      BY <1>3, <3>1 DEF Turns
    <3> QED
      BY <1>4, <1>6, <1>7, <1>14, <3>1, <3>2, PacketFacts
  <2>3. \A m \in conn'[c].inflight_qos2 : /\ Messages[m].qos = 2
                                          /\ m \in PendingIds(client')
                                          /\ PubcompOf(m) \notin Range(conn'[c].out)
    BY <1>3, <1>4, <1>6, <1>13, <1>14 DEF Turns
  <2>4. \A p \in Range(conn'[c].out) : p.id < client'.next /\ (p.kind = "puback" => Messages[p.id].qos = 1)
    BY <1>3, <1>4, <1>6, <1>14 DEF Turns
  <2>5. \A p \in Range(conn'[c].in) : p.id < client'.next
    BY <1>3, <1>4, <1>6, <1>7, <1>14, PacketFacts DEF Turns
  <2> QED
    BY <1>6, <1>8, <2>1, <2>2, <2>3, <2>4, <2>5 DEF Turns
<1>16. ClientIds(client')
  BY <1>3, <1>14 DEF ClientIds
<1> QED
  BY <1>14, <1>15, <1>16 DEF IdInv, ClientIds, Turns, PendingIds, Ids, Early, Busy, Once, PublishOf,
                             PubrelOf, PubcompOf, Distinct

\* The task acknowledges: from now on the handshake is under way.
LEMMA AckIds ==
    ASSUME TypeInv, IdInv, NEW c \in Slots, Ack(c)
    PROVE  IdInv'
<1> DEFINE r == conn[c]
           m == r.msg
<1>1. TypeOK /\ r.out \in Seq(Outbound) /\ m \in Ids /\ Busy(r)
  BY DEF TypeInv, TypeOK, ConnRecord, Ack, Busy
<1>2. /\ \A d \in Slots : d # c => conn'[d] = conn[d]
      /\ conn'[c].pc = "select" /\ conn'[c].in = r.in
      /\ \/ conn'[c].out = r.out /\ conn'[c].inflight_qos2 = r.inflight_qos2
         \/ /\ Messages[m].qos = 1
            /\ conn'[c].out = Append(r.out, [kind |-> "puback", id |-> m])
            /\ conn'[c].inflight_qos2 = r.inflight_qos2
         \/ /\ Messages[m].qos = 2
            /\ conn'[c].out = Append(r.out, [kind |-> "pubrec", id |-> m])
            /\ conn'[c].inflight_qos2 = r.inflight_qos2 \cup {m}
  BY EndEffect DEF Became
<1>3. client' = client
  BY DEF Ack
<1>4. ASSUME client.at = c PROVE Turns(conn'[c], client)
  <2>1. Turns(r, client)
    BY <1>4 DEF IdInv
  <2>2. ~Busy(conn'[c])
    BY <1>2 DEF Busy
  <2>3. /\ Early(r, m) /\ PublishOf(m) \notin Range(r.in)
        /\ \A k \in Ids : Early(conn'[c], k) => Early(r, k) /\ k # m
    BY <1>1, <1>2, <2>1, <2>2 DEF Early, Turns
  <2>4. /\ \A p \in Range(r.out) : p.id # m
        /\ m < client.next /\ (Messages[m].qos > 0 => m \in PendingIds(client))
    BY <1>1, <2>1, <2>3 DEF Turns
  <2>5. CASE conn'[c].out = r.out /\ conn'[c].inflight_qos2 = r.inflight_qos2
    BY <1>2, <2>1, <2>2, <2>3, <2>5 DEF Turns
  <2>6. ASSUME NEW k \in {"puback", "pubrec"}, conn'[c].out = Append(r.out, [kind |-> k, id |-> m]),
               k = "puback" => Messages[m].qos = 1 /\ conn'[c].inflight_qos2 = r.inflight_qos2,
               k = "pubrec" => Messages[m].qos = 2 /\ conn'[c].inflight_qos2 = r.inflight_qos2 \cup {m}
        PROVE  Turns(conn'[c], client)
    <3> DEFINE p == [kind |-> k, id |-> m]
    <3>1. p \in Outbound /\ p.id = m /\ p.kind = k
      BY <1>1 DEF Outbound
    <3>2. Range(conn'[c].out) = Range(r.out) \cup {p}
      BY <1>1, <2>6, <3>1, AppendHolds
    <3>3. \A n : PubcompOf(n) # p
      BY <3>1, PacketFacts
    <3> HIDE DEF p
    <3>4. \A n : n \in conn'[c].inflight_qos2 => \/ n \in r.inflight_qos2
                                                 \/ n = m /\ Messages[m].qos = 2
      BY <2>6
    <3>5. ASSUME NEW n \in Ids, Early(conn'[c], n)
          PROVE  /\ \A q \in Range(conn'[c].out) : q.id # n
                 /\ PubrelOf(n) \notin Range(conn'[c].in)
                 /\ n \notin conn'[c].inflight_qos2
                 /\ n < client.next
                 /\ Messages[n].qos > 0 => n \in PendingIds(client)
      <4>1. Early(r, n) /\ n # m
        BY <2>3, <3>5
      <4>2. /\ \A q \in Range(r.out) : q.id # n
            /\ PubrelOf(n) \notin Range(r.in) /\ n \notin r.inflight_qos2 /\ n < client.next
            /\ Messages[n].qos > 0 => n \in PendingIds(client)
        BY <2>1, <4>1 DEF Turns
      <4> QED
        BY <1>2, <3>1, <3>2, <3>4, <4>1, <4>2
    <3>6. \A n \in conn'[c].inflight_qos2 : /\ Messages[n].qos = 2
                                            /\ n \in PendingIds(client)
                                            /\ PubcompOf(n) \notin Range(conn'[c].out)
      <4> TAKE n \in conn'[c].inflight_qos2
      <4>1. CASE n \in r.inflight_qos2
        BY <2>1, <3>2, <3>3, <4>1 DEF Turns
      <4>2. CASE n = m /\ Messages[m].qos = 2
        <5>1. PubcompOf(n) \notin Range(r.out)
          BY <2>4, <4>2, PacketFacts
        <5>2. n \in PendingIds(client)
          BY <2>4, <4>2
        <5> QED
          BY <3>2, <3>3, <4>2, <5>1, <5>2
      <4> QED
        BY <3>4, <4>1, <4>2
    <3>7. \A q \in Range(conn'[c].out) : q.id < client.next /\ (q.kind = "puback" => Messages[q.id].qos = 1)
      BY <2>1, <2>4, <2>6, <3>1, <3>2 DEF Turns
    <3> QED
      BY <1>2, <2>1, <2>2, <3>5, <3>6, <3>7 DEF Turns
  <2>7. "puback" # "pubrec"
    OBVIOUS
  <2> QED
    BY <1>2, <2>5, <2>6, <2>7
<1> QED
  BY <1>2, <1>3, <1>4, ServeKeepsIds

\* The task lets the packet id go and completes the handshake.
LEMMA PubRelIds ==
    ASSUME TypeInv, IdInv, NEW c \in Slots, ReadPubRel(c)
    PROVE  IdInv'
<1> DEFINE r == conn[c]
           n == Id(c)
<1>1. /\ TypeOK /\ r.in \in Seq(Inbound) /\ r.out \in Seq(Outbound)
      /\ Reads(c, "pubrel") /\ r.in # << >>
  BY DEF TypeInv, TypeOK, ConnRecord, ReadPubRel, Reads
<1>2. /\ Range(Tail(r.in)) \subseteq Range(r.in) /\ n \in Ids
      /\ Head(r.in) \in Range(r.in) /\ Head(r.in) = PubrelOf(n)
  BY <1>1, ReadsType DEF PubrelOf
<1>3. /\ \A d \in Slots : d # c => conn'[d] = conn[d]
      /\ conn'[c].pc = "select" /\ conn'[c].in = Tail(r.in)
      /\ conn'[c].out = Append(r.out, PubcompOf(n))
      /\ conn'[c].inflight_qos2 = r.inflight_qos2 \ {n}
  BY <1>1, ReadEffect DEF Became, PubcompOf
<1>4. client' = client
  BY DEF ReadPubRel
<1>5. ASSUME client.at = c PROVE Turns(conn'[c], client)
  <2>1. Turns(r, client)
    BY <1>5 DEF IdInv
  <2>2. ~Busy(conn'[c])
    BY <1>3 DEF Busy
  <2>3. Range(conn'[c].out) = Range(r.out) \cup {PubcompOf(n)}
    BY <1>1, <1>2, <1>3, AppendHolds, PacketFacts
  <2>4. Once(conn'[c].in)
    BY <1>1, <1>3, <2>1, OnceTail DEF Turns
  <2>5. \A k \in Ids : Early(conn'[c], k) => Early(r, k) /\ k # n
    <3> TAKE k \in Ids
    <3>1. Early(conn'[c], k) => Early(r, k)
      BY <1>2, <1>3, <2>2 DEF Early
    <3>2. Early(r, k) => PubrelOf(k) \notin Range(r.in)
      BY <2>1 DEF Turns
    <3> QED
      BY <1>2, <3>1, <3>2
  <2>6. ASSUME NEW k \in Ids, Early(conn'[c], k)
        PROVE  /\ \A p \in Range(conn'[c].out) : p.id # k
               /\ PubrelOf(k) \notin Range(conn'[c].in)
               /\ k \notin conn'[c].inflight_qos2
               /\ k < client.next
               /\ Messages[k].qos > 0 => k \in PendingIds(client)
    <3>1. /\ \A p \in Range(r.out) : p.id # k
          /\ PubrelOf(k) \notin Range(r.in) /\ k \notin r.inflight_qos2 /\ k < client.next
          /\ Messages[k].qos > 0 => k \in PendingIds(client)
      BY <2>1, <2>5, <2>6 DEF Turns
    <3> QED
      BY <1>2, <1>3, <2>3, <2>5, <2>6, <3>1, PacketFacts
  <2>7. \A k \in conn'[c].inflight_qos2 : /\ Messages[k].qos = 2
                                          /\ k \in PendingIds(client)
                                          /\ PubcompOf(k) \notin Range(conn'[c].out)
    BY <1>3, <2>1, <2>3, PacketFacts DEF Turns
  <2>8. n < client.next
    BY <1>2, <2>1, PacketFacts DEF Turns
  <2>9. \A p \in Range(conn'[c].out) : p.id < client.next /\ (p.kind = "puback" => Messages[p.id].qos = 1)
    <3>1. PubcompOf(n).id = n /\ PubcompOf(n).kind # "puback"
      BY PacketFacts
    <3> QED
      BY <2>1, <2>3, <2>8, <3>1 DEF Turns
  <2>10. \A p \in Range(conn'[c].in) : p.id < client.next
    BY <1>2, <1>3, <2>1 DEF Turns
  <2> QED
    BY <2>2, <2>4, <2>6, <2>7, <2>9, <2>10 DEF Turns
<1> QED
  BY <1>3, <1>4, <1>5, ServeKeepsIds

\* The other steps of a task add nothing to its connection.
LEMMA ServeIds ==
    ASSUME TypeInv, IdInv, NEW c \in Slots,
           \/ RateRefuses(c) \/ Accept(c) \/ Put(c) \/ WriteRetained(c) \/ WriteFails(c)
           \/ SendFails(c) \/ ReadDisconnect(c) \/ ReadError(c) \/ Return(c)
    PROVE  IdInv'
<1> DEFINE r == conn[c]
           r2 == conn'[c]
<1>1. TypeOK /\ r.in \in Seq(Inbound) /\ r.out \in Seq(Outbound)
  BY DEF TypeInv, TypeOK, ConnRecord
<1>2. client' = client
  BY DEF RateRefuses, Accept, Put, WriteRetained, WriteFails, SendFails, ReadDisconnect, ReadError, Return
<1>3. CASE RateRefuses(c) \/ ReadDisconnect(c)
  <2>1. /\ Range(Tail(r.in)) \subseteq Range(r.in) /\ r.in # << >>
    BY <1>1, <1>3, ReadsType DEF RateRefuses, ReadDisconnect, Reads
  <2>2. /\ \A d \in Slots : d # c => conn'[d] = conn[d]
        /\ r2.pc = "bail" /\ r2.in = Tail(r.in) /\ r2.out = r.out /\ r2.inflight_qos2 = r.inflight_qos2
    BY <1>1, <1>3, ReadEffect DEF Became
  <2>3. ASSUME client.at = c PROVE Turns(r2, client)
    <3>1. Turns(r, client)
      BY <2>3 DEF IdInv
    <3>2. Once(r2.in) /\ ~Busy(r2)
      BY <1>1, <2>1, <2>2, <3>1, OnceTail DEF Turns, Busy
    <3> QED
      BY <2>1, <2>2, <3>1, <3>2, TurnsShrink
  <2> QED
    BY <1>2, <2>2, <2>3, ServeKeepsIds
<1>4. CASE Accept(c)
  <2>1. Reads(c, "publish") /\ r.in # << >>
    BY <1>4 DEF Accept, Reads
  <2>2. /\ Range(Tail(r.in)) \subseteq Range(r.in)
        /\ Head(r.in) \in Range(r.in) /\ Head(r.in) = PublishOf(Id(c))
    BY <1>1, <2>1, ReadsType DEF PublishOf
  <2>3. /\ \A d \in Slots : d # c => conn'[d] = conn[d]
        /\ r2.msg = Id(c) /\ r2.in = Tail(r.in) /\ r2.out = r.out /\ r2.inflight_qos2 = r.inflight_qos2
    BY <1>1, <1>4, ReadEffect DEF Became
  <2>4. ASSUME client.at = c PROVE Turns(r2, client)
    <3>1. Turns(r, client)
      BY <2>4 DEF IdInv
    <3>2. Once(r2.in) /\ PublishOf(r2.msg) \notin Range(r2.in)
      BY <1>1, <2>1, <2>2, <2>3, <3>1, OnceTail, PacketFacts DEF Turns
    <3>3. Early(r, r2.msg)
      BY <2>2, <2>3 DEF Early
    <3> QED
      BY <2>2, <2>3, <3>1, <3>2, <3>3, TurnsShrink
  <2> QED
    BY <1>2, <2>3, <2>4, ServeKeepsIds
<1>5. CASE Put(c) \/ WriteRetained(c)
  <2>1. /\ \A d \in Slots : d # c => conn'[d] = conn[d]
        /\ r2.msg = r.msg /\ r2.in = r.in /\ r2.out = r.out /\ r2.inflight_qos2 = r.inflight_qos2
    BY <1>1, <1>5, PcEffect DEF Became
  <2>2. Busy(r)
    BY <1>5 DEF Put, WriteRetained, Busy
  <2>3. ASSUME client.at = c PROVE Turns(r2, client)
    <3>1. Turns(r, client)
      BY <2>3 DEF IdInv
    <3>2. Once(r2.in) /\ PublishOf(r2.msg) \notin Range(r2.in) /\ Early(r, r2.msg)
      BY <2>1, <2>2, <3>1 DEF Turns, Early
    <3> QED
      BY <2>1, <3>1, <3>2, TurnsShrink
  <2> QED
    BY <1>2, <2>1, <2>3, ServeKeepsIds
<1>6. CASE WriteFails(c) \/ SendFails(c) \/ ReadError(c)
  <2>1. /\ \A d \in Slots : d # c => conn'[d] = conn[d]
        /\ r2.pc = "bail" /\ r2.in = r.in /\ r2.out = r.out /\ r2.inflight_qos2 = r.inflight_qos2
    BY <1>1, <1>6, PcEffect DEF Became
  <2>2. ASSUME client.at = c PROVE Turns(r2, client)
    <3>1. Turns(r, client)
      BY <2>2 DEF IdInv
    <3>2. Once(r2.in) /\ ~Busy(r2)
      BY <2>1, <3>1 DEF Turns, Busy
    <3> QED
      BY <2>1, <3>1, <3>2, TurnsShrink
  <2> QED
    BY <1>2, <2>1, <2>2, ServeKeepsIds
<1>7. CASE Return(c)
  <2>1. PICK s \in Prefixes(r.out) :
           /\ \A d \in Slots : d # c => conn'[d] = conn[d]
           /\ r2.pc = "closed" /\ r2.in = << >> /\ r2.inflight_qos2 = {}
           /\ r2.out = IF client.at = c THEN s ELSE << >>
    BY <1>7, EndEffect DEF Became
  <2>2. ASSUME client.at = c PROVE Turns(r2, client)
    <3>1. Turns(r, client)
      BY <2>2 DEF IdInv
    <3>2. Range(r2.out) \subseteq Range(r.out)
      BY <1>1, <2>1, <2>2, PrefixHolds
    <3>3. Once(r2.in) /\ Range(r2.in) = {} /\ ~Busy(r2)
      <4>1. DOMAIN r2.in = {}
        BY <2>1
      <4> QED
        BY <2>1, <4>1 DEF Once, Range, Busy
    <3> QED
      BY <2>1, <3>1, <3>2, <3>3, TurnsShrink
  <2> QED
    BY <1>2, <2>1, <2>2, ServeKeepsIds
<1> QED
  BY <1>3, <1>4, <1>5, <1>6, <1>7

\* The client gives its connection up.
LEMMA GoneIds ==
    ASSUME TypeInv, IdInv, NEW c \in Slots, Notice(c) \/ Lose(c) \/ Leave(c)
    PROVE  IdInv'
<1>1. client \in ClientRecord
  BY DEF TypeInv, TypeOK
<1>2. client'.at = None /\ client'.next = client.next /\ client'.pending = client.pending
  BY <1>1 DEF Notice, Lose, Leave, ClientRecord
<1>3. ClientIds(client')
  BY <1>2 DEF IdInv, ClientIds, PendingIds
<1> QED
  BY <1>2, <1>3, PublishAssumption DEF IdInv, ClientIds, PendingIds, Distinct

\* Time changes no packets.
LEMMA TickIds == ASSUME TypeInv, IdInv, Tick PROVE IdInv'
<1>1. client' = client
  BY DEF Tick
<1>2. ASSUME client.at \in Slots PROVE Turns(conn'[client.at], client)
  <2> DEFINE r == conn[client.at]
             r2 == conn'[client.at]
  <2>1. /\ r2.pc = r.pc /\ r2.in = r.in /\ r2.out = r.out /\ r2.msg = r.msg
        /\ r2.inflight_qos2 = r.inflight_qos2
    BY <1>2, TickEffect DEF TypeInv
  <2>2. Turns(r, client)
    BY <1>2 DEF IdInv
  <2> HIDE DEF r, r2
  <2>3. Turns(r2, client)
    BY <2>1, <2>2 DEF Turns, Early, Busy
  <2> QED
    BY <2>3 DEF r2
<1>3. ClientIds(client)
  BY DEF IdInv
<1> QED
  BY <1>1, <1>2, <1>3 DEF IdInv, ClientIds, Turns, PendingIds, Ids, Early, Busy, Once, PublishOf,
                          PubrelOf, PubcompOf, Distinct

(***************************************************************************)
(* Once the client has completed its handshakes, inflight_qos2 of its      *)
(* connection is empty, whatever was lost and resent before and whichever  *)
(* messages were refused, denied or failed.                                *)
(***************************************************************************)
THEOREM IdsCorrect == Spec => []NoIdLeft
<1>1. Init => IdInv
  <2> SUFFICES ASSUME Init PROVE IdInv
    OBVIOUS
  <2>1. client.at = None /\ client.pending = << >>
    BY DEF Init
  <2>2. PendingIds(client) = {} /\ Distinct(client.pending)
    BY <2>1, EmptyHolds DEF PendingIds, Distinct
  <2> QED
    BY <2>1, <2>2, PublishAssumption DEF IdInv, ClientIds
<1>2. TypeInv /\ IdInv /\ [Next]_vars => IdInv'
  <2> SUFFICES ASSUME TypeInv, IdInv, [Next]_vars PROVE IdInv'
    OBVIOUS
  <2>1. CASE UNCHANGED vars
    BY <2>1 DEF vars, IdInv, ClientIds, Turns, PendingIds, Ids, Early, Busy, Once, PublishOf,
                PubrelOf, PubcompOf, Distinct
  <2>2. CASE Next
    BY <2>2, ConnectIds, PublishIds, ReceiveIds, AckIds, PubRelIds, ServeIds, GoneIds, TickIds DEF Next
  <2> QED
    BY <2>1, <2>2
<1>3. IdInv => NoIdLeft
  <2> SUFFICES ASSUME IdInv, NEW c \in Slots, client.at = c, client.pending = << >>
               PROVE  conn[c].inflight_qos2 = {}
    BY DEF NoIdLeft
  <2>1. PendingIds(client) = {}
    BY EmptyHolds DEF PendingIds
  <2> QED
    BY <2>1 DEF IdInv, Turns
<1> QED
  BY <1>1, <1>2, <1>3, TypeInvariant, PTL DEF Spec

-----------------------------------------------------------------------------
(***************************************************************************)
(* The limiter refuses exactly what is one too many for some window.       *)
(*                                                                         *)
(* MaxAge, beyond which ages are not told apart, is enough because a       *)
(* connection never gets more publishes than there are messages: they come *)
(* in the order of their ids, so the n-th one accepted has an id of at     *)
(* least n.  That is OrderInv.                                             *)
(***************************************************************************)
Rising(s) == \A i, j \in DOMAIN s : i < j => s[i].id < s[j].id

PublishesRise(s) ==
    \A i, j \in DOMAIN s : (i < j /\ s[i].kind = "publish" /\ s[j].kind = "publish") => s[i].id < s[j].id

ClientOrder(cl) ==
    /\ Rising(cl.pending)
    /\ \A p \in Range(cl.pending) : p.id < cl.next

InOrder(in, n) ==
    /\ PublishesRise(in)
    /\ \A p \in Range(in) : p.kind = "publish" => n < p.id

Below(in, n, next) ==
    /\ n < next
    /\ \A p \in Range(in) : p.kind = "publish" => p.id < next

OrderInv ==
    /\ ClientOrder(client)
    /\ InOrder(conn[Watched].in, Len(sent))
    /\ client.at = Watched => Below(conn[Watched].in, Len(sent), client.next)

\* A packet at the end.
LEMMA RiseAppend ==
    ASSUME NEW s \in Seq(Inbound), NEW e \in Inbound, PublishesRise(s),
           e.kind = "publish" => \A p \in Range(s) : p.kind = "publish" => p.id < e.id
    PROVE  PublishesRise(Append(s, e))
<1> DEFINE t == Append(s, e)
<1>1. /\ Len(s) \in Nat /\ DOMAIN s = 1..Len(s) /\ DOMAIN t = 1..(Len(s) + 1)
      /\ \A i \in 1..Len(s) : t[i] = s[i]
      /\ t[Len(s) + 1] = e
  OBVIOUS
<1> HIDE DEF t
<1> SUFFICES ASSUME NEW i \in DOMAIN t, NEW j \in DOMAIN t, i < j,
                    t[i].kind = "publish", t[j].kind = "publish"
             PROVE  t[i].id < t[j].id
  BY DEF PublishesRise, t
<1>2. i \in DOMAIN s /\ t[i] = s[i] /\ s[i] \in Range(s)
  BY <1>1 DEF Range
<1>3. CASE j \in DOMAIN s
  BY <1>1, <1>2, <1>3 DEF PublishesRise
<1>4. CASE j \notin DOMAIN s
  <2>1. t[j] = e
    BY <1>1, <1>4
  <2> QED
    BY <1>2, <2>1
<1> QED
  BY <1>3, <1>4

\* The first packet is taken.
LEMMA RiseTail ==
    ASSUME NEW s \in Seq(Inbound), s # << >>, PublishesRise(s)
    PROVE  /\ PublishesRise(Tail(s))
           /\ Head(s).kind = "publish" => \A p \in Range(Tail(s)) : p.kind = "publish" => Head(s).id < p.id
<1> DEFINE t == Tail(s)
<1>1. /\ Len(s) \in Nat /\ Len(s) # 0 /\ DOMAIN s = 1..Len(s) /\ Head(s) = s[1]
      /\ t \in Seq(Inbound) /\ Len(t) = Len(s) - 1
      /\ \A i \in 1..Len(t) : t[i] = s[i + 1]
  BY HeadTailProperties, EmptySeq
<1>2. DOMAIN t = 1..Len(t)
  BY <1>1
<1> HIDE DEF t
<1>3. \A i \in DOMAIN t : i \in Int /\ i + 1 \in DOMAIN s /\ 1 < i + 1 /\ t[i] = s[i + 1]
  BY <1>1, <1>2
<1>4. 1 \in DOMAIN s
  BY <1>1
<1>5. ASSUME NEW i \in DOMAIN t, NEW j \in DOMAIN t, i < j, t[i].kind = "publish", t[j].kind = "publish"
      PROVE  t[i].id < t[j].id
  <2>1. i + 1 < j + 1
    BY <1>3, <1>5
  <2> QED
    BY <1>3, <1>5, <2>1 DEF PublishesRise
<1>6. ASSUME Head(s).kind = "publish", NEW p \in Range(t), p.kind = "publish" PROVE Head(s).id < p.id
  <2>1. PICK i \in DOMAIN t : p = t[i]
    BY DEF Range
  <2> QED
    BY <1>1, <1>3, <1>4, <1>6, <2>1 DEF PublishesRise
<1> QED
  BY <1>5, <1>6 DEF PublishesRise, t

\* The tail is lost.
LEMMA RisePrefix ==
    ASSUME NEW s \in Seq(Inbound), NEW p \in Prefixes(s), PublishesRise(s)
    PROVE  PublishesRise(p)
<1>1. PICK n \in 0..Len(s) : p = SubSeq(s, 1, n)
  BY DEF Prefixes
<1>2. n \in Nat /\ 1..n \subseteq DOMAIN s /\ Len(s) \in Nat /\ DOMAIN s = 1..Len(s)
  BY <1>1, LenProperties
<1>3. p \in Seq(Inbound) /\ Len(p) = IF 1 <= n THEN n - 1 + 1 ELSE 0
  BY <1>1, <1>2, SubSeqProperties
<1>4. \A i \in 1..n : p[i] = s[1 + i - 1]
  BY <1>1, <1>2, SubSeqProperties
<1>5. DOMAIN p = 1..n
  BY <1>2, <1>3, LenProperties
<1>6. \A i \in DOMAIN p : i \in DOMAIN s /\ p[i] = s[i]
  BY <1>2, <1>4, <1>5
<1> QED
  BY <1>6 DEF PublishesRise

\* The others keep their order when a message is done with.
LEMMA RiseWithout ==
    ASSUME NEW s \in Seq(Unacked), NEW id, Rising(s)
    PROVE  Rising(Without(s, id))
<1> DEFINE w == Without(s, id)
<1>1. CASE ~ \E j \in DOMAIN s : s[j].id = id
  BY <1>1 DEF Without
<1>2. CASE \E j \in DOMAIN s : s[j].id = id
  <2>1. PICK k \in DOMAIN s : w = SubSeq(s, 1, k - 1) \o SubSeq(s, k + 1, Len(s))
    BY <1>2 DEF Without
  <2> HIDE DEF w
  <2>2. /\ DOMAIN w = 1..(Len(s) - 1)
        /\ \A i \in DOMAIN w : w[i] = IF i < k THEN s[i] ELSE s[i + 1]
    BY <2>1, WithoutAt
  <2>3. Len(s) \in Nat /\ DOMAIN s = 1..Len(s) /\ k \in 1..Len(s)
    OBVIOUS
  <2> SUFFICES ASSUME NEW i \in DOMAIN w, NEW j \in DOMAIN w, i < j PROVE w[i].id < w[j].id
    BY DEF Rising, w
  <2> DEFINE at(n) == IF n < k THEN n ELSE n + 1
  <2>4. at(i) \in DOMAIN s /\ at(j) \in DOMAIN s /\ w[i] = s[at(i)] /\ w[j] = s[at(j)]
    BY <2>2, <2>3
  <2>5. at(i) < at(j)
    BY <2>2, <2>3
  <2> QED
    BY <2>4, <2>5 DEF Rising
<1> QED
  BY <1>1, <1>2

\* The client keeps its messages in the order of their ids.
LEMMA ClientOrderStep ==
    ASSUME TypeInv, ClientOrder(client), [Next]_vars
    PROVE  ClientOrder(client')
<1>1. client \in ClientRecord /\ client.pending \in Seq(Unacked)
  BY DEF TypeInv, TypeOK, ClientRecord, Unacked
<1>2. CASE client'.pending = client.pending /\ client'.next = client.next
  BY <1>2 DEF ClientOrder
<1>3. ASSUME NEW c \in Slots, Publish(c) PROVE ClientOrder(client')
  <2> DEFINE n == client.next
             s == client.pending
             u == [id |-> n, stage |-> "pub"]
  <2>1. n \in Ids /\ n \in Nat /\ u \in Unacked /\ u.id = n
    BY <1>3, IdsType DEF Publish, Unacked
  <2>2. /\ client'.next = n + 1
        /\ client'.pending = IF Messages[n].qos = 0 THEN s ELSE Append(s, u)
    BY <1>1, <1>3 DEF Publish, ClientRecord
  <2>3. Range(s) \subseteq Unacked /\ \A p \in Range(s) : p.id \in Nat /\ p.id < n
    <3>1. Range(s) \subseteq Unacked
      BY <1>1, RangeIn
    <3>2. \A p \in Unacked : p.id \in Nat
      BY IdsType DEF Unacked
    <3> QED
      BY <3>1, <3>2 DEF ClientOrder
  <2>4. CASE Messages[n].qos = 0
    BY <2>1, <2>2, <2>3, <2>4 DEF ClientOrder
  <2>5. CASE Messages[n].qos # 0
    <3> DEFINE t == Append(s, u)
    <3>1. /\ Len(s) \in Nat /\ DOMAIN s = 1..Len(s) /\ DOMAIN t = 1..(Len(s) + 1)
          /\ \A i \in 1..Len(s) : t[i] = s[i]
          /\ t[Len(s) + 1] = u
      BY <1>1, <2>1
    <3>2. Range(t) = Range(s) \cup {u}
      BY <1>1, <2>1, AppendHolds
    <3> HIDE DEF t, u
    <3>3. ASSUME NEW i \in DOMAIN t, NEW j \in DOMAIN t, i < j PROVE t[i].id < t[j].id
      <4>1. i \in DOMAIN s /\ t[i] = s[i] /\ s[i] \in Range(s)
        BY <3>1, <3>3 DEF Range
      <4>2. CASE j \in DOMAIN s
        BY <3>1, <3>3, <4>1, <4>2 DEF ClientOrder, Rising
      <4>3. CASE j \notin DOMAIN s
        <5>1. t[j] = u
          BY <3>1, <4>3
        <5> QED
          BY <2>1, <2>3, <4>1, <5>1
      <4> QED
        BY <4>2, <4>3
    <3>4. Rising(t)
      BY <3>3 DEF Rising
    <3>5. \A p \in Range(t) : p.id < n + 1
      BY <2>1, <2>3, <3>2
    <3> QED
      BY <2>2, <2>5, <3>4, <3>5 DEF ClientOrder, t
  <2> QED
    BY <2>4, <2>5
<1>4. ASSUME NEW c \in Slots, Receive(c) PROVE ClientOrder(client')
  <2> DEFINE a == Head(conn[c].out)
  <2>1. CASE a.kind = "pubrec"
    <3>1. /\ client'.next = client.next
          /\ client'.pending = [i \in DOMAIN client.pending |->
                                   IF client.pending[i].id = a.id
                                   THEN [client.pending[i] EXCEPT !.stage = "rel"]
                                   ELSE client.pending[i]]
      BY <1>1, <1>4, <2>1 DEF Receive, ClientRecord
    <3>2. DOMAIN client'.pending = DOMAIN client.pending
      BY <3>1
    <3>3. ASSUME NEW i \in DOMAIN client.pending
          PROVE  client'.pending[i].id = client.pending[i].id /\ client.pending[i] \in Range(client.pending)
      <4>1. client.pending[i] \in Unacked
        BY <1>1
      <4> QED
        BY <3>1, <4>1 DEF Unacked, Range
    <3>4. Rising(client'.pending)
      BY <3>2, <3>3 DEF Rising, ClientOrder
    <3>5. \A p \in Range(client'.pending) : p.id < client.next
      <4> TAKE p \in Range(client'.pending)
      <4>1. PICK i \in DOMAIN client.pending : p = client'.pending[i]
        BY <3>2 DEF Range
      <4> QED
        BY <3>3, <4>1 DEF ClientOrder
    <3> QED
      BY <3>1, <3>4, <3>5 DEF ClientOrder
  <2>2. CASE a.kind # "pubrec"
    <3>1. client'.next = client.next /\ client'.pending = Without(client.pending, a.id)
      BY <1>1, <1>4, <2>2 DEF Receive, ClientRecord
    <3>2. Range(client'.pending) \subseteq Range(client.pending)
      BY <1>1, <3>1, WithoutHolds
    <3>3. Rising(client'.pending)
      BY <1>1, <3>1, RiseWithout DEF ClientOrder
    <3> QED
      BY <3>1, <3>2, <3>3 DEF ClientOrder
  <2> QED
    BY <2>1, <2>2
<1>5. CASE client' = client
  BY <1>2, <1>5
<1>6. ASSUME NEW c \in Slots, Connect(c) \/ Notice(c) \/ Lose(c) \/ Leave(c) PROVE ClientOrder(client')
  <2>1. client'.pending = client.pending /\ client'.next = client.next
    BY <1>1, <1>6 DEF Connect, Notice, Lose, Leave, ClientRecord
  <2> QED
    BY <1>2, <2>1
<1>7. ASSUME NEW c \in Slots,
             \/ RateRefuses(c) \/ Accept(c) \/ Put(c) \/ WriteRetained(c) \/ WriteFails(c) \/ Ack(c)
             \/ ReadPubRel(c) \/ SendFails(c) \/ ReadDisconnect(c) \/ ReadError(c) \/ Return(c)
      PROVE  client' = client
  BY <1>7 DEF RateRefuses, Accept, Put, WriteRetained, WriteFails, Ack, ReadPubRel, SendFails,
              ReadDisconnect, ReadError, Return
<1>8. CASE Next
  <2>1. CASE Tick
    BY <1>5, <2>1 DEF Tick
  <2> QED
    BY <1>3, <1>4, <1>5, <1>6, <1>7, <1>8, <2>1 DEF Next
<1>9. CASE UNCHANGED vars
  BY <1>5, <1>9 DEF vars
<1> QED
  BY <1>8, <1>9

\* Packets leave the watched connection, or come to it that are no PUBLISH.
LEMMA OrderKept ==
    ASSUME OrderInv, NEW in, NEW n, NEW at, NEW next,
           PublishesRise(in), n = Len(sent),
           \A p \in Range(in) : p.kind = "publish" => p \in Range(conn[Watched].in),
           at = Watched => client.at = Watched /\ next = client.next
    PROVE  InOrder(in, n) /\ (at = Watched => Below(in, n, next))
BY DEF OrderInv, InOrder, Below

\* Publishes come in the order of their ids.
LEMMA OrderStep ==
    ASSUME TypeInv, BucketInv, OrderInv, [Next]_vars
    PROVE  OrderInv'
<1> DEFINE W == Watched
           r == conn[W]
           Goal == /\ InOrder(conn'[W].in, Len(sent'))
                   /\ client'.at = W => Below(conn'[W].in, Len(sent'), client'.next)
<1>1. /\ TypeOK /\ W \in Slots /\ None # W /\ r.in \in Seq(Inbound) /\ client \in ClientRecord
      /\ sent \in Seq(0..MaxAge)
  BY PublishAssumption DEF TypeInv, TypeOK, ConnRecord
<1>2. /\ InOrder(r.in, Len(sent)) /\ PublishesRise(r.in)
      /\ client.at = W => Below(r.in, Len(sent), client.next)
  BY DEF OrderInv, InOrder
<1>3. Len(sent) \in Nat /\ client.next \in Nat \ {0} /\ client.pending \in Seq(Unacked)
  BY <1>1, LenProperties, IdsType DEF ClientRecord, Unacked
<1>4. ASSUME conn'[W].in = r.in, Len(sent') = Len(sent),
             client'.at = W => client.at = W /\ client'.next = client.next
      PROVE  Goal
  BY <1>2, <1>4, OrderKept
<1>5. ASSUME NEW c \in Slots, Connect(c) PROVE Goal
  <2> DEFINE s == [i \in DOMAIN client.pending |-> Resend(client.pending[i])]
  <2>1. /\ \A d \in Slots : d # c => conn'[d].in = conn[d].in
        /\ conn'[c].in = s /\ client'.at = c /\ client'.next = client.next
    BY <1>1, <1>5, ConnectEffect
  <2>2. sent' = sent /\ conn[c].pc = "closed"
    BY <1>5 DEF Connect
  <2>3. CASE c # W
    BY <1>1, <1>4, <2>1, <2>2, <2>3
  <2>4. CASE c = W
    <3>1. Len(sent') = 0
      BY <2>2, <2>4 DEF BucketInv
    <3>2. DOMAIN s = DOMAIN client.pending /\ \A i \in DOMAIN s : s[i].id = client.pending[i].id
      BY DEF Resend
    <3> HIDE DEF s
    <3>3. PublishesRise(s)
      BY <3>2 DEF OrderInv, ClientOrder, Rising, PublishesRise
    <3>4. \A p \in Range(s) : 0 < p.id /\ p.id < client.next
      <4> TAKE p \in Range(s)
      <4>1. PICK i \in DOMAIN client.pending : p.id = client.pending[i].id
        BY <3>2 DEF Range
      <4>2. client.pending[i] \in Range(client.pending)
        BY DEF Range
      <4>3. client.pending[i] \in Unacked
        BY <1>3, <4>2, RangeIn
      <4>4. 0 < client.pending[i].id
        BY <4>3, IdsType DEF Unacked
      <4> QED
        BY <4>1, <4>2, <4>4 DEF OrderInv, ClientOrder
    <3> QED
      BY <1>3, <2>1, <2>4, <3>1, <3>3, <3>4 DEF InOrder, Below
  <2> QED
    BY <2>3, <2>4
<1>6. ASSUME NEW c \in Slots, Publish(c) PROVE Goal
  <2> DEFINE n == client.next
             e == [kind |-> "publish", id |-> n]
  <2>1. /\ \A d \in Slots : d # c => conn'[d] = conn[d]
        /\ conn'[c].in = Append(conn[c].in, e)
    BY <1>1, <1>6, PacketsEffect DEF Became
  <2>2. /\ client.at = c /\ client'.at = c /\ client'.next = n + 1 /\ sent' = sent
    BY <1>1, <1>6 DEF Publish, ClientRecord
  <2>3. CASE c # W
    BY <1>1, <1>4, <2>1, <2>2, <2>3
  <2>4. CASE c = W
    <3>1. Below(r.in, Len(sent), n)
      BY <1>2, <2>2, <2>4
    <3>2. e \in Inbound /\ e.id = n
      BY <1>6 DEF Publish, Inbound
    <3>3. Range(Append(r.in, e)) = Range(r.in) \cup {e}
      BY <1>1, <3>2, AppendHolds
    <3>4. PublishesRise(Append(r.in, e))
      BY <1>1, <1>2, <3>1, <3>2, RiseAppend DEF Below
    <3>5. Len(sent) < n /\ Len(sent) < n + 1 /\ n < n + 1
      BY <1>3, <3>1 DEF Below
    <3>6. \A p \in Range(r.in) : p.id \in Nat
      <4>1. Range(r.in) \subseteq Inbound
        BY <1>1, RangeIn
      <4>2. \A p \in Inbound : p.id \in Ids \/ p.id = 0
        BY DEF Inbound, Bye
      <4>3. 0 \in Nat /\ Ids \subseteq Nat
        BY IdsType
      <4> QED
        BY <4>1, <4>2, <4>3, Zenon
    <3>7. \A p \in Range(r.in) : p.kind = "publish" => p.id < n + 1
      BY <1>3, <3>1, <3>6 DEF Below
    <3> HIDE DEF e
    <3> QED
      BY <1>2, <2>1, <2>2, <2>4, <3>2, <3>3, <3>4, <3>5, <3>7 DEF InOrder, Below
  <2> QED
    BY <2>3, <2>4
<1>7. ASSUME NEW c \in Slots, Receive(c) PROVE Goal
  <2> DEFINE a == Head(conn[c].out)
             e == [kind |-> "pubrel", id |-> a.id]
             in == IF a.kind = "pubrec" THEN Append(conn[c].in, e) ELSE conn[c].in
  <2>1. /\ \A d \in Slots : d # c => conn'[d] = conn[d]
        /\ conn'[c].in = in
    BY <1>1, <1>7, PacketsEffect DEF Became
  <2>2. client'.at = client.at /\ client'.next = client.next /\ sent' = sent
    BY <1>1, <1>7 DEF Receive, ClientRecord
  <2>3. CASE c # W
    BY <1>1, <1>4, <2>1, <2>2, <2>3
  <2>4. CASE c = W
    <3>1. a \in Outbound
      <4>1. conn[c].out \in Seq(Outbound) /\ conn[c].out # << >>
        BY <1>1, <1>7 DEF TypeOK, ConnRecord, Receive
      <4> QED
        BY <4>1, TailHolds
    <3>2. e \in Inbound /\ e.kind # "publish"
      BY <3>1 DEF Outbound, Inbound
    <3>3. PublishesRise(in) /\ \A p \in Range(in) : p.kind = "publish" => p \in Range(r.in)
      <4>1. CASE a.kind = "pubrec"
        <5>1. PublishesRise(Append(r.in, e))
          BY <1>1, <1>2, <3>2, RiseAppend
        <5>2. Range(Append(r.in, e)) = Range(r.in) \cup {e}
          BY <1>1, <3>2, AppendHolds
        <5> QED
          BY <2>4, <3>2, <4>1, <5>1, <5>2
      <4>2. CASE a.kind # "pubrec"
        BY <1>2, <2>4, <4>2
      <4> QED
        BY <4>1, <4>2
    <3> QED
      BY <2>1, <2>2, <2>4, <3>3, OrderKept
  <2> QED
    BY <2>3, <2>4
<1>8. ASSUME NEW c \in Slots, Notice(c) PROVE Goal
  <2>1. conn' = conn /\ sent' = sent /\ client'.at = None
    BY <1>1, <1>8 DEF Notice, ClientRecord
  <2> QED
    BY <1>1, <1>4, <2>1
<1>9. ASSUME NEW c \in Slots, Lose(c) \/ Leave(c) PROVE Goal
  <2>1. /\ \A d \in Slots : d # c => conn'[d] = conn[d]
        /\ conn'[c].in \in Prefixes(conn[c].in) \/ conn'[c].in = Append(conn[c].in, Bye)
    BY <1>1, <1>9, PacketsEffect DEF Became
  <2>2. client'.at = None /\ sent' = sent
    BY <1>1, <1>9 DEF Lose, Leave, ClientRecord
  <2>3. CASE c # W
    BY <1>1, <1>4, <2>1, <2>2, <2>3
  <2>4. CASE c = W
    <3>1. CASE conn'[c].in \in Prefixes(conn[c].in)
      <4>1. PublishesRise(conn'[W].in) /\ Range(conn'[W].in) \subseteq Range(r.in)
        BY <1>1, <1>2, <2>4, <3>1, RisePrefix, PrefixHolds
      <4> QED
        BY <1>1, <2>2, <4>1, OrderKept
    <3>2. CASE conn'[c].in = Append(conn[c].in, Bye)
      <4>1. Bye \in Inbound /\ Bye.kind # "publish"
        BY DEF Bye, Inbound
      <4>2. PublishesRise(conn'[W].in) /\ Range(conn'[W].in) = Range(r.in) \cup {Bye}
        BY <1>1, <1>2, <2>4, <3>2, <4>1, RiseAppend, AppendHolds
      <4> QED
        BY <1>1, <2>2, <4>1, <4>2, OrderKept
    <3> QED
      BY <2>1, <3>1, <3>2
  <2> QED
    BY <2>3, <2>4
<1>10. ASSUME NEW c \in Slots, RateRefuses(c) \/ ReadPubRel(c) \/ ReadDisconnect(c) PROVE Goal
  <2>1. /\ \A d \in Slots : d # c => conn'[d] = conn[d]
        /\ conn'[c].in = Tail(conn[c].in)
    BY <1>1, <1>10, ReadEffect DEF Became
  <2>2. client' = client /\ sent' = sent /\ conn[c].in # << >>
    BY <1>10 DEF RateRefuses, ReadPubRel, ReadDisconnect, Reads
  <2>3. CASE c # W
    BY <1>1, <1>4, <2>1, <2>2, <2>3
  <2>4. CASE c = W
    <3>1. PublishesRise(Tail(r.in)) /\ Range(Tail(r.in)) \subseteq Range(r.in)
      BY <1>1, <1>2, <2>2, <2>4, RiseTail, TailHolds
    <3> QED
      BY <2>1, <2>2, <2>4, <3>1, OrderKept
  <2> QED
    BY <2>3, <2>4
<1>11. ASSUME NEW c \in Slots, Accept(c) PROVE Goal
  <2>1. /\ \A d \in Slots : d # c => conn'[d] = conn[d]
        /\ conn'[c].in = Tail(conn[c].in)
    BY <1>1, <1>11, ReadEffect DEF Became
  <2>2. client' = client /\ sent' = IF c = W THEN <<0>> \o sent ELSE sent
    BY <1>11 DEF Accept
  <2>3. CASE c # W
    BY <1>1, <1>4, <2>1, <2>2, <2>3
  <2>4. CASE c = W
    <3>1. Reads(W, "publish") /\ r.in # << >> /\ Head(r.in).kind = "publish"
      BY <1>11, <2>4 DEF Accept, Reads
    <3>2. Head(r.in) \in Range(r.in) /\ Head(r.in).id \in Nat
      <4>1. Head(r.in) \in Range(r.in) /\ Id(W) \in Ids
        BY <1>1, <3>1, ReadsType
      <4> QED
        BY <4>1, IdsType DEF Id
    <3>3. Len(sent') = Len(sent) + 1
      <4>1. <<0>> \in Seq(0..MaxAge) /\ Len(<<0>>) = 1
        BY BoundsType
      <4>2. Len(<<0>> \o sent) = 1 + Len(sent)
        BY <1>1, <4>1, ConcatProperties
      <4> QED
        BY <1>3, <2>2, <2>4, <4>2
    <3>4. Len(sent) < Head(r.in).id
      BY <1>2, <3>1, <3>2 DEF InOrder
    <3>5. /\ PublishesRise(Tail(r.in)) /\ Range(Tail(r.in)) \subseteq Range(r.in)
          /\ \A p \in Range(Tail(r.in)) : p.kind = "publish" => Head(r.in).id < p.id
      BY <1>1, <1>2, <3>1, RiseTail, TailHolds
    <3>6. \A p \in Range(Tail(r.in)) : p.kind = "publish" => Len(sent) + 1 < p.id
      <4>1. \A p \in Inbound : p.kind = "publish" => p.id \in Nat
        BY IdsType DEF Inbound, Bye
      <4>2. Range(r.in) \subseteq Inbound
        BY <1>1, RangeIn
      <4> QED
        BY <1>3, <3>2, <3>4, <3>5, <4>1, <4>2
    <3>7. client.at = W => Len(sent) + 1 < client.next
      <4>1. client.at = W => Head(r.in).id < client.next
        BY <1>2, <3>1, <3>2 DEF Below
      <4> QED
        BY <1>3, <3>2, <3>4, <4>1
    <3> QED
      BY <1>2, <2>1, <2>2, <2>4, <3>3, <3>5, <3>6, <3>7 DEF InOrder, Below
  <2> QED
    BY <2>3, <2>4
<1>12. ASSUME NEW c \in Slots,
              Put(c) \/ WriteRetained(c) \/ WriteFails(c) \/ SendFails(c) \/ ReadError(c) \/ Ack(c)
       PROVE  Goal
  <2>1. /\ \A d \in Slots : d # c => conn'[d] = conn[d]
        /\ conn'[c].in = conn[c].in
    BY <1>1, <1>12, PcEffect, EndEffect DEF Became
  <2>2. client' = client /\ sent' = sent
    BY <1>12 DEF Put, WriteRetained, WriteFails, SendFails, ReadError, Ack
  <2> QED
    BY <1>1, <1>4, <2>1, <2>2
<1>13. ASSUME NEW c \in Slots, Return(c) PROVE Goal
  <2>1. /\ \A d \in Slots : d # c => conn'[d] = conn[d]
        /\ conn'[c].in = << >>
    BY <1>13, EndEffect DEF Became
  <2>2. client' = client /\ sent' = IF c = W THEN << >> ELSE sent
    BY <1>13 DEF Return
  <2>3. CASE c # W
    BY <1>1, <1>4, <2>1, <2>2, <2>3
  <2>4. CASE c = W
    <3>1. Len(sent') = 0 /\ 0 < client.next
      BY <1>3, <2>2, <2>4
    <3>2. Range(<< >>) = {} /\ PublishesRise(<< >>)
      BY EmptyHolds DEF PublishesRise
    <3> QED
      BY <2>1, <2>2, <2>4, <3>1, <3>2 DEF InOrder, Below
  <2> QED
    BY <2>3, <2>4
<1>14. ASSUME Tick PROVE Goal
  <2>1. conn'[W].in = r.in /\ client' = client
    BY <1>1, <1>14, TickEffect DEF Tick
  <2>2. Len(sent') = Len(sent)
    <3>1. Len(sent) \in Nat /\ DOMAIN sent = 1..Len(sent)
      BY <1>1, LenProperties
    <3>2. sent' \in Seq(0..MaxAge) /\ DOMAIN sent' = DOMAIN sent
      BY <1>14, TypeNext DEF TypeInv, TypeOK, Tick
    <3>3. Len(sent') \in Nat /\ DOMAIN sent' = 1..Len(sent')
      BY <3>2, LenProperties
    <3> QED
      BY <3>1, <3>2, <3>3
  <2> QED
    BY <1>4, <2>1, <2>2
<1>15. ASSUME UNCHANGED vars PROVE Goal
  BY <1>4, <1>15 DEF vars
<1>16. Goal
  <2> HIDE DEF Goal
  <2>1. CASE Next
    BY <1>5, <1>6, <1>7, <1>8, <1>9, <1>10, <1>11, <1>12, <1>13, <1>14, <2>1 DEF Next
  <2> QED
    BY <1>15, <2>1
<1>17. ClientOrder(client')
  BY ClientOrderStep DEF OrderInv
<1> QED
  BY <1>16, <1>17 DEF OrderInv, ClientOrder, Rising, InOrder, Below, PublishesRise

\* OrderInv holds in every reachable state.
LEMMA OrderInit == Init => OrderInv
<1> SUFFICES ASSUME Init PROVE OrderInv
  OBVIOUS
<1>1. /\ client.at = None /\ client.pending = << >> /\ sent = << >> /\ conn[Watched].in = << >>
      /\ None # Watched
  BY PublishAssumption DEF Init, Closed
<1>2. Range(<< >>) = {} /\ PublishesRise(<< >>) /\ Rising(<< >>)
  BY EmptyHolds DEF PublishesRise, Rising
<1> QED
  BY <1>1, <1>2 DEF OrderInv, ClientOrder, InOrder

(***************************************************************************)
(* What the bucket holds is the tightest of the windows: no more than any  *)
(* of them leaves (as far as ages are told apart), and no less than some.  *)
(***************************************************************************)
Spent(k)  == k * Token
Earned(a) == Full + Rate * a
Age(s, k) == IF k = 0 THEN 0 ELSE s[k]

Tightest(level, s) ==
    /\ \A k \in 0..Len(s) : (k = 0 \/ s[k] < MaxAge) => level + Spent(k) <= Earned(Age(s, k))
    /\ \E k \in 0..Len(s) : level + Spent(k) >= Earned(Age(s, k))

WindowInv == Rate # 0 => Tightest(Refill(conn[Watched].rate), sent)

\* Tokens and units.
LEMMA SpentEarned ==
    /\ Spent(0) = 0 /\ Earned(0) = Full
    /\ \A k \in Nat : Spent(k) \in Nat /\ Spent(k + 1) = Spent(k) + Token
    /\ \A a \in Nat : Earned(a) \in Nat /\ Earned(a + 1) = Earned(a) + Rate
<1>1. Token \in Nat /\ Full \in Nat /\ Rate \in Nat
  BY BoundsType, PublishAssumption
<1>2. Spent(0) = 0 /\ Earned(0) = Full
  BY <1>1 DEF Spent, Earned
<1>3. ASSUME NEW k \in Nat PROVE Spent(k) \in Nat /\ Spent(k + 1) = Spent(k) + Token
  BY <1>1 DEF Spent
<1>4. ASSUME NEW a \in Nat PROVE Earned(a) \in Nat /\ Earned(a + 1) = Earned(a) + Rate
  <2>1. Rate * a \in Nat /\ Rate * (a + 1) = Rate * a + Rate
    BY <1>1
  <2> QED
    BY <1>1, <2>1 DEF Earned
<1> QED
  BY <1>2, <1>3, <1>4

\* A publish of that age leaves room for as many as there are messages.
LEMMA MaxAgeEnough ==
    ASSUME Rate # 0, NEW k \in Nat, k < Len(Messages)
    PROVE  Spent(k) + Token <= Earned(MaxAge)
<1> DEFINE N == Len(Messages)
           x == Monus(N, Rate) * Token
           q == x \div Rate
<1>1. Token \in Nat /\ Full = Rate * Token /\ Rate \in Nat /\ Rate > 0 /\ N \in Nat
  BY BoundsType, PublishAssumption DEF Full, Token
<1>2. Monus(N, Rate) \in Nat /\ N <= Monus(N, Rate) + Rate
  BY <1>1 DEF Monus
<1>3. x \in Nat
  BY <1>1, <1>2
<1>4. q \in Nat /\ x <= Rate * (q + 1)
  <2> HIDE DEF x
  <2>1. q \in Nat /\ x <= Rate * q + Rate
    BY <1>1, <1>3
  <2>2. Rate * (q + 1) = Rate * q + Rate /\ Rate * q \in Nat
    BY <1>1, <2>1
  <2> HIDE DEF q
  <2> QED
    BY <1>1, <1>3, <2>1, <2>2
<1>5. MaxAge = q + 1
  BY DEF MaxAge
<1>6. (k + 1) * Token <= N * Token
  <2>1. k + 1 <= N /\ k + 1 \in Nat
    BY <1>1
  <2>2. PICK d \in Nat : N = (k + 1) + d
    <3>1. N - (k + 1) \in Nat /\ N = (k + 1) + (N - (k + 1))
      BY <1>1, <2>1
    <3> QED
      BY <3>1
  <2>3. N * Token = (k + 1) * Token + d * Token /\ d * Token \in Nat /\ (k + 1) * Token \in Nat
    BY <1>1, <2>1, <2>2
  <2> QED
    BY <2>3
<1>7. N * Token <= x + Full
  <2>1. PICK d \in Nat : Monus(N, Rate) + Rate = N + d
    <3>1. (Monus(N, Rate) + Rate) - N \in Nat
      BY <1>1, <1>2
    <3>2. Monus(N, Rate) + Rate = N + ((Monus(N, Rate) + Rate) - N)
      BY <1>1, <1>2
    <3> QED
      BY <3>1, <3>2
  <2>2. x + Full = (Monus(N, Rate) + Rate) * Token
    BY <1>1, <1>2
  <2>3. (N + d) * Token = N * Token + d * Token /\ d * Token \in Nat /\ N * Token \in Nat
    BY <1>1, <2>1
  <2> QED
    BY <2>1, <2>2, <2>3
<1>8. Spent(k) + Token = (k + 1) * Token /\ (k + 1) * Token \in Nat /\ N * Token \in Nat
  BY <1>1 DEF Spent
<1>9. Earned(MaxAge) = Full + Rate * (q + 1) /\ Rate * (q + 1) \in Nat /\ Full \in Nat
  BY <1>1, <1>4, <1>5 DEF Earned
<1> HIDE DEF x, q
<1> QED
  BY <1>3, <1>4, <1>6, <1>7, <1>8, <1>9

\* A new connection.
LEMMA WindowNew == Tightest(Full, << >>)
<1>1. ASSUME NEW s, Len(s) = 0 PROVE Tightest(Full, s)
  <2>1. Full + Spent(0) = Earned(0) /\ Full + Spent(0) \in Nat
    BY SpentEarned, BoundsType
  <2>2. 0..Len(s) = {0} /\ Age(s, 0) = 0
    BY <1>1 DEF Age
  <2>3. Full + Spent(0) <= Earned(Age(s, 0)) /\ Full + Spent(0) >= Earned(Age(s, 0))
    BY <2>1, <2>2
  <2> QED
    BY <2>2, <2>3 DEF Tightest
<1>2. Len(<< >>) = 0
  OBVIOUS
<1> QED
  BY <1>1, <1>2

\* A publish is accepted.
LEMMA WindowAccept ==
    ASSUME NEW level \in 0..Full, level >= Token, NEW s \in Seq(0..MaxAge), Tightest(level, s)
    PROVE  Tightest(level - Token, <<0>> \o s)
<1> DEFINE t == <<0>> \o s
<1>1. Token \in Nat /\ Full \in Nat /\ MaxAge \in Nat /\ Len(s) \in Nat /\ level \in Nat
  BY BoundsType, LenProperties
<1>2. /\ Len(t) = Len(s) + 1 /\ t[1] = 0
      /\ \A k \in 1..Len(s) : t[k + 1] = s[k]
  <2>1. <<0>> \in Seq(0..MaxAge) /\ Len(<<0>>) = 1 /\ <<0>>[1] = 0
    BY <1>1
  <2>2. /\ Len(t) = 1 + Len(s)
        /\ \A i \in 1..(1 + Len(s)) : t[i] = IF i <= 1 THEN <<0>>[i] ELSE s[i - 1]
    BY <2>1, ConcatProperties
  <2> HIDE DEF t
  <2>3. \A k \in 1..Len(s) : t[k + 1] = s[k]
    <3> TAKE k \in 1..Len(s)
    <3>1. k + 1 \in 1..(1 + Len(s)) /\ ~(k + 1 <= 1) /\ (k + 1) - 1 = k
      BY <1>1
    <3> QED
      BY <2>2, <3>1
  <2> QED
    BY <1>1, <2>1, <2>2, <2>3
<1> HIDE DEF t
<1>3. ASSUME NEW k \in 0..Len(s)
      PROVE  /\ k + 1 \in 0..Len(t) /\ k \in Nat
             /\ Age(t, k + 1) = Age(s, k) /\ Age(s, k) \in Nat
             /\ (k + 1 = 0 \/ t[k + 1] < MaxAge) => (k = 0 \/ s[k] < MaxAge)
             /\ (level - Token) + Spent(k + 1) = level + Spent(k)
  <2>1. k + 1 \in 0..Len(t) /\ k \in Nat /\ k + 1 # 0
    BY <1>1, <1>2
  <2>2. k # 0 => k \in 1..Len(s) /\ s[k] \in 0..MaxAge
    BY <1>1, ElementOfSeq
  <2>3. Age(t, k + 1) = Age(s, k) /\ Age(s, k) \in Nat
    BY <1>1, <1>2, <2>1, <2>2 DEF Age
  <2>4. (level - Token) + Spent(k + 1) = level + Spent(k)
    <3>1. Spent(k) \in Nat /\ Spent(k + 1) = Spent(k) + Token
      BY <2>1, SpentEarned
    <3>2. level \in Nat /\ Token \in Nat
      BY <1>1
    <3> QED
      BY <3>1, <3>2
  <2> QED
    BY <1>2, <2>1, <2>2, <2>3, <2>4
<1>4. \A k \in 0..Len(t) : (k = 0 \/ t[k] < MaxAge) => (level - Token) + Spent(k) <= Earned(Age(t, k))
  <2> TAKE k \in 0..Len(t)
  <2>1. CASE k = 0
    BY <1>1, <2>1, SpentEarned DEF Age
  <2>2. CASE k # 0
    <3>1. k - 1 \in 0..Len(s) /\ (k - 1) + 1 = k
      BY <1>1, <1>2, <2>2
    <3> QED
      BY <1>3, <2>2, <3>1 DEF Tightest
  <2> QED
    BY <2>1, <2>2
<1>5. \E k \in 0..Len(t) : (level - Token) + Spent(k) >= Earned(Age(t, k))
  <2>1. PICK k \in 0..Len(s) : level + Spent(k) >= Earned(Age(s, k))
    BY DEF Tightest
  <2> QED
    BY <1>3, <2>1
<1> QED
  BY <1>4, <1>5 DEF Tightest, t

\* Time passes.
LEMMA WindowTick ==
    ASSUME NEW level \in 0..Full, NEW s \in Seq(0..MaxAge), NEW t \in Seq(0..MaxAge),
           Len(t) = Len(s), \A i \in 1..Len(s) : t[i] = Aged(s[i], MaxAge), Tightest(level, s)
    PROVE  Tightest(IF level + Rate <= Full THEN level + Rate ELSE Full, t)
<1> DEFINE l == IF level + Rate <= Full THEN level + Rate ELSE Full
<1>1. /\ Full \in Nat /\ MaxAge \in Nat /\ Len(s) \in Nat /\ Rate \in Nat
      /\ level \in Nat /\ l \in Nat /\ l <= Full /\ l <= level + Rate /\ (l = Full \/ l = level + Rate)
  BY BoundsType, LenProperties, PublishAssumption
<1> HIDE DEF l
<1>2. ASSUME NEW k \in 1..Len(s)
      PROVE  /\ s[k] \in Nat /\ t[k] \in Nat /\ k \in Nat /\ k # 0
             /\ t[k] < MaxAge => s[k] < MaxAge /\ t[k] = s[k] + 1
             /\ t[k] = s[k] \/ t[k] = s[k] + 1
  <2>1. s[k] \in 0..MaxAge
    BY ElementOfSeq
  <2> QED
    BY <1>1, <2>1 DEF Aged
<1>3. ASSUME NEW k \in 0..Len(t), k = 0 \/ t[k] < MaxAge PROVE l + Spent(k) <= Earned(Age(t, k))
  <2>1. CASE k = 0
    BY <1>1, <2>1, SpentEarned DEF Age
  <2>2. CASE k # 0
    <3>1. k \in 1..Len(s)
      BY <1>1, <2>2
    <3>2. s[k] < MaxAge /\ t[k] = s[k] + 1 /\ s[k] \in Nat /\ k \in Nat
      BY <1>2, <1>3, <2>2, <3>1
    <3>3. level + Spent(k) <= Earned(s[k])
      BY <2>2, <3>1, <3>2, <1>1 DEF Tightest, Age
    <3>4. Earned(t[k]) = Earned(s[k]) + Rate /\ Earned(s[k]) \in Nat /\ Spent(k) \in Nat
      BY <3>2, SpentEarned
    <3>5. l + Spent(k) <= Earned(t[k])
      BY <1>1, <3>3, <3>4
    <3> QED
      BY <2>2, <3>5 DEF Age
  <2> QED
    BY <2>1, <2>2
<1>4. \E k \in 0..Len(t) : l + Spent(k) >= Earned(Age(t, k))
  <2>1. PICK k \in 0..Len(s) : level + Spent(k) >= Earned(Age(s, k))
    BY DEF Tightest
  <2>2. CASE l = Full
    <3>1. 0 \in 0..Len(t) /\ Full + Spent(0) >= Earned(Age(t, 0))
      BY <1>1, SpentEarned DEF Age
    <3> QED
      BY <2>2, <3>1
  <2>3. CASE l = level + Rate /\ k = 0
    <3>1. level + Rate >= Full
      BY <1>1, <2>1, <2>3, SpentEarned DEF Age
    <3>2. l = Full
      BY <1>1, <2>3, <3>1
    <3> QED
      BY <2>2, <3>2
  <2>4. CASE l = level + Rate /\ k # 0
    <3>1. k \in 1..Len(s) /\ k \in Nat
      BY <1>1, <2>4
    <3>2. s[k] \in Nat /\ (t[k] = s[k] \/ t[k] = s[k] + 1)
      BY <1>2, <3>1
    <3>3. level + Spent(k) >= Earned(s[k])
      BY <2>1, <2>4 DEF Age
    <3>4. Earned(s[k] + 1) = Earned(s[k]) + Rate /\ Earned(s[k]) \in Nat /\ Spent(k) \in Nat
      BY <3>1, <3>2, SpentEarned
    <3>5. l + Spent(k) >= Earned(t[k])
      <4> DEFINE e == Earned(s[k])
                 x == Spent(k)
      <4>1. e \in Nat /\ x \in Nat /\ level + x >= e /\ l = level + Rate
        BY <2>4, <3>3, <3>4
      <4>2. Earned(t[k]) = e \/ Earned(t[k]) = e + Rate
        BY <3>2, <3>4
      <4> HIDE DEF e, x
      <4>3. l + x >= e /\ l + x >= e + Rate
        BY <1>1, <4>1
      <4> QED
        BY <4>2, <4>3 DEF x
    <3>6. k \in 0..Len(t) /\ Age(t, k) = t[k]
      BY <1>1, <2>1, <2>4 DEF Age
    <3> QED
      BY <3>5, <3>6
  <2> QED
    BY <1>1, <2>2, <2>3, <2>4
<1> QED
  BY <1>3, <1>4 DEF Tightest, l

\* What the windows say is what the bucket says.
LEMMA WindowMeans ==
    ASSUME Rate # 0, NEW level \in 0..Full, NEW s \in Seq(0..MaxAge), Tightest(level, s),
           Len(s) < Len(Messages)
    PROVE  level >= Token <=> \A k \in 0..Len(s) : (k + 1) * Token <= Earned(Age(s, k))
<1>1. /\ Token \in Nat /\ Full \in Nat /\ MaxAge \in Nat /\ Len(s) \in Nat /\ level \in Nat
      /\ Len(Messages) \in Nat
  BY BoundsType, LenProperties, IdsType
<1>2. ASSUME NEW k \in 0..Len(s)
      PROVE  /\ k \in Nat /\ Age(s, k) \in Nat /\ (k # 0 => s[k] \in 0..MaxAge /\ Age(s, k) = s[k])
             /\ Spent(k) \in Nat /\ Earned(Age(s, k)) \in Nat
             /\ (k + 1) * Token = Spent(k) + Token
  <2>1. k \in Nat /\ (k # 0 => k \in 1..Len(s))
    BY <1>1
  <2>2. k # 0 => s[k] \in 0..MaxAge /\ Age(s, k) = s[k]
    BY <2>1, ElementOfSeq DEF Age
  <2>3. Age(s, k) \in Nat
    BY <1>1, <2>2 DEF Age
  <2>4. (k + 1) * Token = Spent(k) + Token
    BY <1>1, <2>1 DEF Spent
  <2> QED
    BY <2>1, <2>2, <2>3, <2>4, SpentEarned
<1>3. ASSUME level >= Token, NEW k \in 0..Len(s) PROVE (k + 1) * Token <= Earned(Age(s, k))
  <2>1. CASE k = 0 \/ s[k] < MaxAge
    <3>1. level + Spent(k) <= Earned(Age(s, k))
      BY <2>1 DEF Tightest
    <3> QED
      BY <1>1, <1>2, <1>3, <3>1, SMTT(30)
  <2>2. CASE ~(k = 0 \/ s[k] < MaxAge)
    <3>a. k \in Nat /\ s[k] \in 0..MaxAge /\ Age(s, k) = s[k]
      BY <1>2, <2>2
    <3>b. s[k] = MaxAge
      BY <1>1, <2>2, <3>a
    <3>c. k < Len(Messages)
      BY <1>1
    <3>1. Age(s, k) = MaxAge /\ k \in Nat /\ k < Len(Messages)
      BY <3>a, <3>b, <3>c
    <3> QED
      BY <1>2, <3>1, MaxAgeEnough
  <2> QED
    BY <2>1, <2>2
<1>4. ASSUME \A k \in 0..Len(s) : (k + 1) * Token <= Earned(Age(s, k)) PROVE level >= Token
  <2>1. PICK k \in 0..Len(s) : level + Spent(k) >= Earned(Age(s, k))
    BY DEF Tightest
  <2>2. (k + 1) * Token <= Earned(Age(s, k))
    BY <1>4
  <2> QED
    BY <1>1, <1>2, <2>1, <2>2, SMTT(30)
<1> QED
  BY <1>3, <1>4

\* The windows are kept.
LEMMA WindowStep ==
    ASSUME TypeInv, BucketInv, WindowInv, [Next]_vars
    PROVE  WindowInv'
<1> SUFFICES ASSUME Rate # 0 PROVE Tightest(Refill(conn'[Watched].rate), sent')
  BY DEF WindowInv, Tightest, Refill, Age, MaxAge, Earned, Spent, Full, Token
<1> DEFINE level == Refill(conn[Watched].rate)
<1>1. Watched \in Slots /\ conn[Watched].rate \in Limiter /\ sent \in Seq(0..MaxAge) /\ TypeOK
  BY PublishAssumption DEF TypeInv, TypeOK, ConnRecord, Limiter
<1>2. level \in 0..Full /\ Tightest(level, sent)
  BY <1>1, LimiterType DEF WindowInv
<1>3. CASE conn'[Watched].rate = conn[Watched].rate /\ sent' = sent
  BY <1>2, <1>3
<1>4. ASSUME Accept(Watched) PROVE Tightest(Refill(conn'[Watched].rate), sent')
  <2>1. conn'[Watched].rate = allowed(conn[Watched].rate) /\ sent' = <<0>> \o sent /\ allow(conn[Watched].rate)
    BY <1>1, <1>4, ReadEffect DEF Became, Accept
  <2>2. Refill(conn'[Watched].rate) = level - Token
    BY <1>1, <2>1, RefillFacts
  <2>3. level >= Token
    BY <2>1 DEF allow
  <2> HIDE DEF level
  <2> QED
    BY <1>1, <1>2, <2>1, <2>2, <2>3, WindowAccept
<1>5. ASSUME RateRefuses(Watched) PROVE Tightest(Refill(conn'[Watched].rate), sent')
  <2>1. conn'[Watched].rate = refused(conn[Watched].rate) /\ sent' = sent
    BY <1>1, <1>5, ReadEffect DEF Became, RateRefuses
  <2> QED
    BY <1>1, <1>2, <2>1, RefillFacts
<1>6. ASSUME Return(Watched) PROVE Tightest(Refill(conn'[Watched].rate), sent')
  <2>1. conn'[Watched].rate = NewLimiter /\ sent' = << >>
    BY <1>1, <1>6, EndEffect DEF Became, Return
  <2> QED
    BY <2>1, RefillFacts, WindowNew
<1>7. ASSUME Tick PROVE Tightest(Refill(conn'[Watched].rate), sent')
  <2>1. Len(sent) \in Nat /\ DOMAIN sent = 1..Len(sent)
    BY <1>1, LenProperties
  <2>2. /\ sent' \in Seq(0..MaxAge) /\ DOMAIN sent' = DOMAIN sent
        /\ \A i \in DOMAIN sent : sent'[i] = Aged(sent[i], MaxAge)
    BY <1>7, TypeNext DEF TypeInv, TypeOK, Tick
  <2>3. Len(sent') = Len(sent)
    <3>1. Len(sent') \in Nat /\ DOMAIN sent' = 1..Len(sent')
      BY <2>2, LenProperties
    <3> QED
      BY <2>1, <2>2, <3>1
  <2>4. CASE conn[Watched].pc = "closed"
    <3>1. conn'[Watched].rate = conn[Watched].rate
      BY <1>1, <1>7, <2>4, TickEffect
    <3>2. sent' = sent
      <4>1. sent = << >>
        BY <2>4 DEF BucketInv
      <4> QED
        BY <2>2, <2>3, <4>1, EmptySeq
    <3> QED
      BY <1>2, <3>1, <3>2
  <2>5. CASE conn[Watched].pc # "closed"
    <3>1. Refill(conn'[Watched].rate) = IF level + Rate <= Full THEN level + Rate ELSE Full
      <4>1. conn'[Watched].rate = [conn[Watched].rate EXCEPT !.last = Aged(@, Ticks)]
        BY <1>1, <1>7, <2>5, TickEffect
      <4>2. Refill([conn[Watched].rate EXCEPT !.last = Aged(@, Ticks)])
               = IF level + Rate <= Full THEN level + Rate ELSE Full
        BY <1>1, RefillFacts
      <4> QED
        BY <4>1, <4>2
    <3> HIDE DEF level
    <3>2. Tightest(IF level + Rate <= Full THEN level + Rate ELSE Full, sent')
      BY <1>1, <1>2, <2>1, <2>2, <2>3, WindowTick
    <3> QED
      BY <3>1, <3>2
  <2> QED
    BY <2>4, <2>5
<1>8. ASSUME NEW c \in Slots, Connect(c) PROVE conn'[Watched].rate = conn[Watched].rate /\ sent' = sent
  <2>1. /\ \A d \in Slots : d # c => conn'[d].rate = conn[d].rate
        /\ conn'[c].rate = NewLimiter
    BY <1>1, <1>8, ConnectEffect, ZenonT(30)
  <2>2. sent' = sent /\ conn[c].pc = "closed"
    BY <1>8 DEF Connect
  <2> QED
    BY <1>1, <2>1, <2>2 DEF BucketInv
<1>9. ASSUME NEW c \in Slots,
             \/ Publish(c) \/ Receive(c) \/ Lose(c) \/ Leave(c) \/ Put(c) \/ WriteRetained(c)
             \/ WriteFails(c) \/ SendFails(c) \/ ReadError(c) \/ Ack(c) \/ ReadPubRel(c) \/ ReadDisconnect(c)
      PROVE  conn'[Watched].rate = conn[Watched].rate /\ sent' = sent
  <2>1. sent' = sent
    BY <1>9 DEF Publish, Receive, Lose, Leave, Put, WriteRetained, WriteFails, SendFails, ReadError,
                Ack, ReadPubRel, ReadDisconnect
  <2>2. CASE Publish(c) \/ Receive(c) \/ Lose(c) \/ Leave(c)
    <3>1. (\A d \in Slots : d # c => conn'[d] = conn[d]) /\ conn'[c].rate = conn[c].rate
      BY <1>1, <2>2, PacketsEffect DEF Became
    <3> QED
      BY <1>1, <2>1, <3>1
  <2>3. CASE Put(c) \/ WriteRetained(c) \/ WriteFails(c) \/ SendFails(c) \/ ReadError(c)
    <3>1. (\A d \in Slots : d # c => conn'[d] = conn[d]) /\ conn'[c].rate = conn[c].rate
      BY <1>1, <2>3, PcEffect DEF Became
    <3> QED
      BY <1>1, <2>1, <3>1
  <2>4. CASE Ack(c)
    <3>1. (\A d \in Slots : d # c => conn'[d] = conn[d]) /\ conn'[c].rate = conn[c].rate
      BY <2>4, EndEffect DEF Became
    <3> QED
      BY <1>1, <2>1, <3>1
  <2>5. CASE ReadPubRel(c) \/ ReadDisconnect(c)
    <3>1. (\A d \in Slots : d # c => conn'[d] = conn[d]) /\ conn'[c].rate = conn[c].rate
      BY <1>1, <2>5, ReadEffect DEF Became
    <3> QED
      BY <1>1, <2>1, <3>1
  <2> QED
    BY <1>9, <2>2, <2>3, <2>4, <2>5
<1>10. ASSUME NEW c \in Slots, c # Watched, Accept(c) \/ RateRefuses(c) \/ Return(c)
       PROVE  conn'[Watched].rate = conn[Watched].rate /\ sent' = sent
  <2>1. \A d \in Slots : d # c => conn'[d] = conn[d]
    BY <1>1, <1>10, ReadEffect, EndEffect DEF Became
  <2>2. sent' = sent
    BY <1>10 DEF Accept, RateRefuses, Return
  <2> QED
    BY <1>1, <1>10, <2>1, <2>2
<1>11. ASSUME NEW c \in Slots, Notice(c) PROVE conn'[Watched].rate = conn[Watched].rate /\ sent' = sent
  BY <1>11 DEF Notice
<1>12. CASE Next
  <2> HIDE DEF level
  <2>1. ASSUME NEW c \in Slots,
               \/ Connect(c) \/ Publish(c) \/ Receive(c) \/ Notice(c) \/ Lose(c) \/ Leave(c)
               \/ RateRefuses(c) \/ Accept(c) \/ Put(c) \/ WriteRetained(c) \/ WriteFails(c) \/ Ack(c)
               \/ ReadPubRel(c) \/ SendFails(c) \/ ReadDisconnect(c) \/ ReadError(c) \/ Return(c)
        PROVE  Tightest(Refill(conn'[Watched].rate), sent')
    <3>1. CASE c = Watched /\ (Accept(c) \/ RateRefuses(c) \/ Return(c))
      BY <1>4, <1>5, <1>6, <3>1
    <3>2. CASE ~(c = Watched /\ (Accept(c) \/ RateRefuses(c) \/ Return(c)))
      BY <1>3, <1>8, <1>9, <1>10, <1>11, <2>1, <3>2
    <3> QED
      BY <3>1, <3>2
  <2> QED
    BY <1>7, <1>12, <2>1 DEF Next
<1>13. CASE UNCHANGED vars
  BY <1>3, <1>13 DEF vars
<1> QED
  BY <1>12, <1>13

(***************************************************************************)
(* RateLimiter::allow refuses a publish exactly when accepting it would    *)
(* give some window of time more than max_publish_rate per second and a    *)
(* burst of one second: the limit is never exceeded, and a client within   *)
(* it is never disconnected for its rate.                                  *)
(***************************************************************************)
THEOREM WindowsCorrect == Spec => []RefusesAsWindows
<1>1. Init => OrderInv /\ BucketInv /\ WindowInv
  <2> SUFFICES ASSUME Init PROVE OrderInv /\ BucketInv /\ WindowInv
    OBVIOUS
  <2>1. conn[Watched].rate = NewLimiter /\ sent = << >> /\ \A c \in Slots : ~conn[c].cut
    BY PublishAssumption DEF Init, Closed
  <2>2. WindowInv
    BY <2>1, WindowNew, RefillFacts DEF WindowInv
  <2> QED
    BY <2>1, <2>2, OrderInit DEF BucketInv
<1>2. TypeInv /\ OrderInv /\ BucketInv /\ WindowInv /\ [Next]_vars => (OrderInv /\ BucketInv /\ WindowInv)'
  BY OrderStep, BucketStep, WindowStep
<1>3. TypeInv /\ OrderInv /\ WindowInv => RefusesAsWindows
  <2> SUFFICES ASSUME TypeInv, OrderInv, WindowInv, Reads(Watched, "publish"), Rate # 0
               PROVE  allow(conn[Watched].rate) <=> Within
    BY DEF RefusesAsWindows
  <2> DEFINE level == Refill(conn[Watched].rate)
  <2>1. Watched \in Slots /\ conn[Watched].rate \in Limiter /\ sent \in Seq(0..MaxAge) /\ TypeOK
    BY PublishAssumption DEF TypeInv, TypeOK, ConnRecord, Limiter
  <2>2. level \in 0..Full /\ Tightest(level, sent)
    BY <2>1, LimiterType DEF WindowInv
  <2>3. Len(sent) < Len(Messages)
    <3>1. Head(conn[Watched].in) \in Range(conn[Watched].in) /\ Id(Watched) \in Ids
      BY <2>1, ReadsType
    <3>2. Len(sent) < Id(Watched)
      BY <3>1 DEF OrderInv, InOrder, Reads, Id
    <3>3. Len(sent) \in Nat
      BY <2>1, LenProperties
    <3> QED
      BY <3>1, <3>2, <3>3, IdsType
  <2>4. Within <=> \A k \in 0..Len(sent) : (k + 1) * Token <= Earned(Age(sent, k))
    BY DEF Within, Earned, Age
  <2>5. allow(conn[Watched].rate) <=> level >= Token
    BY DEF allow
  <2> HIDE DEF level
  <2>6. level >= Token <=> \A k \in 0..Len(sent) : (k + 1) * Token <= Earned(Age(sent, k))
    BY <2>1, <2>2, <2>3, WindowMeans
  <2> QED
    BY <2>4, <2>5, <2>6
<1> QED
  BY <1>1, <1>2, <1>3, TypeInvariant, PTL DEF Spec

=============================================================================
