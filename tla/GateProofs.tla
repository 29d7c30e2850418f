----------------------------- MODULE GateProofs -----------------------------
(***************************************************************************)
(* The connection limit holds for any number of connections.  LimitHolds   *)
(* is not inductive by itself: what keeps it is that conn_count is the     *)
(* number of guards, and that a connection which was counted within the    *)
(* limit but has not compared yet already has its place.  And a CONNECT is *)
(* shed only by more than the rate, whatever burst is configured.          *)
(***************************************************************************)
EXTENDS ConnectGate, FiniteSetTheorems, TLAPS

\* Connections with a guard, and those among them that are or will be let in.
Guarded == {c \in Conns : pc[c] \in {"counted", "rejected", "reading", "shed", "serving", "ended"}}
Passed  == {c \in Conns : \/ pc[c] \in {"reading", "shed", "serving", "ended"}
                          \/ pc[c] = "counted" /\ count[c] <= MaxConnections}

GateInv ==
    /\ TypeOK
    /\ conn_count = Cardinality(Guarded)
    /\ Cardinality(Passed) <= MaxConnections

-----------------------------------------------------------------------------
\* Both sets are finite, and who has passed has a guard.
LEMMA FiniteGate ==
    /\ IsFiniteSet(Guarded) /\ Cardinality(Guarded) \in Nat
    /\ IsFiniteSet(Passed) /\ Cardinality(Passed) \in Nat
    /\ Cardinality(Passed) <= Cardinality(Guarded)
<1>1. Guarded \subseteq Conns /\ Passed \subseteq Guarded
  BY DEF Guarded, Passed
<1>2. IsFiniteSet(Guarded) /\ IsFiniteSet(Passed)
  BY <1>1, GateAssumption, FS_Subset
<1> QED
  BY <1>1, <1>2, FS_Subset, FS_CardinalityType

\* The capacity of the admission limiter is a number.
LEMMA CapacityType == Capacity \in Nat
BY GateAssumption DEF Capacity

\* A connection that is counted gets a guard, and passes only if there is room.
LEMMA CountedKeeps ==
    ASSUME GateInv, NEW c \in Conns, pc[c] \in {"new", "handshake"},
           pc' = [pc EXCEPT ![c] = "counted"], Counted(c)
    PROVE  GateInv'
<1>1. TypeOK'
  BY DEF GateInv, TypeOK, Pcs, Counted, timeVars
<1>2. c \notin Guarded /\ Guarded' = Guarded \cup {c}
  BY DEF GateInv, TypeOK, Guarded
<1>3. conn_count' = Cardinality(Guarded')
  <2>1. Cardinality(Guarded \cup {c}) = Cardinality(Guarded) + 1
    BY <1>2, FiniteGate, FS_AddElement
  <2> QED
    BY <1>2, <2>1 DEF GateInv, Counted
<1>4. Passed' = IF conn_count + 1 <= MaxConnections THEN Passed \cup {c} ELSE Passed
  <2>1. \A d \in Conns : d # c => (d \in Passed' <=> d \in Passed)
    BY DEF GateInv, TypeOK, Passed, Counted
  <2>2. c \notin Passed /\ (c \in Passed' <=> conn_count + 1 <= MaxConnections)
    BY DEF GateInv, TypeOK, Passed, Counted
  <2>3. Passed \subseteq Conns /\ Passed' \subseteq Conns
    BY DEF Passed
  <2> QED
    BY <2>1, <2>2, <2>3
<1>5. Cardinality(Passed') <= MaxConnections
  <2>1. CASE conn_count + 1 <= MaxConnections
    <3>1. c \notin Passed
      BY DEF GateInv, TypeOK, Passed
    <3>2. Cardinality(Passed \cup {c}) = Cardinality(Passed) + 1
      BY <3>1, FiniteGate, FS_AddElement
    <3>3. Cardinality(Passed) + 1 <= MaxConnections
      BY <2>1, FiniteGate, GateAssumption DEF GateInv, TypeOK
    <3> QED
      BY <1>4, <2>1, <3>2, <3>3
  <2>2. CASE ~(conn_count + 1 <= MaxConnections)
    BY <1>4, <2>2 DEF GateInv
  <2> QED
    BY <2>1, <2>2
<1> QED
  BY <1>1, <1>3, <1>5 DEF GateInv

\* A connection that leaves takes its guard, and its place if it had one.
LEMMA DropKeeps ==
    ASSUME GateInv, NEW c \in Conns, DropGuard(c)
    PROVE  GateInv'
<1>1. c \in Guarded /\ Guarded' = Guarded \ {c}
  BY DEF GateInv, TypeOK, Guarded, DropGuard
<1>2. Cardinality(Guarded \ {c}) = Cardinality(Guarded) - 1 /\ Cardinality(Guarded \ {c}) \in Nat
  BY <1>1, FiniteGate, FS_RemoveElement, FS_CardinalityType
<1>3. conn_count' = Cardinality(Guarded') /\ conn_count' \in Nat
  BY <1>1, <1>2 DEF GateInv, DropGuard, Released
<1>4. TypeOK'
  BY <1>3 DEF GateInv, TypeOK, Pcs, DropGuard, timeVars
<1>5. Passed' = Passed \ {c}
  BY DEF GateInv, TypeOK, Passed, DropGuard
<1>6. Cardinality(Passed') <= MaxConnections
  <2>1. Passed \ {c} \subseteq Passed
    OBVIOUS
  <2>2. Cardinality(Passed \ {c}) <= Cardinality(Passed) /\ Cardinality(Passed \ {c}) \in Nat
    BY <2>1, FiniteGate, FS_Subset, FS_CardinalityType
  <2> QED
    BY <1>5, <2>2, FiniteGate, GateAssumption DEF GateInv
<1> QED
  BY <1>3, <1>4, <1>6 DEF GateInv

\* A step that leaves both sets and the count alone.
LEMMA SameKeeps ==
    ASSUME GateInv, TypeOK', Guarded' = Guarded, Passed' = Passed, conn_count' = conn_count
    PROVE  GateInv'
BY DEF GateInv

\* Inside is what has passed and has compared.
LEMMA InvGivesLimit == GateInv => LimitHolds
<1> SUFFICES ASSUME GateInv PROVE Cardinality(Inside) <= MaxConnections
  BY DEF LimitHolds
<1>1. Inside \subseteq Passed
  BY DEF Inside, Passed
<1>2. Cardinality(Inside) <= Cardinality(Passed) /\ Cardinality(Inside) \in Nat
  BY <1>1, FiniteGate, FS_Subset, FS_CardinalityType
<1> QED
  BY <1>2, FiniteGate, GateAssumption DEF GateInv

-----------------------------------------------------------------------------
\* The inductive invariant holds in every reachable state.
LEMMA GateInvariant == Spec => []GateInv
<1>1. Init => GateInv
  <2> SUFFICES ASSUME Init PROVE GateInv
    OBVIOUS
  <2>1. TypeOK
    BY CapacityType, GateAssumption DEF Init, TypeOK, Pcs
  <2>2. Guarded = {} /\ Passed = {}
    BY DEF Init, Guarded, Passed
  <2> QED
    BY <2>1, <2>2, FS_EmptySet, GateAssumption DEF Init, GateInv
<1>2. GateInv /\ [Next]_vars => GateInv'
  <2> SUFFICES ASSUME GateInv, [Next]_vars PROVE GateInv'
    OBVIOUS
  <2>1. TypeOK
    BY DEF GateInv
  <2>2. ASSUME NEW c \in Conns, AcceptPlain(c) \/ HandshakeDone(c) PROVE GateInv'
    BY <2>2, CountedKeeps DEF AcceptPlain, HandshakeDone, Goto
  <2>3. ASSUME NEW c \in Conns, DropGuard(c) PROVE GateInv'
    BY <2>3, DropKeeps
  <2>4. ASSUME NEW c \in Conns, AcceptTls(c) \/ HandshakeFails(c) PROVE GateInv'
    <3>1. TypeOK'
      BY <2>1, <2>4 DEF AcceptTls, HandshakeFails, Goto, TypeOK, Pcs, timeVars
    <3>2. Guarded' = Guarded /\ Passed' = Passed /\ conn_count' = conn_count
      BY <2>1, <2>4 DEF AcceptTls, HandshakeFails, Goto, TypeOK, Guarded, Passed
    <3> QED
      BY <3>1, <3>2, SameKeeps
  <2>5. ASSUME NEW c \in Conns, Reject(c) PROVE GateInv'
    <3>1. TypeOK'
      BY <2>1, <2>5 DEF Reject, Goto, TypeOK, Pcs, timeVars
    <3>2. Guarded' = Guarded /\ conn_count' = conn_count
      BY <2>1, <2>5 DEF Reject, Goto, TypeOK, Guarded
    <3>3. Passed' = Passed
      BY <2>1, <2>5, GateAssumption DEF Reject, OverLimit, Goto, TypeOK, Passed
    <3> QED
      BY <3>1, <3>2, <3>3, SameKeeps
  <2>6. ASSUME NEW c \in Conns, SpawnServe(c) PROVE GateInv'
    <3>1. TypeOK'
      BY <2>1, <2>6, GateAssumption DEF SpawnServe, Goto, TypeOK, Pcs, timeVars
    <3>2. Guarded' = Guarded /\ conn_count' = conn_count
      BY <2>1, <2>6 DEF SpawnServe, Goto, TypeOK, Guarded
    <3>3. Passed' = Passed
      BY <2>1, <2>6, GateAssumption DEF SpawnServe, OverLimit, Goto, TypeOK, Passed
    <3> QED
      BY <3>1, <3>2, <3>3, SameKeeps
  <2>7. ASSUME NEW c \in Conns, ShedDone(c) \/ TimesOut(c) \/ ReadFails(c) \/ ServeReturns(c)
        PROVE  GateInv'
    <3>1. TypeOK'
      BY <2>1, <2>7, GateAssumption DEF ShedDone, TimesOut, ReadFails, ServeReturns, Goto, TypeOK, Pcs, timeVars
    <3>2. Guarded' = Guarded /\ conn_count' = conn_count
      BY <2>1, <2>7 DEF ShedDone, TimesOut, ReadFails, ServeReturns, Goto, TypeOK, Guarded
    <3>3. Passed' = Passed
      BY <2>1, <2>7 DEF ShedDone, TimesOut, ReadFails, ServeReturns, Goto, TypeOK, Passed
    <3> QED
      BY <3>1, <3>2, <3>3, SameKeeps
  <2>8. ASSUME NEW c \in Conns, NEW login \in Logins, Connect(c, login) PROVE GateInv'
    <3>1. PICK p \in {"shed", "ended", "serving"} : pc' = [pc EXCEPT ![c] = p]
      <4>1. CASE ~admit
        BY <2>8, <4>1 DEF Connect
      <4>2. CASE admit
        BY <2>8, <4>2 DEF Connect
      <4> QED
        BY <4>1, <4>2
    <3>2. cells' \in 0..Capacity
      BY <2>1, <2>8, CapacityType DEF Connect, TakeCell, TypeOK
    <3>3. burst' \in 0..(Rate + 1)
      BY <2>1, <2>8, GateAssumption DEF Connect, TypeOK
    <3>4. TypeOK'
      BY <2>1, <2>8, <3>1, <3>2, <3>3, GateAssumption DEF Connect, TypeOK, Pcs
    <3>5. pc[c] = "reading" /\ count' = count /\ conn_count' = conn_count
      BY <2>8 DEF Connect
    <3>6. Guarded' = Guarded
      BY <2>1, <3>1, <3>5 DEF TypeOK, Guarded
    <3>7. Passed' = Passed
      BY <2>1, <3>1, <3>5 DEF TypeOK, Passed
    <3> QED
      BY <3>4, <3>5, <3>6, <3>7, SameKeeps
  <2>9. CASE Shutdown \/ Tick
    <3>1. TypeOK'
      <4>1. CASE Shutdown
        BY <2>1, <4>1 DEF Shutdown, TypeOK, connVars, timeVars
      <4>2. CASE Tick
        <5>1. cells' \in 0..Capacity /\ quiet' \in 0..Rate
          BY <2>1, <4>2, CapacityType, GateAssumption DEF Tick, TypeOK
        <5>2. timer' \in [Conns -> 0..ConnectTimeout]
          BY <2>1, <4>2, GateAssumption DEF Tick, TypeOK
        <5> QED
          BY <2>1, <4>2, <5>1, <5>2 DEF Tick, TypeOK, connVars
      <4> QED
        BY <2>9, <4>1, <4>2
    <3>2. Guarded' = Guarded /\ Passed' = Passed /\ conn_count' = conn_count
      BY <2>9 DEF Shutdown, Tick, connVars, Guarded, Passed
    <3> QED
      BY <3>1, <3>2, SameKeeps
  <2>10. CASE UNCHANGED vars
    <3>1. TypeOK' /\ Guarded' = Guarded /\ Passed' = Passed /\ conn_count' = conn_count
      BY <2>1, <2>10 DEF vars, connVars, timeVars, TypeOK, Guarded, Passed
    <3> QED
      BY <3>1, SameKeeps
  <2> QED
    BY <2>2, <2>3, <2>4, <2>5, <2>6, <2>7, <2>8, <2>9, <2>10 DEF Next, ServerStep, ClientStep
<1> QED
  BY <1>1, <1>2, PTL DEF Spec

(***************************************************************************)
(* However many connections race at both listeners, no more than           *)
(* max_connections are ever past the limit, and conn_count, which is       *)
(* unsigned in the code, never wraps below zero (lib.rs:334, lib.rs:346).  *)
(***************************************************************************)
THEOREM LimitSafe == Spec => [](LimitHolds /\ TypeOK)
<1>1. GateInv => LimitHolds /\ TypeOK
  BY InvGivesLimit DEF GateInv
<1> QED
  BY <1>1, GateInvariant, PTL

-----------------------------------------------------------------------------
(***************************************************************************)
(* Admission.  The limiter has at least a cell for every tick since the    *)
(* last CONNECT, and the CONNECTs since the last quiet second have taken   *)
(* at most one each.                                                       *)
(***************************************************************************)
HeadroomInv == quiet <= cells /\ Rate <= cells + burst

\* A CONNECT takes one cell and counts as one; it is shed only by an empty
\* limiter.
LEMMA ConnectHeadroom ==
    ASSUME TypeOK, HeadroomInv, NEW c \in Conns, NEW login \in Logins, Connect(c, login)
    PROVE  HeadroomInv' /\ (~admit => burst' > Rate)
<1>t. /\ cells \in Nat /\ quiet \in Nat /\ burst \in 0..(Rate + 1) /\ Rate \in Nat
      /\ quiet <= cells /\ Rate <= cells + burst
  BY CapacityType, GateAssumption DEF TypeOK, HeadroomInv
<1>1. /\ cells' = IF Rate = 0 \/ cells = 0 THEN cells ELSE cells - 1
      /\ quiet' = 0
      /\ burst' = IF quiet = Rate THEN 1 ELSE IF burst <= Rate THEN burst + 1 ELSE burst
  BY DEF Connect, TakeCell
<1>2. HeadroomInv'
  BY <1>t, <1>1 DEF HeadroomInv
<1>3. ~admit => burst' > Rate
  BY <1>t, <1>1 DEF admit
<1> QED
  BY <1>2, <1>3

(***************************************************************************)
(* A CONNECT is shed only after Rate others since the last second without  *)
(* any, for every rate and every burst, one that is configured below the   *)
(* rate included (admission.rs:24).                                        *)
(***************************************************************************)
THEOREM QuietCorrect == Spec => QuietSecondGivesHeadroom
<1> DEFINE Sheds == \A c \in Conns : pc[c] = "reading" /\ pc'[c] = "shed" => burst' > Rate
<1>1. Init => HeadroomInv
  BY CapacityType, GateAssumption DEF Init, HeadroomInv, Capacity
<1>2. ASSUME GateInv, HeadroomInv, [Next]_vars
      PROVE  HeadroomInv' /\ [Sheds]_vars
  <2>1. TypeOK /\ pc \in [Conns -> Pcs]
    BY <1>2 DEF GateInv, TypeOK
  <2>2. ASSUME NEW c \in Conns, NEW login \in Logins, Connect(c, login)
        PROVE  HeadroomInv' /\ Sheds
    <3>1. HeadroomInv' /\ (~admit => burst' > Rate)
      BY <1>2, <2>1, <2>2, ConnectHeadroom
    <3>2. \A d \in Conns \ {c} : pc'[d] = pc[d]
      BY <2>1, <2>2 DEF Connect
    <3>3. admit => pc'[c] # "shed"
      BY <2>1, <2>2 DEF Connect
    <3> QED
      BY <3>1, <3>2, <3>3
  <2>3. ASSUME NEW c \in Conns, ServerStep(c) \/ ClientStep(c),
               ~\E login \in Logins : Connect(c, login)
        PROVE  HeadroomInv' /\ Sheds
    <3>1. PICK p \in Pcs \ {"shed"} : pc' = [pc EXCEPT ![c] = p] /\ UNCHANGED timeVars
      BY <2>3 DEF ServerStep, ClientStep, Reject, SpawnServe, ShedDone, TimesOut, DropGuard,
                  AcceptTls, AcceptPlain, HandshakeDone, HandshakeFails, Counted, ReadFails,
                  ServeReturns, Goto, Pcs
    <3>2. \A d \in Conns : pc'[d] = pc[d] \/ pc'[d] # "shed"
      BY <2>1, <3>1
    <3> QED
      BY <1>2, <3>1, <3>2 DEF HeadroomInv, timeVars
  <2>4. CASE Tick
    <3>1. /\ cells \in Nat /\ quiet \in Nat /\ burst \in Nat /\ Rate \in Nat /\ Capacity \in Nat
          /\ quiet <= Rate /\ Rate <= Capacity
      BY <2>1, CapacityType, GateAssumption DEF TypeOK, Capacity
    <3>2. HeadroomInv'
      BY <1>2, <2>4, <3>1 DEF HeadroomInv, Tick
    <3>3. pc' = pc
      BY <2>4 DEF Tick, connVars
    <3> QED
      BY <3>2, <3>3
  <2>5. CASE Shutdown \/ UNCHANGED vars
    <3>1. UNCHANGED <<pc, cells, quiet, burst>>
      BY <2>5 DEF Shutdown, vars, connVars, timeVars
    <3> QED
      BY <1>2, <3>1 DEF HeadroomInv
  <2> QED
    BY <1>2, <2>2, <2>3, <2>4, <2>5 DEF Next
<1>3. GateInv /\ HeadroomInv /\ [Next]_vars => HeadroomInv'
  BY <1>2
<1>4. GateInv /\ HeadroomInv /\ [Next]_vars => [Sheds]_vars
  BY <1>2
<1> QED
  BY <1>1, <1>3, <1>4, GateInvariant, PTL DEF Spec, QuietSecondGivesHeadroom


=============================================================================
