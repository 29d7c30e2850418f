---------------------------- MODULE ConnectGate -----------------------------
(***************************************************************************)
(* How a connection gets in: the two accept loops, the connection limit    *)
(* with its guard (crates/entmoot-node/src/lib.rs), and the part of        *)
(* connection.rs's serve before the session: CONNECT in time, admission    *)
(* (admission.rs), authentication (auth.rs).                               *)
(*                                                                         *)
(* The clock ticks once per cell of the admission limiter, that is         *)
(* Rate times in a second.                                                 *)
(***************************************************************************)
EXTENDS Naturals, FiniteSets

CONSTANTS
    Conns,           \* incoming connections, each accepted once
    TlsConns,        \* those that arrive at the TLS listener
    Cert,            \* the CN of the certificate they present, or None
    Logins,          \* the logins clients may try: pairs of user and password
    Passwords,       \* the configured users and their passwords
    None,            \* no certificate, or no identity
    AllowAnonymous,  \* auth.allow_anonymous
    MaxConnections,  \* max_connections
    Rate,            \* connect_admission_rate, 0 for no admission control
    Burst,           \* connect_admission_burst
    ConnectTimeout   \* CONNECT_TIMEOUT, in ticks

ASSUME GateAssumption ==
    /\ IsFiniteSet(Conns)
    /\ TlsConns \subseteq Conns
    /\ None \notin STRING
    /\ Cert \in [TlsConns -> STRING \cup {None}]
    /\ AllowAnonymous \in BOOLEAN
    /\ MaxConnections \in Nat
    /\ Rate \in Nat
    /\ Burst \in Nat
    /\ ConnectTimeout \in Nat

VARIABLES
    up,          \* the accept loops run: shutdown has not been called
    pc,          \* where every connection is
    conn_count,  \* Broker.conn_count
    count,       \* what fetch_add returned to the connection, plus one
    timer,       \* ticks until its wait for CONNECT ends
    identity,    \* whom serve takes it for
    cells,       \* what the admission limiter has left
    quiet,       \* history: ticks since the last CONNECT, up to a second
    burst        \* history: CONNECTs since there was none for a second, up to Rate + 1

connVars == <<pc, conn_count, count, identity>>
timeVars == <<cells, quiet, burst>>
vars     == <<up, connVars, timer, timeVars>>

-----------------------------------------------------------------------------
\* ConnectAdmission::new.  Mutant: the burst is taken as it is configured.
Capacity_as_configured == Burst

Capacity == IF Burst > Rate THEN Burst ELSE Rate

Init ==
    /\ up = TRUE
    /\ pc = [c \in Conns |-> "new"]
    /\ conn_count = 0
    /\ count = [c \in Conns |-> 0]
    /\ timer = [c \in Conns |-> 0]
    /\ identity = [c \in Conns |-> None]
    /\ cells = Capacity
    /\ quiet = 0
    /\ burst = 0

Goto(c, from, to) ==
    /\ pc[c] = from
    /\ pc' = [pc EXCEPT ![c] = to]

-----------------------------------------------------------------------------
(***************************************************************************)
(* Accepting.  A TLS connection shakes hands in a task of its own, which   *)
(* has no timeout, outlives shutdown, and is not counted.                  *)
(***************************************************************************)
AcceptTls(c) ==
    /\ up
    /\ c \in TlsConns
    /\ Goto(c, "new", "handshake")
    /\ UNCHANGED <<up, conn_count, count, timer, identity, timeVars>>

HandshakeFails(c) ==
    /\ Goto(c, "handshake", "gone")
    /\ UNCHANGED <<up, conn_count, count, timer, identity, timeVars>>

\* The fetch_add of spawn_client; the guard exists from here on.
Counted(c) ==
    /\ conn_count' = conn_count + 1
    /\ count' = [count EXCEPT ![c] = conn_count + 1]
    /\ UNCHANGED <<up, timer, identity, timeVars>>

AcceptPlain(c) ==
    /\ up
    /\ c \notin TlsConns
    /\ Goto(c, "new", "counted")
    /\ Counted(c)

HandshakeDone(c) ==
    /\ Goto(c, "handshake", "counted")
    /\ Counted(c)

\* Mutant: one connection too many.
OverLimit_off_by_one(c) == count[c] > MaxConnections + 1

OverLimit(c) == count[c] > MaxConnections

Reject(c) ==
    /\ OverLimit(c)
    /\ Goto(c, "counted", "rejected")
    /\ count' = [count EXCEPT ![c] = 0]
    /\ UNCHANGED <<up, conn_count, timer, identity, timeVars>>

SpawnServe(c) ==
    /\ ~OverLimit(c)
    /\ Goto(c, "counted", "reading")
    /\ count' = [count EXCEPT ![c] = 0]
    /\ timer' = [timer EXCEPT ![c] = ConnectTimeout]
    /\ UNCHANGED <<up, conn_count, identity, timeVars>>

\* Mutant: a connection that is rejected keeps its place.
Released_unless_rejected(c) == IF pc[c] = "rejected" THEN conn_count ELSE conn_count - 1

\* Drop of ConnGuard, when serve has returned or the limit was reached.
Released(c) == conn_count - 1

DropGuard(c) ==
    /\ pc[c] \in {"rejected", "ended"}
    /\ pc' = [pc EXCEPT ![c] = "gone"]
    /\ conn_count' = Released(c)
    /\ UNCHANGED <<up, count, timer, identity, timeVars>>

-----------------------------------------------------------------------------
(***************************************************************************)
(* serve, up to the session.  The limiter is governor's: a cell per tick,  *)
(* up to the capacity, and a CONNECT takes one.                            *)
(***************************************************************************)
admit == Rate = 0 \/ cells > 0

TakeCell == IF Rate = 0 \/ cells = 0 THEN cells ELSE cells - 1

\* The CN of a client certificate is the identity, even an empty one, and
\* nothing else is asked for then ...
Presented(c) == IF c \in TlsConns THEN Cert[c] ELSE None

\* ... or else Authenticator::authenticate decides; a user without a name is
\* anonymous.
Authenticated(c, login) ==
    CASE Presented(c) # None -> Presented(c)
      [] Presented(c) = None /\ login[1] # "" ->
           IF login \in Passwords THEN login[1] ELSE None
      [] OTHER -> IF AllowAnonymous THEN "" ELSE None

\* CONNECT arrives: shed, refused, or served.
Connect(c, login) ==
    /\ pc[c] = "reading"
    /\ LET who == IF admit THEN Authenticated(c, login) ELSE None
       IN  /\ pc' = [pc EXCEPT ![c] = IF ~admit THEN "shed"
                                      ELSE IF who = None THEN "ended" ELSE "serving"]
           /\ identity' = [identity EXCEPT ![c] = who]
    /\ cells' = TakeCell
    /\ quiet' = 0
    /\ burst' = IF quiet = Rate THEN 1 ELSE IF burst <= Rate THEN burst + 1 ELSE burst
    /\ timer' = [timer EXCEPT ![c] = 0]
    /\ UNCHANGED <<up, conn_count, count>>

\* A shed client has been sent ServiceUnavailable, or is beyond reach.
ShedDone(c) ==
    /\ Goto(c, "shed", "ended")
    /\ UNCHANGED <<up, conn_count, count, timer, identity, timeVars>>

\* Another packet than CONNECT, a malformed one, or the end of the stream.
ReadFails(c) ==
    /\ Goto(c, "reading", "ended")
    /\ timer' = [timer EXCEPT ![c] = 0]
    /\ UNCHANGED <<up, conn_count, count, identity, timeVars>>

TimesOut(c) ==
    /\ timer[c] = 0
    /\ Goto(c, "reading", "ended")
    /\ UNCHANGED <<up, conn_count, count, timer, identity, timeVars>>

\* The session part of serve, which is Broker's, returns.
ServeReturns(c) ==
    /\ Goto(c, "serving", "ended")
    /\ identity' = [identity EXCEPT ![c] = None]
    /\ UNCHANGED <<up, conn_count, count, timer, timeVars>>

\* BrokerHandle::shutdown stops the accept loops; clients stay.
Shutdown ==
    /\ up
    /\ up' = FALSE
    /\ UNCHANGED <<connVars, timer, timeVars>>

Tick ==
    /\ timer' = [c \in Conns |-> IF timer[c] > 0 THEN timer[c] - 1 ELSE 0]
    /\ cells' = IF cells < Capacity THEN cells + 1 ELSE cells
    /\ quiet' = IF quiet < Rate THEN quiet + 1 ELSE quiet
    /\ UNCHANGED <<up, connVars, burst>>

-----------------------------------------------------------------------------
ServerStep(c) == Reject(c) \/ SpawnServe(c) \/ ShedDone(c) \/ TimesOut(c) \/ DropGuard(c)

ClientStep(c) ==
    \/ AcceptTls(c) \/ AcceptPlain(c) \/ HandshakeDone(c) \/ HandshakeFails(c)
    \/ \E login \in Logins : Connect(c, login)
    \/ ReadFails(c) \/ ServeReturns(c)

Next ==
    \/ \E c \in Conns : ServerStep(c) \/ ClientStep(c)
    \/ Shutdown
    \/ Tick

Spec == Init /\ [][Next]_vars

(***************************************************************************)
(* Fairness: the runtime schedules the tasks and time passes; clients may  *)
(* stay silent for ever, in the handshake, before CONNECT, or after it.    *)
(***************************************************************************)
Fairness == WF_vars(Tick) /\ \A c \in Conns : WF_vars(ServerStep(c))

FairSpec == Spec /\ Fairness

-----------------------------------------------------------------------------
Pcs == {"new", "handshake", "counted", "rejected", "reading", "shed", "serving", "ended", "gone"}

TypeOK ==
    /\ up \in BOOLEAN
    /\ pc \in [Conns -> Pcs]
    /\ conn_count \in Nat
    /\ count \in [Conns -> Nat]
    /\ timer \in [Conns -> 0..ConnectTimeout]
    /\ cells \in 0..Capacity
    /\ quiet \in 0..Rate
    /\ burst \in 0..(Rate + 1)

\* The connections that have passed the limit and hold their place.
Inside == {c \in Conns : pc[c] \in {"reading", "shed", "serving", "ended"}}

(***************************************************************************)
(* Never more connections than max_connections are past the limit, though  *)
(* the count is read and compared in two steps, by two accept loops and a  *)
(* handshake task per connection (lib.rs:346, config.rs:22 "plain + TLS    *)
(* combined").                                                             *)
(***************************************************************************)
LimitHolds == Cardinality(Inside) <= MaxConnections

(***************************************************************************)
(* However a connection ends, by rejection, time-out, shedding, refusal or *)
(* after service, its place comes back: once no more connections arrive,   *)
(* the count is the number of clients that are served (lib.rs:330).        *)
(***************************************************************************)
CountSettles == <>[](conn_count = Cardinality({c \in Conns : pc[c] = "serving"}))

(***************************************************************************)
(* Of the CONNECTs that follow a second without any, at least Rate are     *)
(* admitted, whatever burst was configured (admission.rs:24 "a single      *)
(* quiet second doesn't leave less headroom than the steady rate itself"). *)
(***************************************************************************)
QuietSecondGivesHeadroom ==
    [][\A c \in Conns : pc[c] = "reading" /\ pc'[c] = "shed" => burst' > Rate]_vars

=============================================================================
