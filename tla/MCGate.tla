------------------------------ MODULE MCGate --------------------------------
(***************************************************************************)
(* A limit of two, connections at both listeners, a burst below the rate,  *)
(* and one certificate, with an empty name.                                *)
(***************************************************************************)
EXTENDS ConnectGate

MCCert      == [c \in TlsConns |-> IF c = "t1" THEN "" ELSE None]
MCLogins    == {<<"plc", "secret">>, <<"plc", "wrong">>, <<"", "">>}
MCPasswords == {<<"plc", "secret">>}

=============================================================================
