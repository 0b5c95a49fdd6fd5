-------------------------- MODULE MCDriverSessions --------------------------
(* Instances of DriverSessions: a driver that reconnects, and two drivers. *)
EXTENDS DriverSessions, TLC

CONSTANTS d1, d2, s1, s2, s3

OneDriver == (s1 :> d1) @@ (s2 :> d1)
TwoDrivers == (s1 :> d1) @@ (s2 :> d1) @@ (s3 :> d2)

=============================================================================
