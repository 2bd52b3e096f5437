------------------------------- MODULE MCNetSync -------------------------------
(* Small instances of NetSync for TLC. *)
EXTENDS NetSync, TLC

CONSTANTS m1, m2, north

W(services, online, last) ==
  [services |-> services, online |-> online,
   last |-> (0 :> last) @@ (1 :> None) @@ (2 :> last), at |-> (m1 :> north) @@ (m2 :> None)]
S(id, login, mac) == [id |-> id, login |-> login, mac |-> mac]

\* One service online by its id without a login, the other by its login; one online
\* and the other not; no service.
SomeWorlds ==
  {W({1, 2}, <<S(1, 0, m1), S(0, 2, m2)>>, None), W({1, 2}, <<S(1, 1, m1)>>, m2), W({}, <<>>, m1)}
=============================================================================
