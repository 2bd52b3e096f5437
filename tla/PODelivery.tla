------------------------------ MODULE PODelivery ------------------------------
(***************************************************************************)
(* What the notification queue promises, without workers, states of rows   *)
(* or clocks.  A note is issued once; it may be withdrawn while it waits;  *)
(* it is taken from the queue once, and whoever took it delivers it or     *)
(* loses it.  So it is delivered at most once, and never after it was      *)
(* withdrawn while it still waited.                                        *)
(***************************************************************************)
EXTENDS Integers

CONSTANT Note

VARIABLES ticket, delivered

dvars == <<ticket, delivered>>

DInit ==
  /\ ticket = [n \in Note |-> "unissued"]
  /\ delivered = [n \in Note |-> 0]

\* New notes join the queue and waiting ones leave it, in one transaction.
Requeue(issued, withdrawn) ==
  /\ \A n \in issued : ticket[n] = "unissued"
  /\ \A n \in withdrawn : ticket[n] = "queued"
  /\ ticket' = [n \in Note |-> IF n \in issued THEN "queued"
                               ELSE IF n \in withdrawn THEN "void"
                               ELSE ticket[n]]
  /\ UNCHANGED delivered

Take(n) ==
  /\ ticket[n] = "queued"
  /\ ticket' = [ticket EXCEPT ![n] = "held"]
  /\ UNCHANGED delivered

Lose(n) ==
  /\ ticket[n] = "held"
  /\ ticket' = [ticket EXCEPT ![n] = "void"]
  /\ UNCHANGED delivered

Hand(n) ==
  /\ ticket[n] = "held"
  /\ ticket' = [ticket EXCEPT ![n] = "void"]
  /\ delivered' = [delivered EXCEPT ![n] = @ + 1]

DNext ==
  \/ \E issued, withdrawn \in SUBSET Note : Requeue(issued, withdrawn)
  \/ \E n \in Note : Take(n) \/ Lose(n) \/ Hand(n)

DSpec == DInit /\ [][DNext]_dvars
=============================================================================
