----------------------------- MODULE MCMonitoring -----------------------------
(* Small instances of Monitoring for TLC. *)
EXTENDS Monitoring, TLC

CONSTANTS flat, sites, hill, a, b

\* Two devices of one site, or one device that is in no group.
OneSite == (1 :> [tab |-> sites, group |-> hill, target |-> a]) @@
           (2 :> [tab |-> sites, group |-> hill, target |-> b])
Alone   == (1 :> [tab |-> flat, group |-> None, target |-> a]) @@ (2 :> None)
SiteOrAlone == {OneSite, Alone}

OnSites == [g \in Group |-> sites]
=============================================================================
