------------------------------- MODULE MCSignups -------------------------------
(* Small instances of Signups for TLC. *)
EXTENDS Signups, TLC

CONSTANTS fibre

\* The three questions of the default flow, cut to two.
Default == <<"full_name", "email">>

\* A question with options, alone and before one without.
Packages == {<<"package">>, <<"package", "full_name">>}
=============================================================================
