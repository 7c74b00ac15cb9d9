------------------------ MODULE MCServiceContainer ------------------------
(* One waiter, one interface, two registry calls: enough for a ticket to be *)
(* seen by two sweeps (its own and a registration's) and for a             *)
(* registration to fall between the waiter's lookup and its append.        *)
EXTENDS ServiceContainer

CONSTANTS w1, i1

MCWaiters == {w1}
MCIfaces == {i1}
\* One sweep per ticket append and one per registration: never exhausted.
MCMaxSweeps == 1 + 2
=============================================================================
