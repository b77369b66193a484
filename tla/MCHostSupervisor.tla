------------------------- MODULE MCHostSupervisor -------------------------
(* HostSupervisor with one plugin; the plugins share nothing but stopped.  *)
EXTENDS HostSupervisor

CONSTANTS p1, c1, c2, s1, s2, s3

MCPlugins == {p1}
MCCallers == {c1, c2}
MCCars    == {s1, s2, s3}
===========================================================================
