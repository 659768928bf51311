----------------------------- MODULE ElementIds -----------------------------
(***************************************************************************)
(* Element identifiers (src/elementID.cpp) and the Lamport clock that      *)
(* issues them (crdt/id_generator.cpp).                                    *)
(*                                                                         *)
(* An identifier is the pair <<lamport, site>>.  The code compares site    *)
(* names as strings; all that matters is that the order is total, so a     *)
(* site is represented by its rank among the names, a positive natural.    *)
(* ROOT_ID has lamport 0, which no generator ever issues, so the rank of   *)
(* its pseudo-site "__ROOT__" never decides a comparison.                  *)
(***************************************************************************)
EXTENDS Naturals

CONSTANT Site       \* the client ids, by rank

ASSUME SiteAssumption == Site \subseteq Nat \ {0}

ROOT_ID == <<0, 0>>

GeneratedID == (Nat \ {0}) \X Site

ElementID == GeneratedID \cup {ROOT_ID}

\* ElementID::operator>, through operator< : by clock, then by site.
Greater(a, b) ==
    \/ a[1] > b[1]
    \/ a[1] = b[1] /\ a[2] > b[2]

\* Id_generator::next returns the pair of the incremented clock and the site.
NextID(clock, site) == <<clock + 1, site>>

\* Mistakes in sync_clock that the runs must notice.
SyncClockIgnored(clock, remote) == clock
SyncClockAssigned(clock, remote) == remote

\* Id_generator::sync_clock.
SyncClock(clock, remote) == IF remote > clock THEN remote ELSE clock
=============================================================================
