------------------------------ MODULE HubCache ------------------------------
(***************************************************************************)
(* What the hub-port cache (hubpower/cache.go) is to a command that has it *)
(* for itself: a map from the names that readers have answered with to the *)
(* ports they were last seen at, which changes by one sighting at a time.  *)
(* Nothing here knows of files, of loads and saves, or of what lies        *)
(* between them.  PortMemory, where all of that is modelled, is shown to   *)
(* implement it while commands do not overlap; CommandLine, which has no   *)
(* files, always does.                                                     *)
(***************************************************************************)
EXTENDS Naturals

CONSTANTS
  Identities,  \* a serial and a port path each
  Ports        \* hub ports

VARIABLES
  cache,  \* [the names remembered -> [port, seen]]
  clock   \* sightings so far

vars == <<cache, clock>>

Init ==
  /\ cache = [n \in {} |-> n]
  /\ clock = 0

\* A reader that answers with the name n is seen at p.  It is the latest to have
\* been seen, whatever was remembered of n and p before is forgotten, and
\* everything else is not.
Sight(n, p) ==
  LET others == {m \in DOMAIN cache \ {n} : cache[m].port # p} IN
  /\ clock' = clock + 1
  /\ cache' = [m \in others \union {n} |->
                 IF m = n THEN [port |-> p, seen |-> clock'] ELSE cache[m]]

\* Names whose hubs turn out to be others are forgotten.
Forget(gone) ==
  /\ cache' = [n \in DOMAIN cache \ gone |-> cache[n]]
  /\ UNCHANGED clock

Next ==
  \/ \E n \in Identities, p \in Ports : Sight(n, p)
  \/ \E gone \in SUBSET DOMAIN cache : Forget(gone)

Spec == Init /\ [][Next]_vars
=============================================================================
