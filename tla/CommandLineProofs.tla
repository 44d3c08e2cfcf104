------------------------- MODULE CommandLineProofs -------------------------
(***************************************************************************)
(* Proofs about CommandLine, for any number of SDWires, ports and remembered*)
(* ports, and any config.  The bench may change between any two steps, so  *)
(* what a command knows is never enough: the invariant says what the names *)
(* it tries have to do with the SDWires that were there all along.         *)
(***************************************************************************)
EXTENDS CommandLine, FiniteSetTheorems, TLAPS

---------------------------------------------------------------------------
(* The inductive invariant.                                                *)

WorldType ==
  /\ at \in [Devices -> Places \union {Nowhere}]
  /\ up \subseteq Places
  /\ crashed \subseteq SDWires
  /\ IsCache(cache)
  /\ clock \in 0..MaxSightings
  /\ events \in 0..MaxEvents

CommandType ==
  /\ pc \in Steps
  /\ cmd \in Commands
  /\ selector \in Selectors
  /\ fallback \in Selectors
  /\ trying \in Selectors
  /\ errs \subseteq Failures
  /\ revive \in BOOLEAN
  /\ tried \subseteq Keys
  /\ port \in Places \union {Nowhere}
  /\ got \in SDWires \union {Nowhere}
  /\ steady \subseteq SDWires
  /\ bearers \subseteq SDWires

\* A port holds one device, and is remembered once.
OneDevice == \A d, e \in Devices : at[d] = at[e] /\ at[d] # Nowhere => d = e

OneEntry == \A j, k \in DOMAIN cache : cache[j].port = cache[k].port => j = k

WorldInv == WorldType /\ OneDevice /\ OneEntry

\* Only a location has a fallback, only a fallback follows a failure; a command
\* that may revive gets to the remembered ports, and any other to their states.
FlowInv ==
  /\ fallback # NoSelector => \E q \in Places : selector = AtLocation(q)
  /\ fallback # Anyone
  /\ errs # {} => fallback # NoSelector
  /\ pc = "list" => errs = {} /\ selector = Anyone /\ trying = Anyone
  /\ pc \in {"fallback", "wait"} => revive
  /\ pc = "cached" => ~revive
  /\ cmd \in {"state", "list"} => ~revive
  /\ pc = "idle" => errs = {} /\ trying = Anyone /\ fallback = NoSelector /\ ~revive
  /\ pc \in {"enumerate", "ports"} =>
       cmd = "list" /\ errs = {} /\ trying = Anyone /\ fallback = NoSelector
  /\ pc = "use" => port \in Places

\* What the SDWires that were there all along have to do with the name that the
\* command tries next: those of the first name until it has failed, then those
\* of the other.
SteadyInv ==
  /\ \A d \in steady \union bearers : Attached(d)
  /\ pc \in {"idle", "cached"} => steady = {}
  /\ errs # {} => steady = {}
  /\ pc \in {"idle", "enumerate", "ports"} => bearers = {}
  /\ pc \in {"fallback", "wait"} => Live = {}
  /\ pc = "use" => Live \subseteq {got}
  /\ \A d \in bearers : Names(fallback, Serial[d], at[d])
  /\ pc = "connect" /\ errs # {} => trying = fallback
  /\ pc = "connect" /\ steady # {} =>
       /\ trying # Anyone
       /\ \A d \in steady : Names(trying, Serial[d], at[d])
       /\ fallback # NoSelector => trying = selector

\* A listed socket was seen on the bus, or is that of an entry already read.
ListInv ==
  /\ listed \subseteq [at : Places, serial : AllSerials, attached : BOOLEAN]
  /\ pc # "ports" => listed = {}
  /\ \A r, s \in listed : r.at = s.at => r = s
  /\ \A r \in listed : r.attached \/
       \E k \in DOMAIN cache \intersect tried : r.at = cache[k].port

IInv == WorldInv /\ CommandType /\ FlowInv /\ SteadyInv /\ ListInv

---------------------------------------------------------------------------
(* Selectors and matches.                                                  *)

\* The selectors a command makes are selectors, and differ in their forms.
LEMMA SelectorForms ==
  /\ Anyone \in Selectors /\ NoSelector \in Selectors /\ Anyone # NoSelector
  /\ \A q \in Places : AtLocation(q) \in Selectors /\ AtLocation(q) # Anyone
  /\ \A s \in AllSerials, q \in Places :
       /\ ByIdentity(s, q.path) \in Selectors
       /\ ByIdentity(s, q.path) # Anyone
       /\ Names(ByIdentity(s, q.path), s, q)
  /\ \A s, q : ~ Names(NoSelector, s, q)
<1>1. Anyone \in Selectors /\ NoSelector \in Selectors
  BY DEF Selectors
<1>2. Anyone # NoSelector
  BY DEF Anyone, NoSelector
<1>3. ASSUME NEW q \in Places PROVE AtLocation(q) \in Selectors /\ AtLocation(q) # Anyone
  <2>1. AtLocation(q) \in Selectors
    BY DEF Selectors
  <2>2. AtLocation(q).form = "location" /\ Anyone.form = "any"
    BY DEF AtLocation, Anyone
  <2> QED BY <2>1, <2>2
<1>4. ASSUME NEW s \in AllSerials, NEW q \in Places
      PROVE  /\ ByIdentity(s, q.path) \in Selectors
             /\ ByIdentity(s, q.path) # Anyone
             /\ Names(ByIdentity(s, q.path), s, q)
  <2>1. ByIdentity(s, q.path) \in Selectors
    BY DEF Selectors
  <2>2. ByIdentity(s, q.path).form = "identity" /\ Anyone.form = "any"
    BY DEF ByIdentity, Anyone
  <2>3. Names(ByIdentity(s, q.path), s, q)
    BY DEF ByIdentity, Names, PathMatches
  <2> QED BY <2>1, <2>2, <2>3
<1>5. \A s, q : ~ Names(NoSelector, s, q)
  BY DEF Names, NoSelector
<1> QED BY <1>1, <1>2, <1>3, <1>4, <1>5

\* Any SDWire on the bus is one that New would take.
LEMMA AnyoneMatches ==
  ASSUME NEW readable PROVE Matches(Anyone, readable) = {d \in SDWires : Attached(d)}
BY DEF Matches, Names, Anyone

\* A location names at most one of the SDWires on the bus.
LEMMA LocationUnique ==
  ASSUME WorldInv, NEW q \in Places, NEW readable,
         NEW d \in Matches(AtLocation(q), readable),
         NEW e \in Matches(AtLocation(q), readable)
  PROVE  d = e
<1>1. d \in SDWires /\ e \in SDWires /\ Attached(d) /\ Attached(e)
  BY DEF Matches
<1>2. at[d] \in Places /\ at[e] \in Places
  BY <1>1 DEF Attached, WorldInv, WorldType
<1>3. SameLocation(q, at[d]) /\ SameLocation(q, at[e])
  BY DEF Matches, Names, AtLocation
<1>4. ASSUME NEW p \in Places, SameLocation(q, p) PROVE p = q
  <2>1. p \in [bus : Nat, path : Seq(Nat)] /\ q \in [bus : Nat, path : Seq(Nat)]
    BY CommandLineAssumption
  <2>2. p.bus = q.bus /\ p.path = q.path
    BY <1>4 DEF SameLocation
  <2> QED BY <2>1, <2>2
<1> QED
  BY <1>1, <1>2, <1>3, <1>4, CommandLineAssumption DEF WorldInv, OneDevice, Devices

\* An SDWire that has borne the name tried all along, and that the look has
\* shown, is among the matches.
LEMMA LiveMatches ==
  ASSUME CommandType, SteadyInv, pc = "connect",
         NEW readable \in SUBSET SDWires, NEW d \in Live \intersect readable
  PROVE  d \in Matches(trying, readable)
<1>1. CASE errs = {}
  BY <1>1 DEF CommandType, SteadyInv, Live, Matches, SerialRead
<1>2. CASE errs # {}
  BY <1>2 DEF CommandType, SteadyInv, Live, Matches, SerialRead
<1> QED BY <1>1, <1>2

\* Histories that only shrink stay what they were: SDWires on the bus that bear
\* the other name.
LEMMA RemainInv ==
  ASSUME SteadyInv, NEW kept, Remain(kept), UNCHANGED <<bench, fallback>>
  PROVE  /\ \A d \in steady' \union bearers' : Attached(d)'
         /\ \A d \in bearers' : Names(fallback, Serial[d], at[d])'
BY DEF SteadyInv, Remain, Attached, bench

\* No list is being made.
LEMMA NoListInv == ASSUME listed' = {} PROVE ListInv'
BY DEF ListInv

\* What -s and the config ask for is a selector; a fallback goes with a location.
LEMMA Resolves ==
  ASSUME NEW flag \in Flags, NEW default \in Defaults
  PROVE  LET s == ResolveSelection(flag, default) IN
         /\ s.selector \in Selectors
         /\ s.fallback \in Selectors
         /\ s.fallback # Anyone
         /\ s.fallback # NoSelector => \E q \in Places : s.selector = AtLocation(q)
<1> DEFINE name == IF flag = NoFlag THEN default ELSE flag
           s == ResolveSelection(flag, default)
<1>1. name = NoFlag \/ name \in DOMAIN ConfigDevices \/ name \in Selectors
  BY CommandLineAssumption
<1>2. CASE name = NoFlag
  BY <1>2, SelectorForms DEF ResolveSelection
<1>3. CASE name # NoFlag /\ name \notin DOMAIN ConfigDevices
  BY <1>1, <1>3, SelectorForms DEF ResolveSelection
<1>4. CASE name # NoFlag /\ name \in DOMAIN ConfigDevices
  <2> DEFINE dev == ConfigDevices[name]
  <2>1. /\ dev.location \in {NoSelector} \union {AtLocation(q) : q \in Places}
        /\ dev.serial \in Selectors /\ dev.serial # Anyone
    BY <1>4, CommandLineAssumption
  <2>2. s = IF dev.location = NoSelector
              THEN [selector |-> dev.serial, fallback |-> NoSelector]
              ELSE [selector |-> dev.location, fallback |-> dev.serial]
    BY <1>4 DEF ResolveSelection
  <2> HIDE DEF dev, name, s
  <2>3. CASE dev.location = NoSelector
    BY <2>1, <2>2, <2>3, SelectorForms DEF s
  <2>4. CASE dev.location # NoSelector
    BY <2>1, <2>2, <2>4, SelectorForms DEF s
  <2> QED BY <2>3, <2>4
<1> QED BY <1>2, <1>3, <1>4

---------------------------------------------------------------------------
(* The cache.                                                              *)

\* Put leaves one entry for each port, and a cache.
LEMMA PutOnce ==
  ASSUME WorldInv, NEW serial \in AllSerials, NEW q \in Places, clock < MaxSightings,
         cache' = Put(serial, q)
  PROVE  IsCache(cache)' /\ OneEntry'
<1> DEFINE key == KeyOf(serial, q)
           entry == [port |-> q, seen |-> clock + 1]
           kept == {j \in DOMAIN cache : cache[j].port # q}
<1>1. key \in Keys
  BY DEF KeyOf, Keys
<1>2. entry \in Entries
  BY CommandLineAssumption DEF Entries, WorldInv, WorldType
<1>3. cache' = [k \in kept \union {key} |-> IF k = key THEN entry ELSE cache[k]]
  BY DEF Put
<1> HIDE DEF key, entry
<1>4. \A k \in kept : cache[k] \in Entries /\ k \in Keys
  BY DEF WorldInv, WorldType, IsCache
<1>5. IsCache(cache)'
  BY <1>1, <1>2, <1>3, <1>4 DEF IsCache
<1>6. OneEntry'
  BY <1>3 DEF WorldInv, OneEntry, entry
<1> QED BY <1>5, <1>6

\* Delete leaves a cache with one entry for each port.
LEMMA DeleteOnce ==
  ASSUME WorldInv, NEW k, cache' = Delete(k)
  PROVE  IsCache(cache)' /\ OneEntry'
BY DEF WorldInv, WorldType, IsCache, OneEntry, Delete

---------------------------------------------------------------------------
(* How the attempts to open the SDWire end.                                *)

\* A command that is over knows nothing.
LEMMA EndedInv ==
  ASSUME Ended PROVE (CommandType /\ FlowInv /\ SteadyInv /\ ListInv)'
<1>1. (CommandType /\ FlowInv)'
  BY SelectorForms DEF Ended, CommandType, FlowInv, Steps, Commands, Failures
<1>2. SteadyInv'
  BY DEF Ended, SteadyInv
<1>3. ListInv'
  BY NoListInv DEF Ended
<1> QED BY <1>1, <1>2, <1>3

\* Giving up after a look that showed no steady SDWire, or in which nothing was
\* absent, is sound.
LEMMA OpenFailsInv ==
  ASSUME IInv, UNCHANGED <<bench, memory>>, pc \in {"list", "connect", "fallback"},
         NEW es \in SUBSET Failures, NEW shown, OpenFails(es, shown),
         "absent" \in es => steady \intersect shown = {}
  PROVE  IInv'
<1>1. CASE Ended
  <2>1. WorldInv'
    BY DEF IInv, bench, memory, WorldInv, WorldType, OneDevice, OneEntry, IsCache
  <2> QED BY <1>1, <2>1, EndedInv DEF IInv
<1>2. CASE /\ ~ Ended
           /\ cmd \in {"state", "target"} /\ ~revive /\ AskCache(es)
           /\ pc' = "cached" /\ trying' = selector /\ errs' = {}
           /\ Remain(shown)
           /\ UNCHANGED <<asked, revive, tried, port, got, listed>>
  <2>1. steady' = {} /\ bearers' \subseteq bearers
    BY <1>2 DEF AskCache, Remain
  <2>2. WorldInv' /\ CommandType'
    BY <1>2, <2>1 DEF IInv, bench, memory, asked, WorldInv, WorldType, OneDevice, OneEntry,
                      IsCache, CommandType, Steps
  <2>3. FlowInv' /\ SteadyInv'
    BY <1>2, <2>1, RemainInv DEF IInv, FlowInv, SteadyInv, asked
  <2>4. ListInv'
    BY <1>2, NoListInv DEF IInv, ListInv
  <2> QED BY <2>2, <2>3, <2>4 DEF IInv
<1> QED BY <1>1, <1>2 DEF OpenFails

\* So is a failed attempt to connect.
LEMMA ConnectFailsInv ==
  ASSUME IInv, UNCHANGED <<bench, memory>>, pc \in {"connect", "fallback"},
         NEW e \in Failures, NEW shown, ConnectFails(e, shown),
         e = "absent" => steady \intersect shown = {},
         fallback # NoSelector => steady \intersect shown = {}
  PROVE  IInv'
<1>1. CASE errs = {} /\ fallback # NoSelector
  <2>1. /\ pc' = "connect" /\ trying' = fallback /\ errs' = {e} /\ tried' = {}
        /\ Remain(shown)
        /\ UNCHANGED <<asked, revive, port, got, listed>>
    BY <1>1 DEF ConnectFails
  <2>2. steady' = {} /\ bearers' \subseteq bearers
    BY <1>1, <2>1 DEF Remain
  <2>3. WorldInv' /\ CommandType'
    BY <2>1, <2>2 DEF IInv, bench, memory, asked, WorldInv, WorldType, OneDevice, OneEntry,
                IsCache, CommandType, Steps, Failures
  <2>4. FlowInv' /\ SteadyInv'
    BY <1>1, <2>1, <2>2, RemainInv DEF IInv, FlowInv, SteadyInv, asked
  <2>5. ListInv'
    BY <2>1, NoListInv DEF IInv, ListInv
  <2> QED BY <2>3, <2>4, <2>5 DEF IInv
<1>2. CASE ~ (errs = {} /\ fallback # NoSelector)
  <2>1. OpenFails(errs \union {e}, shown)
    BY <1>2 DEF ConnectFails
  <2>2. errs \union {e} \in SUBSET Failures
    BY DEF IInv, CommandType
  <2>3. "absent" \in errs \union {e} => steady \intersect shown = {}
    BY DEF IInv, FlowInv
  <2> QED BY <2>1, <2>2, <2>3, OpenFailsInv
<1> QED BY <1>1, <1>2

\* Connecting to an SDWire that is on the bus, where no other has borne the name
\* all along.
LEMMA ConnectsInv ==
  ASSUME IInv, pc \in {"connect", "wait"},
         NEW d \in SDWires, Attached(d), NEW serial \in AllSerials, Connects(d, serial),
         NEW kept, Remain(kept), Live' \subseteq {d}
  PROVE  IInv'
<1>1. at[d] \in Places
  BY DEF Attached, IInv, WorldInv, WorldType
<1>2. WorldInv'
  <2>1. CASE UNCHANGED memory
    BY <2>1 DEF Connects, IInv, bench, memory, WorldInv, WorldType, OneDevice, OneEntry, IsCache
  <2>2. CASE clock < MaxSightings /\ clock' = clock + 1 /\ cache' = Put(serial, at[d])
    <3>1. IsCache(cache)' /\ OneEntry'
      BY <1>1, <2>2, PutOnce DEF IInv
    <3>2. clock' \in 0..MaxSightings
      BY <2>2, CommandLineAssumption DEF IInv, WorldInv, WorldType
    <3> QED BY <3>1, <3>2 DEF Connects, IInv, bench, WorldInv, WorldType, OneDevice
  <2> QED BY <2>1, <2>2 DEF Connects
<1>3. CommandType'
  BY <1>1 DEF Connects, Remain, IInv, CommandType, asked, Steps
<1>4. FlowInv'
  BY <1>1 DEF Connects, IInv, FlowInv, asked
<1>5. SteadyInv'
  <2>1. UNCHANGED <<bench, fallback, errs>> /\ pc' = "use" /\ got' = d
    BY DEF Connects, asked
  <2> QED BY <2>1, RemainInv DEF IInv, SteadyInv, Remain
<1>6. ListInv'
  BY NoListInv DEF Connects, IInv, ListInv
<1> QED BY <1>2, <1>3, <1>4, <1>5, <1>6 DEF IInv

---------------------------------------------------------------------------
(* The steps.                                                              *)

LEMMA InitInv == ASSUME Init PROVE IInv
<1>1. WorldInv
  BY CommandLineAssumption DEF Init, WorldInv, WorldType, OneDevice, OneEntry, IsCache
<1>2. CommandType /\ FlowInv
  BY SelectorForms DEF Init, CommandType, FlowInv, Steps, Commands
<1>3. SteadyInv /\ ListInv
  BY DEF Init, SteadyInv, ListInv
<1> QED BY <1>1, <1>2, <1>3 DEF IInv

\* A new command: the names it starts with, and the SDWires that bear them.
LEMMA StartInv == ASSUME IInv, Start PROVE IInv'
<1> PICK c \in Commands \ {"list"}, flag \in Flags, default \in Defaults :
      LET s == ResolveSelection(flag, default) IN
      /\ cmd' = c
      /\ selector' = s.selector
      /\ fallback' = s.fallback
      /\ trying' = s.selector
      /\ revive' = MayRevive(c)
      /\ pc' = Opening(s.selector)
      /\ steady' = Matches(s.selector, SDWires)
      /\ bearers' = Matches(s.fallback, SDWires)
  BY DEF Start
<1> DEFINE s == ResolveSelection(flag, default)
<1>1. /\ s.selector \in Selectors /\ s.fallback \in Selectors /\ s.fallback # Anyone
      /\ s.fallback # NoSelector => \E q \in Places : s.selector = AtLocation(q)
  BY Resolves
<1> HIDE DEF s
<1>2. pc = "idle" /\ UNCHANGED <<bench, memory, errs, tried, port, got, listed>>
  BY DEF Start
<1>3. /\ cmd' = c /\ selector' = s.selector /\ fallback' = s.fallback
      /\ trying' = s.selector /\ revive' = MayRevive(c)
      /\ pc' = Opening(s.selector) /\ steady' = Matches(s.selector, SDWires)
      /\ bearers' = Matches(s.fallback, SDWires)
  BY DEF s
<1>4. WorldInv'
  BY <1>2 DEF IInv, bench, memory, WorldInv, WorldType, OneDevice, OneEntry, IsCache
<1>5. CommandType'
  BY <1>1, <1>2, <1>3 DEF IInv, CommandType, Steps, Opening, MayRevive, Matches
<1>6. FlowInv'
  BY <1>1, <1>2, <1>3, SelectorForms DEF IInv, FlowInv, Opening, MayRevive
<1>7. SteadyInv'
  <2>1. \A d \in steady' : Attached(d)' /\ Names(s.selector, Serial[d], at[d])'
    BY <1>2, <1>3 DEF Matches, Attached, SerialRead, bench
  <2>2. \A d \in bearers' : Attached(d)' /\ Names(s.fallback, Serial[d], at[d])'
    BY <1>2, <1>3 DEF Matches, Attached, SerialRead, bench
  <2>3. errs' = {}
    BY <1>2 DEF IInv, FlowInv
  <2> QED BY <1>3, <2>1, <2>2, <2>3 DEF SteadyInv, Opening
<1>8. ListInv'
  BY <1>2, NoListInv DEF IInv, ListInv
<1> QED BY <1>4, <1>5, <1>6, <1>7, <1>8 DEF IInv

\* Listing what is on the bus.
LEMMA LookInv ==
  ASSUME IInv, ListFindsOne \/ ListFindsNone \/ ListFindsMany PROVE IInv'
<1>1. CASE ListFindsOne
  <2> PICK readable \in SUBSET SDWires, d \in SDWires :
        /\ Matches(Anyone, readable) = {d}
        /\ trying' = ByIdentity(SerialRead(d, readable), at[d].path)
        /\ Remain(readable)
    BY <1>1 DEF ListFindsOne
  <2>1. pc = "list" /\ pc' = "connect"
        /\ UNCHANGED <<bench, memory, asked, errs, revive, tried, port, got, listed>>
    BY <1>1 DEF ListFindsOne
  <2>2. Attached(d) /\ at[d] \in Places
    BY AnyoneMatches DEF Attached, IInv, WorldInv, WorldType
  <2>3. SerialRead(d, readable) \in AllSerials
    BY CommandLineAssumption DEF SerialRead, AllSerials
  <2>4. \A e \in steady' : e = d /\ SerialRead(e, readable) = Serial[e] /\ Attached(e)
    BY AnyoneMatches DEF IInv, SteadyInv, SerialRead, CommandType, Remain
  <2>5. /\ trying' \in Selectors /\ trying' # Anyone
        /\ \A e \in steady' : Names(trying', Serial[e], at[e])
    BY <2>2, <2>3, <2>4, SelectorForms
  <2>6. WorldInv'
    BY <2>1 DEF IInv, bench, memory, WorldInv, WorldType, OneDevice, OneEntry, IsCache
  <2>7. CommandType'
    BY <2>1, <2>5 DEF IInv, CommandType, asked, Steps, Remain
  <2>8. errs = {} /\ fallback = NoSelector
    BY <2>1, SelectorForms DEF IInv, FlowInv
  <2>9. FlowInv'
    BY <2>1, <2>8 DEF IInv, FlowInv, asked
  <2>10. SteadyInv'
    BY <2>1, <2>4, <2>5, <2>8, RemainInv DEF IInv, SteadyInv, bench, asked
  <2>11. ListInv'
    BY <2>1, NoListInv DEF IInv, ListInv
  <2> QED BY <2>6, <2>7, <2>9, <2>10, <2>11 DEF IInv
<1>2. CASE ListFindsNone
  <2>1. steady = {}
    BY <1>2, AnyoneMatches DEF ListFindsNone, IInv, SteadyInv, CommandType
  <2>2. CASE revive
    <3>1. pc = "list" /\ pc' = "connect"
          /\ UNCHANGED <<bench, memory, asked, working, history>>
      BY <1>2, <2>2 DEF ListFindsNone
    <3>2. WorldInv' /\ CommandType'
      BY <3>1 DEF IInv, bench, memory, asked, working, history, WorldInv, WorldType, OneDevice,
                  OneEntry, IsCache, CommandType, Steps
    <3>3. FlowInv' /\ SteadyInv'
      BY <2>1, <2>2, <3>1 DEF IInv, FlowInv, SteadyInv, asked, working, history, bench, Attached
    <3>4. ListInv'
      BY <3>1, NoListInv DEF IInv, ListInv, working
    <3> QED BY <3>2, <3>3, <3>4 DEF IInv
  <2>3. CASE ~revive
    BY <1>2, <2>1, <2>3, OpenFailsInv DEF ListFindsNone, Failures
  <2> QED BY <2>2, <2>3
<1>3. CASE ListFindsMany
  <2>1. /\ pc = "list" /\ OpenFails({"ambiguous"}, SDWires) /\ UNCHANGED <<bench, memory>>
        /\ {"ambiguous"} \in SUBSET Failures /\ "absent" \notin {"ambiguous"}
    BY <1>3 DEF ListFindsMany, Failures
  <2> QED BY <2>1, OpenFailsInv
<1> QED BY <1>1, <1>2, <1>3

\* Looking for the name on the bus.
LEMMA ConnectInv ==
  ASSUME IInv,
         ConnectFinds \/ ConnectFindsNone \/ ConnectFindsMany \/ EnumerationFails
  PROVE  IInv'
<1>1. CASE ConnectFinds
  <2> PICK readable \in SUBSET SDWires, d \in SDWires :
        /\ Picked(trying, Matches(trying, readable), d)
        /\ Connects(d, SerialRead(d, readable))
        /\ Remain(readable)
    BY <1>1 DEF ConnectFinds
  <2>1. pc = "connect"
    BY <1>1 DEF ConnectFinds
  <2>2. Attached(d)
    BY DEF Picked, Matches
  <2>3. SerialRead(d, readable) \in AllSerials
    BY CommandLineAssumption DEF SerialRead, AllSerials
  <2>4. Live' \subseteq {d}
    <3>1. Live' \subseteq Live \intersect readable
      BY DEF Live, Remain, Connects
    <3>2. CASE trying = Anyone
      BY <2>1, <3>1, <3>2 DEF IInv, SteadyInv, FlowInv, Live
    <3>3. CASE Matches(trying, readable) = {d}
      BY <2>1, <3>1, <3>3, LiveMatches DEF IInv
    <3> QED BY <3>2, <3>3 DEF Picked
  <2> QED BY <2>1, <2>2, <2>3, <2>4, ConnectsInv
<1>2. CASE ConnectFindsNone
  <2> PICK readable \in SUBSET SDWires :
        /\ Matches(trying, readable) = {}
        /\ IF revive
             THEN /\ pc' = "fallback" /\ tried' = {}
                  /\ Remain(readable)
                  /\ UNCHANGED <<asked, trying, errs, revive, port, got, listed>>
             ELSE ConnectFails("absent", readable)
    BY <1>2 DEF ConnectFindsNone
  <2>1. pc = "connect" /\ UNCHANGED <<bench, memory>>
    BY <1>2 DEF ConnectFindsNone
  <2>2. Live \intersect readable = {} /\ steady \intersect readable = {}
    BY <2>1, LiveMatches DEF IInv, SteadyInv, Live
  <2>3. CASE revive
    <3>1. WorldInv' /\ CommandType'
      BY <2>1, <2>3 DEF IInv, bench, memory, asked, WorldInv, WorldType, OneDevice, OneEntry,
                        IsCache, CommandType, Steps, Remain
    <3>2. FlowInv'
      BY <2>1, <2>3 DEF IInv, FlowInv, asked
    <3>3. SteadyInv'
      <4>1. Live' = {} /\ steady' \subseteq steady /\ bearers' \subseteq bearers
        BY <2>2, <2>3 DEF Live, Remain
      <4> QED BY <2>1, <2>3, <4>1, RemainInv DEF IInv, SteadyInv, asked
    <3>4. ListInv'
      BY <2>1, <2>3, NoListInv DEF IInv, ListInv
    <3> QED BY <3>1, <3>2, <3>3, <3>4 DEF IInv
  <2>4. CASE ~revive
    BY <2>1, <2>2, <2>4, ConnectFailsInv DEF Failures
  <2> QED BY <2>3, <2>4
<1>3. CASE ConnectFindsMany
  <2> PICK readable \in SUBSET SDWires :
        /\ \E d, e \in Matches(trying, readable) : d # e
        /\ ConnectFails("ambiguous", readable)
    BY <1>3 DEF ConnectFindsMany
  <2>1. pc = "connect" /\ UNCHANGED <<bench, memory>>
    BY <1>3 DEF ConnectFindsMany
  <2>2. fallback # NoSelector => steady = {}
    <3> SUFFICES ASSUME fallback # NoSelector, steady # {} PROVE FALSE
      OBVIOUS
    <3>1. PICK q \in Places : trying = AtLocation(q)
      BY <2>1 DEF IInv, SteadyInv, FlowInv
    <3> QED BY <3>1, LocationUnique DEF IInv
  <2> QED BY <2>1, <2>2, ConnectFailsInv DEF Failures
<1>4. CASE EnumerationFails
  <2>1. pc \in {"list", "connect"} /\ UNCHANGED <<bench, memory>>
    BY <1>4 DEF EnumerationFails
  <2>2. CASE pc = "list"
    <3>1. OpenFails({"failed"}, {})
      BY <1>4, <2>2 DEF EnumerationFails
    <3> QED BY <2>1, <3>1, OpenFailsInv DEF Failures
  <2>3. CASE pc = "connect"
    <3>1. ConnectFails("failed", {})
      BY <1>4, <2>3 DEF EnumerationFails
    <3> QED BY <2>1, <2>3, <3>1, ConnectFailsInv DEF Failures
  <2> QED BY <2>1, <2>2, <2>3
<1> QED BY <1>1, <1>2, <1>3, <1>4

\* The fallback to the remembered ports.  No SDWire has borne the name tried all
\* along, and the command is one that may revive.
LEMMA FallbackInv ==
  ASSUME IInv,
         HubUnusable \/ PowerOn \/ PowerOnFails \/ Reappears \/ NoReader \/ NothingRevived
  PROVE  IInv'
<1>1. pc \in {"fallback", "wait"}
  BY DEF HubUnusable, PowerOn, PowerOnFails, Reappears, NoReader, NothingRevived, NextEntry
<1>2. Live = {} /\ steady = {} /\ revive /\ listed = {}
  BY <1>1 DEF IInv, SteadyInv, FlowInv, ListInv, Live
<1>3. \A k \in DOMAIN cache : k \in Keys /\ cache[k].port \in Places
  BY DEF IInv, WorldInv, WorldType, IsCache, Entries
<1>4. CASE HubUnusable
  <2> PICK k \in DOMAIN cache : NextEntry(k) /\ cache' \in {cache, Delete(k)}
    BY <1>4 DEF HubUnusable
  <2>1. UNCHANGED <<bench, clock, pc, asked, trying, errs, revive, port, got, listed, history>>
    BY <1>4 DEF HubUnusable
  <2>2. IsCache(cache)' /\ OneEntry'
    BY DeleteOnce DEF IInv, WorldInv, WorldType, IsCache, OneEntry
  <2>3. WorldInv' /\ CommandType'
    BY <1>3, <2>1, <2>2 DEF IInv, bench, asked, history, WorldInv, WorldType, OneDevice,
                            CommandType, NextEntry
  <2>4. FlowInv' /\ SteadyInv'
    BY <1>1, <1>2, <2>1 DEF IInv, FlowInv, SteadyInv, asked, history, bench, Attached, Live
  <2>5. ListInv'
    BY <1>2, <2>1, NoListInv
  <2> QED BY <2>3, <2>4, <2>5 DEF IInv
<1>5. ASSUME NEW k \in DOMAIN cache, NextEntry(k), PowerOn \/ PowerOnFails,
             up' \subseteq Places, crashed' \subseteq crashed, port' \in Places \union {Nowhere},
             NEW kept, Remain(kept), \A d \in kept \ crashed : at[d] \in up => at[d] \in up'
      PROVE  IInv'
  <2>1. /\ UNCHANGED <<at, events, memory, asked, trying, errs, revive, got, listed>>
        /\ pc' \in {"fallback", "wait"} /\ port' \in Places \union {Nowhere}
        /\ steady' = {} /\ bearers' \subseteq bearers \intersect kept
    BY <1>2, <1>5 DEF PowerOn, PowerOnFails, Remain, NextEntry
  <2>2. WorldInv'
    BY <1>5, <2>1 DEF IInv, memory, WorldInv, WorldType, OneDevice, OneEntry, IsCache
  <2>3. CommandType'
    BY <1>3, <1>5, <2>1 DEF IInv, asked, CommandType, NextEntry, Steps
  <2>4. FlowInv'
    BY <1>2, <2>1 DEF IInv, FlowInv, asked
  <2>5. SteadyInv'
    <3>1. \A d \in bearers' : Attached(d)'
      BY <1>5, <2>1 DEF IInv, SteadyInv, Attached
    <3>2. Live' = {}
      BY <1>2, <2>1 DEF Live
    <3> QED BY <1>1, <2>1, <3>1, <3>2 DEF IInv, SteadyInv, asked
  <2>6. ListInv'
    BY <1>2, <2>1, NoListInv
  <2> QED BY <2>2, <2>3, <2>4, <2>5, <2>6 DEF IInv
<1>6. CASE PowerOn
  <2> PICK k \in DOMAIN cache :
        /\ NextEntry(k)
        /\ port' = cache[k].port
        /\ up' = up \union {port'}
        /\ crashed' = {r \in crashed : at[r] # port'}
        /\ Remain({d \in SDWires : at[d] # port'})
    BY <1>6 DEF PowerOn
  <2>1. port' \in Places /\ up' \subseteq Places /\ crashed' \subseteq crashed
    BY <1>3 DEF IInv, WorldInv, WorldType
  <2> QED BY <1>5, <1>6, <2>1
<1>7. CASE PowerOnFails
  <2> PICK k \in DOMAIN cache : NextEntry(k) /\ up' \in {up, up \ {cache[k].port}}
    BY <1>7 DEF PowerOnFails
  <2>1. /\ crashed' = {r \in crashed : at[r] \in up'}
        /\ Remain({d \in SDWires : at[d] \in up'})
        /\ port' = port
    BY <1>7 DEF PowerOnFails
  <2>2. /\ up' \subseteq Places /\ crashed' \subseteq crashed
        /\ port' \in Places \union {Nowhere}
    BY <2>1 DEF IInv, WorldInv, WorldType, CommandType
  <2> QED BY <1>5, <1>7, <2>1, <2>2
<1>8. CASE Reappears
  <2> PICK d \in SDWire3s, serial \in AllSerials : Attached(d) /\ Connects(d, serial)
    BY <1>8 DEF Reappears
  <2>1. pc = "wait" /\ UNCHANGED history /\ d \in SDWires
    BY <1>8, CommandLineAssumption DEF Reappears
  <2>2. Remain(SDWires) /\ Live' = {}
    BY <1>2, <2>1 DEF Remain, history, Live, Connects, IInv, CommandType
  <2> QED BY <2>1, <2>2, ConnectsInv
<1>9. CASE NoReader
  <2>1. pc' = "fallback" /\ UNCHANGED <<bench, memory, asked, working, history>>
    BY <1>9 DEF NoReader
  <2>2. WorldInv' /\ CommandType'
    BY <2>1 DEF IInv, bench, memory, asked, working, history, WorldInv, WorldType, OneDevice,
                OneEntry, IsCache, CommandType, Steps
  <2>3. FlowInv' /\ SteadyInv'
    BY <1>1, <1>2, <2>1 DEF IInv, FlowInv, SteadyInv, asked, working, history, bench, Attached,
                            Live
  <2>4. ListInv'
    BY <1>2, <2>1, NoListInv DEF working
  <2> QED BY <2>2, <2>3, <2>4 DEF IInv
<1>10. CASE NothingRevived
  <2>1. /\ pc = "fallback" /\ ConnectFails("absent", SDWires) /\ UNCHANGED <<bench, memory>>
        /\ steady \intersect SDWires = {}
    BY <1>2, <1>10 DEF NothingRevived
  <2> QED BY <2>1, ConnectFailsInv DEF Failures
<1> QED BY <1>4, <1>6, <1>7, <1>8, <1>9, <1>10

\* Opening once more, with no SDWire steady.
LEMMA ReopensInv ==
  ASSUME IInv, pc = "cached", cmd = "target", Reopens, UNCHANGED <<bench, memory>>
  PROVE  IInv'
<1>1. steady' = {}
  BY DEF IInv, SteadyInv, Reopens, history
<1>2. WorldInv' /\ CommandType'
  BY DEF Reopens, Opening, IInv, bench, memory, asked, history, WorldInv, WorldType, OneDevice,
         OneEntry, IsCache, CommandType, Steps
<1>3. FlowInv' /\ SteadyInv'
  BY <1>1 DEF Reopens, Opening, IInv, FlowInv, SteadyInv, asked, history, bench, Attached
<1>4. ListInv'
  BY NoListInv DEF Reopens, IInv, ListInv
<1> QED BY <1>2, <1>3, <1>4 DEF IInv

\* Looking the name up in the cache.
LEMMA CachedInv ==
  ASSUME IInv, CachedState \/ CachedStateFails PROVE IInv'
<1>1. pc = "cached" /\ steady = {} /\ UNCHANGED <<bench, memory>>
  BY DEF CachedState, CachedStateFails, IInv, SteadyInv
<1>2. ASSUME Ended PROVE IInv'
  <2>1. WorldInv'
    BY <1>1 DEF IInv, bench, memory, WorldInv, WorldType, OneDevice, OneEntry, IsCache
  <2> QED BY <1>2, <2>1, EndedInv DEF IInv
<1>3. CASE CachedState
  BY <1>1, <1>2, <1>3, ReopensInv DEF CachedState
<1>4. CASE CachedStateFails
  <2>1. CASE errs = {} /\ fallback # NoSelector
    <3>1. /\ trying' = fallback /\ errs' = {"failed"}
          /\ UNCHANGED <<pc, asked, revive, tried, port, got, listed, history>>
      BY <1>4, <2>1 DEF CachedStateFails
    <3>2. WorldInv' /\ CommandType'
      BY <1>1, <3>1 DEF IInv, bench, memory, asked, history, WorldInv, WorldType, OneDevice,
                        OneEntry, IsCache, CommandType, Failures
    <3>3. FlowInv' /\ SteadyInv'
      BY <1>1, <2>1, <3>1 DEF IInv, FlowInv, SteadyInv, asked, history, bench, Attached
    <3>4. ListInv'
      BY <1>1, <3>1, NoListInv DEF IInv, ListInv
    <3> QED BY <3>2, <3>3, <3>4 DEF IInv
  <2>2. CASE ~ (errs = {} /\ fallback # NoSelector) /\ cmd = "target"
    BY <1>1, <1>4, <2>2, ReopensInv DEF CachedStateFails
  <2>3. CASE ~ (errs = {} /\ fallback # NoSelector) /\ cmd # "target"
    BY <1>2, <1>4, <2>3 DEF CachedStateFails
  <2> QED BY <2>1, <2>2, <2>3
<1> QED BY <1>3, <1>4

\* Listing: a socket seen on the bus is skipped, and an entry is read once.
LEMMA ListsInv == ASSUME IInv, List PROVE IInv'
<1>1. CASE StartList
  <2>1. /\ pc = "idle" /\ cmd' = "list" /\ pc' = "enumerate"
        /\ UNCHANGED <<bench, memory, selector, fallback, working, history>>
    BY <1>1 DEF StartList
  <2>2. WorldInv' /\ CommandType'
    BY <2>1 DEF IInv, bench, memory, working, history, WorldInv, WorldType, OneDevice, OneEntry,
                IsCache, CommandType, Steps, Commands
  <2>3. FlowInv' /\ SteadyInv'
    BY <2>1 DEF IInv, FlowInv, SteadyInv, working, history, bench, Attached
  <2>4. ListInv'
    BY <2>1, NoListInv DEF IInv, ListInv, working
  <2> QED BY <2>2, <2>3, <2>4 DEF IInv
<1>2. CASE ListAttached
  <2> PICK readable \in SUBSET SDWires :
        listed' = {[at |-> at[d], serial |-> SerialRead(d, readable), attached |-> TRUE] :
                     d \in Matches(Anyone, readable)}
    BY <1>2 DEF ListAttached
  <2>1. /\ pc = "enumerate" /\ pc' = "ports"
        /\ UNCHANGED <<bench, memory, asked, trying, errs, revive, tried, port, got, history>>
    BY <1>2 DEF ListAttached
  <2>2. WorldInv' /\ CommandType'
    BY <2>1 DEF IInv, bench, memory, asked, history, WorldInv, WorldType, OneDevice, OneEntry,
                IsCache, CommandType, Steps
  <2>3. FlowInv' /\ SteadyInv'
    BY <2>1 DEF IInv, FlowInv, SteadyInv, asked, history, bench, Attached
  <2>4. \A d \in Matches(Anyone, readable) :
          /\ d \in Devices /\ at[d] \in Places /\ SerialRead(d, readable) \in AllSerials
    BY AnyoneMatches, CommandLineAssumption
       DEF Attached, Devices, SerialRead, AllSerials, IInv, WorldInv, WorldType
  <2>5. listed' \subseteq [at : Places, serial : AllSerials, attached : BOOLEAN]
    <3> SUFFICES ASSUME NEW d \in Matches(Anyone, readable)
                 PROVE  [at |-> at[d], serial |-> SerialRead(d, readable), attached |-> TRUE]
                          \in [at : Places, serial : AllSerials, attached : BOOLEAN]
      OBVIOUS
    <3> QED BY <2>4
  <2>6. \A r, s \in listed' : r.at = s.at => r = s
    <3>1. ASSUME NEW d \in Matches(Anyone, readable), NEW e \in Matches(Anyone, readable),
                 at[d] = at[e]
          PROVE  d = e
      BY <2>4, <3>1, CommandLineAssumption DEF IInv, WorldInv, OneDevice
    <3>2. SUFFICES ASSUME NEW r \in listed', NEW s \in listed', r.at = s.at PROVE r = s
      OBVIOUS
    <3>3. PICK d \in Matches(Anyone, readable) :
            r = [at |-> at[d], serial |-> SerialRead(d, readable), attached |-> TRUE]
      OBVIOUS
    <3>4. PICK e \in Matches(Anyone, readable) :
            s = [at |-> at[e], serial |-> SerialRead(e, readable), attached |-> TRUE]
      OBVIOUS
    <3>5. r.at = at[d] /\ s.at = at[e]
      BY <3>3, <3>4
    <3> QED BY <3>1, <3>2, <3>3, <3>4, <3>5
  <2>7. \A r \in listed' : r.attached
    OBVIOUS
  <2> QED BY <2>1, <2>2, <2>3, <2>5, <2>6, <2>7 DEF IInv, ListInv
<1>3. ASSUME NEW k \in DOMAIN cache, ReadPort(k) PROVE IInv'
  <2> DEFINE q == cache[k].port
             row == [at |-> q, serial |-> k[1], attached |-> FALSE]
  <2>1. /\ pc = "ports" /\ k \notin tried /\ tried' = tried \union {k}
        /\ UNCHANGED <<bench, memory, pc, asked, trying, errs, revive, port, got, history>>
    BY <1>3 DEF ReadPort
  <2>2. \/ UNCHANGED listed
        \/ ~Shown(q) /\ listed' = listed \union {row}
    BY <1>3 DEF ReadPort
  <2>3. k \in Keys /\ k[1] \in AllSerials /\ q \in Places
    BY DEF IInv, WorldInv, WorldType, IsCache, Entries, Keys
  <2>4. row \in [at : Places, serial : AllSerials, attached : BOOLEAN]
    BY <2>3
  <2>5. row.at = q /\ row.attached = FALSE
    OBVIOUS
  <2> HIDE DEF row
  <2>6. WorldInv' /\ CommandType'
    BY <2>1, <2>3 DEF IInv, bench, memory, asked, history, WorldInv, WorldType, OneDevice,
                      OneEntry, IsCache, CommandType
  <2>7. FlowInv' /\ SteadyInv'
    BY <2>1 DEF IInv, FlowInv, SteadyInv, asked, history, bench, Attached
  <2>8. ASSUME ~Shown(q), NEW r \in listed PROVE r.at # q
    <3>1. CASE r.attached
      BY <2>8, <3>1 DEF Shown, SameLocation
    <3>2. CASE \E j \in DOMAIN cache \intersect tried : r.at = cache[j].port
      BY <2>1, <3>2 DEF IInv, WorldInv, OneEntry
    <3> QED BY <3>1, <3>2 DEF IInv, ListInv
  <2>9. cache' = cache /\ tried' = tried \union {k}
    BY <2>1 DEF memory
  <2>10. ListInv'
    <3>1. CASE UNCHANGED listed
      BY <2>1, <2>9, <3>1 DEF IInv, ListInv
    <3>2. CASE ~Shown(q) /\ listed' = listed \union {row}
      <4>1. \A r, s \in listed' : r.at = s.at => r = s
        BY <2>5, <2>8, <3>2 DEF IInv, ListInv
      <4>2. \A r \in listed' : r.attached \/
              \E j \in DOMAIN cache' \intersect tried' : r.at = cache'[j].port
        BY <2>5, <2>9, <3>2 DEF IInv, ListInv
      <4> QED BY <2>1, <2>4, <3>2, <4>1, <4>2 DEF IInv, ListInv
    <3> QED BY <2>2, <3>1, <3>2
  <2> QED BY <2>6, <2>7, <2>10 DEF IInv
<1>4. CASE PrintList
  <2>1. WorldInv'
    BY <1>4 DEF PrintList, IInv, bench, memory, WorldInv, WorldType, OneDevice, OneEntry, IsCache
  <2> QED BY <1>4, <2>1, EndedInv DEF PrintList, IInv
<1> QED BY <1>1, <1>2, <1>3, <1>4 DEF List

\* The command's last step: what it does to its port is done to a port.
LEMMA LastInv ==
  ASSUME IInv, Use \/ Killed PROVE IInv'
<1>1. Ended
  BY DEF Use, ReadMode, SetModeTarget, SetModeHost, Killed
<1>2. UNCHANGED <<at, events, memory>>
  BY DEF Use, ReadMode, SetModeTarget, SetModeHost, Killed, bench
<1>3. up' \subseteq Places /\ crashed' \subseteq SDWires
  <2>1. CASE ReadMode \/ Killed
    BY <2>1 DEF ReadMode, Killed, bench, IInv, WorldInv, WorldType
  <2>2. CASE SetModeTarget
    BY <2>2 DEF SetModeTarget, IInv, WorldInv, WorldType
  <2>3. CASE SetModeHost
    <3>1. port \in Places
      BY <2>3 DEF SetModeHost, IInv, FlowInv
    <3> QED BY <2>3, <3>1 DEF SetModeHost, IInv, WorldInv, WorldType
  <2> QED BY <2>1, <2>2, <2>3 DEF Use
<1>4. WorldInv'
  BY <1>2, <1>3 DEF IInv, memory, WorldInv, WorldType, OneDevice, OneEntry, IsCache
<1> QED BY <1>1, <1>4, EndedInv DEF IInv

\* What the bench keeps of what the command relies on.
BenchKept ==
  /\ at' \in [Devices -> Places \union {Nowhere}]
  /\ up' \subseteq Places
  /\ crashed' \subseteq SDWires
  /\ OneDevice'
  /\ \A d \in steady' \union bearers' : at'[d] = at[d] /\ Attached(d)'

\* What happens to the bench takes an SDWire out of the histories.
LEMMA BenchInv == ASSUME IInv, Bench PROVE IInv'
<1>1. UNCHANGED <<memory, pc, asked, working>> /\ events' \in 0..MaxEvents
  <2>1. UNCHANGED <<memory, pc, asked, working>> /\ Happens
    BY DEF Bench, Move, Crash, PortSwitched
  <2> QED BY <2>1, CommandLineAssumption DEF Happens, IInv, WorldInv, WorldType
<1>2. steady' \subseteq steady /\ bearers' \subseteq bearers
  BY DEF Bench, Move, Crash, PortSwitched, Remain
<1>3. BenchKept
  <2>0. IInv /\ SDWires \subseteq Devices
    BY DEF Devices
  <2>1. ASSUME NEW d \in Devices, Move(d) PROVE BenchKept
    <3>1. PICK q \in (Places \ {at[e] : e \in Devices}) \union {Nowhere} :
            at' = [at EXCEPT ![d] = q]
      BY <2>1 DEF Move
    <3>2. crashed' = crashed \ {d} /\ Remain(SDWires \ {d}) /\ UNCHANGED up
      BY <2>1 DEF Move
    <3>3. OneDevice'
      BY <3>1 DEF IInv, WorldInv, WorldType, OneDevice
    <3>4. \A e \in steady' \union bearers' : at'[e] = at[e] /\ Attached(e)'
      BY <2>0, <3>1, <3>2 DEF IInv, WorldInv, WorldType, CommandType, SteadyInv, Attached, Remain
    <3> QED BY <3>1, <3>2, <3>3, <3>4 DEF BenchKept, IInv, WorldInv, WorldType
  <2>2. ASSUME NEW d \in SDWires, Crash(d) PROVE BenchKept
    BY <2>2 DEF BenchKept, Crash, IInv, WorldInv, WorldType, OneDevice, CommandType, SteadyInv,
                Attached, Remain
  <2>3. ASSUME NEW q \in Places, PortSwitched(q) PROVE BenchKept
    BY <2>3 DEF BenchKept, PortSwitched, IInv, WorldInv, WorldType, OneDevice, CommandType,
                SteadyInv, Attached, Remain
  <2> QED BY <2>1, <2>2, <2>3 DEF Bench
<1>4. WorldInv'
  BY <1>1, <1>3 DEF BenchKept, IInv, memory, WorldInv, WorldType, OneEntry, IsCache
<1>5. CommandType'
  BY <1>1, <1>2 DEF IInv, CommandType, asked, working
<1>6. FlowInv' /\ SteadyInv'
  BY <1>1, <1>2, <1>3 DEF BenchKept, IInv, FlowInv, SteadyInv, Live, asked, working
<1>7. ListInv'
  BY <1>1 DEF IInv, ListInv, memory, working
<1> QED BY <1>4, <1>5, <1>6, <1>7 DEF IInv

\* A step in which nothing changes.
LEMMA StutterInv == ASSUME IInv, UNCHANGED vars PROVE IInv'
<1>1. WorldInv' /\ CommandType'
  BY DEF IInv, vars, bench, memory, asked, working, history, WorldInv, WorldType, OneDevice,
         OneEntry, IsCache, CommandType
<1>2. FlowInv' /\ SteadyInv'
  BY DEF IInv, vars, bench, memory, asked, working, history, FlowInv, SteadyInv, Live, Attached
<1>3. ListInv'
  BY DEF IInv, vars, memory, working, ListInv
<1> QED BY <1>1, <1>2, <1>3 DEF IInv

LEMMA StepInv == ASSUME IInv, [Next]_vars PROVE IInv'
<1>1. CASE Start BY <1>1, StartInv
<1>2. CASE Find
  BY <1>2, LookInv, ConnectInv, FallbackInv, CachedInv DEF Find
<1>6. CASE List BY <1>6, ListsInv
<1>3. CASE Use \/ Killed BY <1>3, LastInv
<1>4. CASE Bench BY <1>4, BenchInv
<1>5. CASE UNCHANGED vars BY <1>5, StutterInv
<1> QED BY <1>1, <1>2, <1>3, <1>4, <1>5, <1>6 DEF Next

---------------------------------------------------------------------------
(* The theorems.                                                           *)

\* The inductive invariant holds of every behaviour.
LEMMA Invariant == Spec => []IInv
<1>1. Init => IInv BY InitInv
<1>2. IInv /\ [Next]_vars => IInv' BY StepInv
<1> QED BY <1>1, <1>2, PTL DEF Spec

\* Every variable keeps its type, and no sequence of commands and of changes to
\* the bench builds a cache that Put could not.
THEOREM TypeCorrect == Spec => []TypeOK
<1>1. IInv => TypeOK
  BY DEF IInv, WorldInv, WorldType, CommandType, ListInv, TypeOK
<1> QED BY <1>1, Invariant, PTL

\* An SDWire that has borne the name all along is the one used, and where two
\* have, neither is; of a config device's names, the one by which it is opened.
THEOREM NamedIsUsed == Spec => []UsesTheNamed
<1>1. IInv => UsesTheNamed
  BY DEF IInv, SteadyInv, Live, UsesTheNamed
<1> QED BY <1>1, Invariant, PTL

\* No remembered port is powered for a name that is tried while an SDWire on the
\* bus bears it, nor looked at while one bears the first name given.
THEOREM LiveFirst == Spec => []LiveBeforeRemembered
<1>1. IInv => LiveBeforeRemembered
  BY DEF IInv, SteadyInv, LiveBeforeRemembered
<1> QED BY <1>1, Invariant, PTL

\* `state` and `list` switch no port and revive no reader.
THEOREM LooksOnly == Spec => StateLooksOnly
<1>1. ASSUME IInv, Next, pc # "idle", cmd \in {"state", "list"}, ~Bench
      PROVE  UNCHANGED <<up, crashed>>
  <2>1. ~Start
    BY <1>1 DEF Start
  <2>2. pc \notin {"fallback", "wait"}
    BY <1>1 DEF IInv, FlowInv
  <2>3. CASE Find
    BY <2>2, <2>3 DEF Find, ListFindsOne, ListFindsNone, ListFindsMany, ConnectFinds,
       ConnectFindsNone, ConnectFindsMany, EnumerationFails, HubUnusable, PowerOn, PowerOnFails,
       Reappears, NoReader, NothingRevived, CachedState, CachedStateFails, NextEntry, Connects,
       bench
  <2>4. CASE Use \/ Killed
    BY <1>1, <2>4 DEF Use, ReadMode, SetModeTarget, SetModeHost, Killed, bench
  <2>5. CASE List
    BY <2>5 DEF List, StartList, ListAttached, ReadPort, PrintList, bench
  <2> QED BY <1>1, <2>1, <2>3, <2>4, <2>5 DEF Next
<1>2. IInv /\ [Next]_vars =>
        [pc # "idle" /\ cmd \in {"state", "list"} /\ ~Bench => UNCHANGED <<up, crashed>>]_vars
  BY <1>1
<1> QED BY <1>2, Invariant, PTL DEF Spec, StateLooksOnly

\* A list shows each socket once, whatever comes and goes while it is made.
THEOREM ListsOnce == Spec => []ListedOnce
<1>1. ASSUME IInv, NEW r \in listed, NEW s \in listed, SameLocation(r.at, s.at) PROVE r = s
  <2>1. r.at \in [bus : Nat, path : Seq(Nat)] /\ s.at \in [bus : Nat, path : Seq(Nat)]
    BY <1>1, CommandLineAssumption DEF IInv, ListInv
  <2>2. r.at = s.at
    BY <1>1, <2>1 DEF SameLocation
  <2> QED BY <1>1, <2>2 DEF IInv, ListInv
<1>2. IInv => ListedOnce
  BY <1>1 DEF ListedOnce
<1> QED BY <1>2, Invariant, PTL

---------------------------------------------------------------------------
(* Progress.                                                               *)

\* What a step can do to the cache.
CacheStep ==
  \/ UNCHANGED <<cache, clock>>
  \/ clock' = clock /\ \E k \in DOMAIN cache : cache' = Delete(k)
  \/ clock' = clock + 1 /\ \E serial \in AllSerials, q \in Places : cache' = Put(serial, q)

LEMMA NextCache == ASSUME IInv, [Next]_vars PROVE CacheStep
<1> USE DEF CacheStep, memory
<1>1. CASE Start \/ Use \/ List \/ Killed \/ Bench \/ UNCHANGED vars
  BY <1>1 DEF Start, Use, ReadMode, SetModeTarget, SetModeHost, Killed, Bench, Move, Crash,
              PortSwitched, List, StartList, ListAttached, ReadPort, PrintList, vars
<1>2. CASE \/ ListFindsOne \/ ListFindsNone \/ ListFindsMany \/ ConnectFindsNone
           \/ ConnectFindsMany \/ EnumerationFails \/ PowerOn \/ PowerOnFails \/ NoReader
           \/ NothingRevived \/ CachedState \/ CachedStateFails
  BY <1>2 DEF ListFindsOne, ListFindsNone, ListFindsMany, ConnectFindsNone,
              ConnectFindsMany, EnumerationFails, PowerOn, PowerOnFails, NoReader,
              NothingRevived, CachedState, CachedStateFails
<1>3. ASSUME NEW d \in SDWires, Attached(d), NEW serial \in AllSerials, Connects(d, serial)
      PROVE  CacheStep
  <2>1. at[d] \in Places
    BY <1>3 DEF Attached, IInv, WorldInv, WorldType
  <2> QED BY <1>3, <2>1 DEF Connects
<1>4. CASE ConnectFinds
  <2>1. PICK readable \in SUBSET SDWires, d \in SDWires :
          Picked(trying, Matches(trying, readable), d) /\ Connects(d, SerialRead(d, readable))
    BY <1>4 DEF ConnectFinds
  <2>2. Attached(d) /\ SerialRead(d, readable) \in AllSerials
    BY <2>1, CommandLineAssumption DEF Picked, Matches, SerialRead, AllSerials
  <2> QED BY <1>3, <2>1, <2>2
<1>5. CASE Reappears
  BY <1>3, <1>5, CommandLineAssumption DEF Reappears
<1>6. CASE HubUnusable
  BY <1>6 DEF HubUnusable
<1> QED BY <1>1, <1>2, <1>4, <1>5, <1>6 DEF Next, Find

\* The cache is finite: entries go in one at a time.
CacheFinite == IsFiniteSet(DOMAIN cache)

LEMMA CacheStaysFinite == Spec => []CacheFinite
<1>1. Init => CacheFinite
  BY FS_EmptySet DEF Init, CacheFinite
<1>2. ASSUME IInv, CacheFinite, [Next]_vars PROVE CacheFinite'
  <2>1. CASE \E k : cache' = Delete(k)
    <3> PICK k : cache' = Delete(k)
      BY <2>1
    <3>1. DOMAIN cache' = DOMAIN cache \ {k}
      BY DEF Delete
    <3> QED BY <1>2, <3>1, FS_RemoveElement DEF CacheFinite
  <2>2. CASE \E serial, q : cache' = Put(serial, q)
    <3> PICK serial, q : cache' = Put(serial, q)
      BY <2>2
    <3> DEFINE kept == {j \in DOMAIN cache : cache[j].port # q}
    <3>1. DOMAIN cache' = kept \union {KeyOf(serial, q)}
      BY DEF Put
    <3>2. IsFiniteSet(kept)
      BY <1>2, FS_Subset DEF CacheFinite
    <3> HIDE DEF kept
    <3> QED BY <3>1, <3>2, FS_AddElement DEF CacheFinite
  <2> QED BY <1>2, <2>1, <2>2, NextCache DEF CacheFinite, CacheStep
<1> QED BY <1>1, <1>2, Invariant, PTL DEF Spec

\* Giving up brings the command to its end, or to the cache, or to its other name.
LEMMA OpenFailsCloser ==
  ASSUME pc \in {"list", "connect", "fallback"}, NEW es, NEW shown, OpenFails(es, shown)
  PROVE  Closer
BY DEF OpenFails, Ended, Closer, Opens

LEMMA ConnectFailsCloser ==
  ASSUME pc \in {"connect", "fallback"}, NEW e, NEW shown, ConnectFails(e, shown)
  PROVE  Closer
<1>1. CASE errs = {} /\ fallback # NoSelector
  BY <1>1 DEF ConnectFails, Closer, Opens, Tries
<1>2. CASE ~ (errs = {} /\ fallback # NoSelector)
  BY <1>2, OpenFailsCloser DEF ConnectFails
<1> QED BY <1>1, <1>2

\* An entry that is tried is not tried again, whether or not it stays in the cache.
LEMMA EntryUsedUp ==
  ASSUME CacheFinite, NEW k \in Remembered(trying) \ tried, tried' = tried \union {k},
         trying' = trying,
         cache' = cache \/ cache' = Delete(k)
  PROVE  PortsLeft' < PortsLeft
<1> DEFINE left == Remembered(trying) \ tried
<1>1. k \in left /\ tried' = tried \union {k}
  OBVIOUS
<1>2. (Remembered(trying) \ tried)' \subseteq left \ {k}
  BY <1>1 DEF Remembered, Delete
<1>3. IsFiniteSet(left)
  BY FS_Subset DEF CacheFinite, Remembered
<1> HIDE DEF left
<1>4. /\ IsFiniteSet(left \ {k})
      /\ Cardinality(left) \in Nat
      /\ Cardinality(left \ {k}) = Cardinality(left) - 1
  BY <1>1, <1>3, FS_RemoveElement, FS_CardinalityType
<1>5. Cardinality((Remembered(trying) \ tried)') <= Cardinality(left \ {k})
  BY <1>2, <1>4, FS_Subset
<1>6. Cardinality((Remembered(trying) \ tried)') \in Nat
  BY <1>2, <1>4, FS_Subset, FS_CardinalityType
<1> QED BY <1>4, <1>5, <1>6 DEF PortsLeft, left

\* Every step of a command that is not the bench's leaves less to be done.
LEMMA StepCloser ==
  ASSUME IInv, CacheFinite, Next, pc # "idle", events' = events
  PROVE  Closer
<1> USE DEF IInv
<1>1. CASE Use \/ Killed
  BY <1>1 DEF Use, ReadMode, SetModeTarget, SetModeHost, Killed, Ended, Closer
<1>2. CASE Bench
  <2>1. Happens
    BY <1>2 DEF Bench, Move, Crash, PortSwitched
  <2> QED BY <2>1 DEF Happens, WorldInv, WorldType
<1>3. CASE ListFindsOne
  BY <1>3 DEF ListFindsOne, Closer, Opens, Tries, Rank
<1>4. CASE ListFindsNone
  <2>1. CASE revive
    BY <1>4, <2>1 DEF ListFindsNone, Closer, Opens, Tries, Rank, working
  <2> QED BY <1>4, <2>1, OpenFailsCloser DEF ListFindsNone
<1>5. CASE ListFindsMany \/ EnumerationFails
  BY <1>5, OpenFailsCloser, ConnectFailsCloser DEF ListFindsMany, EnumerationFails
<1>6. CASE ConnectFinds
  BY <1>6 DEF ConnectFinds, Connects, Closer, Opens, Tries, Rank
<1>7. CASE ConnectFindsNone
  <2>1. CASE revive
    BY <1>7, <2>1 DEF ConnectFindsNone, Closer, Opens, Tries, Rank
  <2> QED BY <1>7, <2>1, ConnectFailsCloser DEF ConnectFindsNone
<1>8. CASE ConnectFindsMany \/ NothingRevived
  BY <1>8, ConnectFailsCloser DEF ConnectFindsMany, NothingRevived
<1>9. CASE HubUnusable \/ PowerOn \/ PowerOnFails
  <2>1. /\ pc = "fallback" /\ pc' \in {"fallback", "wait"}
        /\ UNCHANGED <<trying, errs, revive>>
    BY <1>9 DEF HubUnusable, PowerOn, PowerOnFails, NextEntry
  <2>2. \E k \in Remembered(trying) \ tried :
          tried' = tried \union {k} /\ cache' \in {cache, Delete(k)}
    BY <1>9 DEF HubUnusable, PowerOn, PowerOnFails, NextEntry, MostRecent, memory
  <2>3. PortsLeft' < PortsLeft
    BY <2>1, <2>2, EntryUsedUp
  <2> QED BY <2>1, <2>3 DEF Closer, Opens, Tries, Rank
<1>10. CASE Reappears
  BY <1>10 DEF Reappears, Connects, Closer, Opens, Tries, Rank
<1>11. CASE NoReader
  BY <1>11 DEF NoReader, Closer, Opens, Tries, Rank, PortsLeft, Remembered, memory, working
<1>12. CASE CachedState
  <2>1. CASE Ended
    BY <2>1 DEF Ended, Closer
  <2>2. CASE Reopens /\ cmd = "target"
    BY <1>12, <2>2 DEF CachedState, FlowInv, Reopens, Closer, Opens
  <2> QED BY <1>12, <2>1, <2>2 DEF CachedState
<1>13. CASE CachedStateFails
  <2>1. CASE errs = {} /\ fallback # NoSelector
    BY <1>13, <2>1 DEF CachedStateFails, FlowInv, Closer, Opens, Tries
  <2>2. CASE ~ (errs = {} /\ fallback # NoSelector) /\ Reopens
    BY <1>13, <2>2 DEF CachedStateFails, FlowInv, Reopens, Closer, Opens
  <2>3. CASE Ended
    BY <2>3 DEF Ended, Closer
  <2> QED BY <1>13, <2>1, <2>2, <2>3 DEF CachedStateFails
<1>14. CASE ListAttached \/ PrintList
  BY <1>14 DEF ListAttached, PrintList, Ended, Closer, Opens, Tries, Rank
<1>15. ASSUME NEW k \in DOMAIN cache, ReadPort(k) PROVE Closer
  <2>1. /\ pc = "ports" /\ pc' = pc /\ k \notin tried /\ tried' = tried \union {k}
        /\ UNCHANGED <<trying, errs, revive, cache>>
    BY <1>15 DEF ReadPort, memory
  <2>2. k \in Remembered(trying)
    BY <2>1 DEF FlowInv, Remembered, Names, Anyone
  <2>3. PortsLeft' < PortsLeft
    BY <2>1, <2>2, EntryUsedUp
  <2> QED BY <2>1, <2>3 DEF Closer, Opens, Tries, Rank
<1> QED
  BY <1>1, <1>2, <1>3, <1>4, <1>5, <1>6, <1>7, <1>8, <1>9, <1>10, <1>11, <1>12, <1>13,
     <1>14, <1>15
  DEF Next, Start, StartList, Find, List

\* Looking for an SDWire ends: with every step that is not the bench's, selectors,
\* openings and remembered ports are used up one by one, whatever the bench does
\* meanwhile, and the opening that `switch target` makes again is its last.
THEOREM EndsItsSearch == Spec => SearchEnds
<1>1. IInv /\ CacheFinite /\ [Next]_vars => [pc # "idle" /\ events' = events => Closer]_vars
  BY StepCloser
<1> QED BY <1>1, Invariant, CacheStaysFinite, PTL DEF Spec, SearchEnds

---------------------------------------------------------------------------
(* The cache that a command may rely on.                                   *)

Memory == INSTANCE HubCache WITH Identities <- Keys, Ports <- Places

\* Put is a sighting.
LEMMA PutIsSight ==
  ASSUME NEW serial \in AllSerials, NEW q \in Places, cache' = Put(serial, q),
         clock' = clock + 1
  PROVE  Memory!Next
<1> DEFINE n == KeyOf(serial, q)
           others == {m \in DOMAIN cache \ {n} : cache[m].port # q}
<1>1. n \in Keys
  BY DEF KeyOf, Keys
<1>2. {j \in DOMAIN cache : cache[j].port # q} \union {n} = others \union {n}
  OBVIOUS
<1>3. cache' = [m \in others \union {n} |->
                  IF m = n THEN [port |-> q, seen |-> clock'] ELSE cache[m]]
  BY <1>2 DEF Put
<1>4. Memory!Sight(n, q)
  BY <1>3 DEF Memory!Sight
<1> HIDE DEF n, others
<1> QED BY <1>1, <1>4 DEF Memory!Next

\* Commands remember each SDWire3 they connect to, by its serial and path, at a hub
\* port and at no other: what PortMemory's do while they do not overlap.
THEOREM RemembersAlike == Spec => Memory!Spec
<1>1. Init => Memory!Init
  BY DEF Init, Memory!Init
<1>2. ASSUME IInv, [Next]_vars PROVE [Memory!Next]_(Memory!vars)
  <2>1. CASE UNCHANGED <<cache, clock>>
    BY <2>1 DEF Memory!vars
  <2>2. CASE clock' = clock /\ \E k \in DOMAIN cache : cache' = Delete(k)
    <3> PICK k \in DOMAIN cache : cache' = Delete(k)
      BY <2>2
    <3>1. Memory!Forget({k})
      BY <2>2 DEF Memory!Forget, Delete
    <3> QED BY <3>1 DEF Memory!Next
  <2>3. CASE /\ clock' = clock + 1
             /\ \E serial \in AllSerials, q \in Places : cache' = Put(serial, q)
    BY <2>3, PutIsSight
  <2> QED BY <1>2, <2>1, <2>2, <2>3, NextCache DEF CacheStep
<1> QED BY <1>1, <1>2, Invariant, PTL DEF Spec, Memory!Spec
=============================================================================
