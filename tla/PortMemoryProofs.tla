-------------------------- MODULE PortMemoryProofs --------------------------
(***************************************************************************)
(* Proofs about PortMemory, for any number of commands, readers, ports,    *)
(* hubs and sightings.  What every command has loaded is as good as what   *)
(* is on disk: this is what makes the properties of the file survive the   *)
(* commands' stale saves.                                                  *)
(***************************************************************************)
EXTENDS PortMemory, FiniteSetTheorems, TLAPS

---------------------------------------------------------------------------
(* The inductive invariant.                                                *)

OnePort(f) == \A j, k \in DOMAIN f : f[j].port = f[k].port => j = k

Seen(f, sights) ==
  \A k \in DOMAIN f :
    k[2] = Path[f[k].port] /\ <<k[1], f[k].port>> \in sights

Good(f, sights) == IsCache(f) /\ OnePort(f) /\ Seen(f, sights)

\* What a command is about to cache is a full PortRef of a reader it holds,
\* and it has read that serial at that port.
Caching == {"resolve", "remember", "put"}

CommandInv ==
  \A c \in Commands :
    /\ pc[c] \in {"cycle", "dark", "wait", "remember", "put"}
         => ref[c] \in [port : Ports, hub : Hubs]
    /\ pc[c] \in Caching =>
         /\ ref[c].port \in Ports
         /\ held[c] \in Readers
         /\ <<serial[c], ref[c].port>> \in sighted

CacheInv == Good(file, sighted) /\ \A c \in Commands : Good(snap[c], sighted)

IInv == TypeOK /\ CommandInv /\ CacheInv

---------------------------------------------------------------------------
(* The cache's operations.                                                 *)

\* The empty cache is good.
LEMMA NoCacheGood == ASSUME NEW S PROVE Good(NoCache, S)
BY DEF Good, NoCache, IsCache, OnePort, Seen

\* A good cache stays so when more has been sighted.
LEMMA GoodGrows ==
  ASSUME NEW f, NEW S, NEW T, S \subseteq T, Good(f, S) PROVE Good(f, T)
BY DEF Good, Seen

\* Delete leaves a good cache good.
LEMMA DeleteGood ==
  ASSUME NEW f, NEW S, NEW k, Good(f, S) PROVE Good(Delete(f, k), S)
BY DEF Good, Delete, IsCache, OnePort, Seen

\* Put of a sighted reader leaves a good cache good: the entry that might have
\* named the port before is evicted.
LEMMA PutGood ==
  ASSUME NEW f, NEW S, Good(f, S),
         NEW s \in Serials \union {Unknown},
         NEW r \in [port : Ports, hub : Hubs],
         NEW n \in Nat,
         <<s, r.port>> \in S
  PROVE  Good(Put(f, KeyOf(s, r.port), r, n), S) /\ KeyOf(s, r.port) \in Keys
<1> DEFINE key == KeyOf(s, r.port)
           entry == [port |-> r.port, hub |-> r.hub, seen |-> n]
           g == Put(f, key, r, n)
<1>1. key \in Keys /\ key[1] = s /\ key[2] = Path[r.port]
  BY DEF KeyOf, Keys, Paths
<1>2. entry \in Entries
  BY DEF Entries
<1> HIDE DEF key, entry
<1>3. DOMAIN g = {j \in DOMAIN f : f[j].port # r.port} \union {key}
  BY DEF Put
<1>4. g[key] = entry /\ \A j \in DOMAIN g : j # key => g[j] = f[j] /\ j \in DOMAIN f
  BY <1>3 DEF Put, entry
<1>5. IsCache(g)
  BY <1>1, <1>2, <1>3, <1>4 DEF Good, IsCache, Put, entry
<1>6. OnePort(g)
  BY <1>3, <1>4 DEF Good, OnePort, entry
<1>7. Seen(g, S)
  BY <1>1, <1>3, <1>4 DEF Good, Seen, entry
<1> QED BY <1>1, <1>5, <1>6, <1>7 DEF Good, key

---------------------------------------------------------------------------
(* Type correctness.                                                       *)

\* A behaviour starts with everything of its type.
LEMMA TypeInit == Init => IInv
<1> SUFFICES ASSUME Init PROVE IInv
  OBVIOUS
<1>1. \A S : Good(NoCache, S)
  BY NoCacheGood
<1>2. IsCache(NoCache)
  BY <1>1 DEF Good
<1>3. TypeOK
  BY <1>2, PortMemoryAssumption DEF Init, TypeOK, Steps, NoRef, Keys
<1>4. CommandInv
  BY DEF Init, CommandInv, Caching
<1>5. CacheInv
  BY <1>1 DEF Init, CacheInv
<1> QED BY <1>3, <1>4, <1>5 DEF IInv

---------------------------------------------------------------------------
(* What a step may do to the caches.                                       *)

\* Whatever a command has loaded or is left with is good once the file is.
LEMMA LoadGood ==
  ASSUME CacheInv, NEW c \in Commands, NEW f, Good(f, sighted'),
         sighted \subseteq sighted', Good(file', sighted'),
         DOMAIN snap = Commands,
         snap' = [snap EXCEPT ![c] = f]
  PROVE  CacheInv'
<1>1. ASSUME NEW d \in Commands PROVE Good(snap'[d], sighted')
  <2>1. CASE d = c
    BY <2>1
  <2>2. CASE d # c
    <3>1. snap'[d] = snap[d] /\ Good(snap[d], sighted)
      BY <2>2 DEF CacheInv
    <3> QED BY <3>1, GoodGrows
  <2> QED BY <2>1, <2>2
<1> QED BY <1>1 DEF CacheInv

\* Nothing is loaded or saved.
LEMMA KeepGood ==
  ASSUME CacheInv, sighted \subseteq sighted', file' = file, snap' = snap
  PROVE  CacheInv'
BY GoodGrows DEF CacheInv

---------------------------------------------------------------------------
(* Each step of a command keeps the invariant.                             *)

\* The steps that neither load, change nor save a cache.
LEMMA QuietSteps ==
  ASSUME IInv, NEW c \in Commands,
         \/ ConnectFinds(c) \/ ConnectFindsNone(c) \/ TryPort(c)
         \/ HubUnreadable(c) \/ ReviveAtLocation(c) \/ ReviveRemembered(c)
         \/ CutPower(c) \/ RestorePower(c) \/ NoReader(c) \/ ResolveParent(c)
  PROVE  IInv'
<1> USE DEF IInv, Go, bench
<1>1. CASE ConnectFinds(c)
  <2>1. PICK r \in Readers, selection \in Selections, s \in Serials \union {Unknown} :
          /\ at[r] \in Ports
          /\ wanted' = [wanted EXCEPT ![c] = selection]
          /\ ref' = [ref EXCEPT ![c] = [port |-> at[r], hub |-> Nowhere]]
          /\ Describe(c, r, s)
    BY <1>1, PortMemoryAssumption DEF ConnectFinds, Candidates, OnBus, TypeOK
  <2>2. TypeOK'
    BY <1>1, <2>1 DEF ConnectFinds, Describe, TypeOK, Steps
  <2>3. CommandInv'
    BY <1>1, <2>1 DEF ConnectFinds, Describe, TypeOK, CommandInv, Caching
  <2>4. CacheInv'
    BY <1>1, <2>1, KeepGood DEF ConnectFinds, Describe
  <2> QED BY <2>2, <2>3, <2>4
<1>2. CASE ConnectFindsNone(c)
  <2>1. TypeOK'
    BY <1>2 DEF ConnectFindsNone, TypeOK, Steps
  <2>2. CommandInv'
    BY <1>2 DEF ConnectFindsNone, TypeOK, CommandInv, Caching
  <2>3. CacheInv'
    BY <1>2, KeepGood DEF ConnectFindsNone
  <2> QED BY <2>1, <2>2, <2>3
<1>3. CASE TryPort(c)
  <2>1. PICK key \in DOMAIN snap[c] :
          /\ NextEntry(c, key)
          /\ ref' = [ref EXCEPT ![c] =
                      [port |-> snap[c][key].port, hub |-> snap[c][key].hub]]
    BY <1>3 DEF TryPort
  <2>2. key \in Keys /\ snap[c][key] \in Entries
    BY <2>1 DEF TypeOK, IsCache
  <2>3. TypeOK'
    BY <1>3, <2>1, <2>2 DEF TryPort, NextEntry, TypeOK, Steps, Entries
  <2>4. CommandInv'
    BY <1>3, <2>1, <2>2 DEF TryPort, TypeOK, CommandInv, Caching, Entries
  <2>5. CacheInv'
    BY <1>3, KeepGood DEF TryPort
  <2> QED BY <2>3, <2>4, <2>5
<1>4. CASE HubUnreadable(c)
  <2>1. PICK key \in DOMAIN snap[c] : NextEntry(c, key)
    BY <1>4 DEF HubUnreadable
  <2>2. key \in Keys
    BY <2>1 DEF TypeOK, IsCache
  <2>3. TypeOK'
    BY <1>4, <2>1, <2>2 DEF HubUnreadable, NextEntry, TypeOK
  <2>4. CommandInv'
    BY <1>4 DEF HubUnreadable, CommandInv
  <2>5. CacheInv'
    BY <1>4, KeepGood DEF HubUnreadable
  <2> QED BY <2>3, <2>4, <2>5
<1>5. CASE ReviveAtLocation(c)
  <2>1. TypeOK'
    BY <1>5 DEF ReviveAtLocation, TypeOK, Steps
  <2>2. CommandInv'
    BY <1>5 DEF ReviveAtLocation, TypeOK, CommandInv, Caching
  <2>3. CacheInv'
    BY <1>5, KeepGood DEF ReviveAtLocation
  <2> QED BY <2>1, <2>2, <2>3
<1>6. CASE ReviveRemembered(c)
  <2>1. PICK key \in DOMAIN file :
          ref' = [ref EXCEPT ![c] = [port |-> file[key].port, hub |-> file[key].hub]]
    BY <1>6 DEF ReviveRemembered, Matching
  <2>2. file[key].port \in Ports /\ file[key].hub \in Hubs
    BY <2>1 DEF TypeOK, IsCache, Entries
  <2>3. TypeOK'
    BY <1>6, <2>1, <2>2 DEF ReviveRemembered, TypeOK, Steps
  <2>4. CommandInv'
    BY <1>6, <2>1, <2>2 DEF ReviveRemembered, TypeOK, CommandInv, Caching
  <2>5. CacheInv'
    BY <1>6, KeepGood DEF ReviveRemembered
  <2> QED BY <2>3, <2>4, <2>5
<1>7. CASE CutPower(c) \/ RestorePower(c)
  <2>1. ref[c].port \in Ports
    BY <1>7 DEF CutPower, RestorePower, CommandInv
  <2>2. TypeOK'
    BY <1>7, <2>1 DEF CutPower, RestorePower, TypeOK, Steps
  <2>3. CommandInv'
    BY <1>7 DEF CutPower, RestorePower, TypeOK, CommandInv, Caching
  <2>4. CacheInv'
    BY <1>7, KeepGood DEF CutPower, RestorePower
  <2> QED BY <2>2, <2>3, <2>4
<1>8. CASE NoReader(c)
  <2>1. TypeOK'
    BY <1>8 DEF NoReader, TypeOK, Steps
  <2>2. CommandInv'
    BY <1>8 DEF NoReader, TypeOK, CommandInv, Caching
  <2>3. CacheInv'
    BY <1>8, KeepGood DEF NoReader
  <2> QED BY <2>1, <2>2, <2>3
<1>9. CASE ResolveParent(c)
  <2>1. /\ ref[c].port \in Ports
        /\ ref' = [ref EXCEPT ![c] = [port |-> ref[c].port, hub |-> hub[ref[c].port]]]
    BY <1>9 DEF ResolveParent, CommandInv, Caching, TypeOK
  <2>2. TypeOK'
    BY <1>9, <2>1 DEF ResolveParent, TypeOK, Steps
  <2>3. CommandInv'
    BY <1>9, <2>1 DEF ResolveParent, TypeOK, CommandInv, Caching
  <2>4. CacheInv'
    BY <1>9, KeepGood DEF ResolveParent
  <2> QED BY <2>2, <2>3, <2>4
<1> QED BY <1>1, <1>2, <1>3, <1>4, <1>5, <1>6, <1>7, <1>8, <1>9

\* The steps that load, change, save or drop a cache.
LEMMA CacheSteps ==
  ASSUME IInv, NEW c \in Commands,
         \/ LoadForFallback(c) \/ HubMismatch(c) \/ ReaderAppears(c)
         \/ LoadForPut(c) \/ SavePut(c) \/ NotRemembered(c)
         \/ SwitchToTarget(c) \/ Ends(c)
  PROVE  IInv'
<1> USE DEF IInv, Go, bench
<1>n. \A S : Good(NoCache, S)
  BY NoCacheGood
<1>i. IsCache(NoCache)
  BY <1>n DEF Good
<1>d. DOMAIN snap = Commands
  BY DEF TypeOK
<1>1. CASE LoadForFallback(c) \/ LoadForPut(c)
  <2>1. TypeOK'
    BY <1>1 DEF LoadForFallback, LoadForPut, TypeOK, Steps
  <2>2. CommandInv'
    BY <1>1 DEF LoadForFallback, LoadForPut, TypeOK, CommandInv, Caching
  <2>3. Good(file, sighted) /\ snap' = [snap EXCEPT ![c] = file]
    BY <1>1 DEF LoadForFallback, LoadForPut, CacheInv
  <2>4. file' = file /\ sighted' = sighted
    BY <1>1 DEF LoadForFallback, LoadForPut
  <2>5. CacheInv'
    BY <2>3, <2>4, <1>d, LoadGood
  <2> QED BY <2>1, <2>2, <2>5
<1>2. CASE HubMismatch(c)
  <2>1. PICK key \in DOMAIN snap[c] :
          NextEntry(c, key) /\ snap' = [snap EXCEPT ![c] = Delete(snap[c], key)]
    BY <1>2 DEF HubMismatch
  <2>2. key \in Keys
    BY <2>1 DEF TypeOK, IsCache
  <2>3. Good(Delete(snap[c], key), sighted)
    BY DeleteGood DEF CacheInv
  <2>4. snap'[c] = Delete(snap[c], key)
    BY <2>1, <1>d
  <2>5. file' = file \/ file' = Delete(snap[c], key)
    BY <1>2, <2>4 DEF HubMismatch
  <2>6. Good(file', sighted')
    BY <1>2, <2>3, <2>5 DEF HubMismatch, CacheInv
  <2>7. TypeOK'
    <3>1. IsCache(file') /\ IsCache(Delete(snap[c], key))
      BY <2>3, <2>6 DEF Good
    <3> QED BY <1>2, <2>1, <2>2, <3>1 DEF HubMismatch, NextEntry, TypeOK
  <2>8. CommandInv'
    BY <1>2 DEF HubMismatch, CommandInv
  <2>9. CacheInv'
    BY <1>2, <1>d, <2>1, <2>3, <2>6, LoadGood DEF HubMismatch
  <2> QED BY <2>7, <2>8, <2>9
<1>3. CASE ReaderAppears(c)
  <2>1. PICK r \in Readers, s \in Serials \union {Unknown} :
          at[r] = ref[c].port /\ Describe(c, r, s)
    BY <1>3, PortMemoryAssumption DEF ReaderAppears
  <2>2. ref[c].port \in Ports /\ ref[c] \in [port : Ports, hub : Hubs]
    BY <1>3 DEF ReaderAppears, CommandInv
  <2>3. TypeOK'
    BY <1>3, <1>i, <2>1, <2>2 DEF ReaderAppears, CacheDropped, Describe, TypeOK, Steps
  <2>4. CommandInv'
    BY <1>3, <2>1, <2>2 DEF ReaderAppears, Describe, TypeOK, CommandInv, Caching
  <2>5. CacheInv'
    <3>1. file' = file /\ sighted \subseteq sighted' /\ snap' = [snap EXCEPT ![c] = NoCache]
      BY <1>3, <2>1 DEF ReaderAppears, Describe, CacheDropped
    <3>2. Good(file', sighted')
      BY <3>1, GoodGrows DEF CacheInv
    <3> QED BY <1>n, <1>d, <3>1, <3>2, LoadGood
  <2> QED BY <2>3, <2>4, <2>5
<1>4. CASE SavePut(c)
  <2> DEFINE key == KeyOf(serial[c], ref[c].port)
  <2>1. /\ ref[c] \in [port : Ports, hub : Hubs]
        /\ held[c] \in Readers
        /\ <<serial[c], ref[c].port>> \in sighted
    BY <1>4 DEF SavePut, CommandInv, Caching
  <2>2. clock' \in 0..MaxSightings /\ clock' \in Nat
    BY <1>4, PortMemoryAssumption DEF SavePut, TypeOK
  <2>3. serial[c] \in Serials \union {Unknown} /\ Good(snap[c], sighted)
    BY DEF TypeOK, CacheInv
  <2>4. Good(file', sighted) /\ key \in Keys
    BY <1>4, <2>1, <2>2, <2>3, PutGood DEF SavePut
  <2>5. settled' \subseteq settled \union {<<held[c], key>>}
    BY <1>4 DEF SavePut
  <2> HIDE DEF key
  <2>6. TypeOK'
    <3>1. IsCache(file') /\ settled' \subseteq Readers \X Keys
      BY <2>1, <2>4, <2>5 DEF Good, TypeOK
    <3> QED BY <1>4, <1>i, <2>2, <3>1 DEF SavePut, CacheDropped, TypeOK, Steps
  <2>7. CommandInv'
    BY <1>4 DEF SavePut, TypeOK, CommandInv, Caching
  <2>8. CacheInv'
    BY <1>4, <1>n, <1>d, <2>4, LoadGood DEF SavePut, CacheDropped
  <2> QED BY <2>6, <2>7, <2>8
<1>5. CASE NotRemembered(c)
  <2>1. TypeOK'
    BY <1>5, <1>i DEF NotRemembered, CacheDropped, TypeOK, Steps
  <2>2. CommandInv'
    BY <1>5 DEF NotRemembered, TypeOK, CommandInv, Caching
  <2>3. CacheInv'
    BY <1>5, <1>n, <1>d, LoadGood DEF NotRemembered, CacheDropped, CacheInv
  <2> QED BY <2>1, <2>2, <2>3
<1>6. CASE SwitchToTarget(c) \/ Ends(c)
  <2>1. Forgotten(c) /\ file' = file /\ sighted' = sighted
    BY <1>6 DEF SwitchToTarget, Ends
  <2>2. TypeOK'
    BY <1>6, <1>i, <2>1
    DEF SwitchToTarget, Ends, Forgotten, NoRef, TypeOK, Steps
  <2>3. CommandInv'
    BY <2>1 DEF Forgotten, TypeOK, CommandInv, Caching
  <2>4. CacheInv'
    BY <1>n, <1>d, <2>1, LoadGood DEF Forgotten, CacheInv
  <2> QED BY <2>2, <2>3, <2>4
<1> QED BY <1>1, <1>2, <1>3, <1>4, <1>5, <1>6

---------------------------------------------------------------------------
(* The theorems.                                                           *)

\* The bench keeps the invariant: no command looks at it in between.
LEMMA BenchSteps ==
  ASSUME IInv,
         \/ \E d \in Devices : Move(d)
         \/ \E r \in Readers : Crash(r)
         \/ \E q \in Ports : SwapHub(q)
  PROVE  IInv'
<1> USE DEF IInv, Happens, Unsettle, command
<1>1. file' = file /\ snap' = snap /\ sighted' = sighted /\ UNCHANGED command
  BY DEF Move, Crash, SwapHub
<1>2. TypeOK'
  <2>1. events' \in 0..MaxEvents
    BY PortMemoryAssumption DEF TypeOK, Move, Crash, SwapHub
  <2>2. CASE \E d \in Devices : Move(d)
    BY <2>1, <2>2 DEF Move, TypeOK
  <2>3. CASE \E r \in Readers : Crash(r)
    BY <2>1, <2>3 DEF Crash, TypeOK
  <2>4. CASE \E q \in Ports : SwapHub(q)
    BY <2>1, <2>4 DEF SwapHub, TypeOK
  <2> QED BY <2>2, <2>3, <2>4
<1>3. CommandInv'
  BY <1>1 DEF CommandInv
<1>4. CacheInv'
  BY <1>1, KeepGood
<1> QED BY <1>2, <1>3, <1>4

\* Every step keeps the invariant.
LEMMA StepKeeps == IInv /\ [Next]_vars => IInv'
<1> SUFFICES ASSUME IInv, [Next]_vars PROVE IInv'
  OBVIOUS
<1>1. CASE \E c \in Commands : Step(c)
  BY <1>1, QuietSteps, CacheSteps DEF Step
<1>2. CASE \/ \E d \in Devices : Move(d)
           \/ \E r \in Readers : Crash(r)
           \/ \E q \in Ports : SwapHub(q)
  BY <1>2, BenchSteps
<1>3. CASE UNCHANGED vars
  <2>1. TypeOK'
    BY <1>3 DEF IInv, vars, bench, command, TypeOK
  <2>2. CommandInv'
    BY <1>3 DEF IInv, vars, bench, command, CommandInv
  <2>3. CacheInv'
    BY <1>3, KeepGood DEF IInv, vars, bench, command
  <2> QED BY <2>1, <2>2, <2>3 DEF IInv
<1> QED BY <1>1, <1>2, <1>3 DEF Next

\* The invariant holds of every behaviour.
LEMMA Invariant == Spec => []IInv
BY TypeInit, StepKeeps, PTL DEF Spec

\* Every variable of the cache, the bench and the commands keeps its type.
THEOREM TypeCorrect == Spec => []TypeOK
<1>1. IInv => TypeOK
  BY DEF IInv
<1> QED BY <1>1, Invariant, PTL

\* Put's eviction is enough: however many commands load, change, save and crash
\* across each other, the cache on disk never names a port twice.
THEOREM NeverTwice == Spec => []OnePerPort
<1>1. IInv => OnePerPort
  BY DEF IInv, CacheInv, Good, OnePort, OnePerPort
<1> QED BY <1>1, Invariant, PTL

\* Every entry on disk is a reader's serial, read at that very port.
THEOREM OnlySightings == Spec => []EntriesSighted
<1>1. IInv => EntriesSighted
  BY DEF IInv, CacheInv, Good, Seen, EntriesSighted
<1> QED BY <1>1, Invariant, PTL
---------------------------------------------------------------------------
(* One command at a time: the cache knows where the readers are.           *)

OneCommand  == \A c, d \in Commands : c = d
PathsDiffer == \A p, q \in Ports : Path[p] = Path[q] => p = q

AtOne == \A d, e \in Devices : at[d] = at[e] /\ at[d] \in Ports => d = e

\* A settled reader's entry names its port and its hub ...
Home(f, p, where, hubs) ==
  /\ where[p[1]] \in Ports
  /\ p[2] \in DOMAIN f
  /\ f[p[2]].port = where[p[1]]
  /\ f[p[2]].hub = hubs[where[p[1]]]

\* ... and, when it alone bears its serial, is the latest of that serial.
Sole(p) ==
  p[2][1] = Serial[p[1]] /\ \A r \in Readers : Serial[r] = Serial[p[1]] => r = p[1]

Latest(f, p) ==
  \A k \in DOMAIN f : k # p[2] /\ k[1] = p[2][1] => f[k].seen < f[p[2]].seen

Knows(f, those, where, hubs) ==
  \A p \in those : Home(f, p, where, hubs) /\ (Sole(p) => Latest(f, p))

Dated(f, now) == \A k \in DOMAIN f : f[k].seen <= now

\* A command has the cache loaded.
Loaded(c) ==
  pc[c] \in {"try", "put"} \/ (pc[c] \in {"cycle", "dark", "wait"} /\ kind[c] = "connect")

\* The reader found at a port is the settled one there, if any is, and its hub
\* the one found.
PlaceInv ==
  \A c \in Commands, p \in settled :
    /\ pc[c] \in Caching => (p[1] = held[c] <=> at[p[1]] = ref[c].port)
    /\ pc[c] \in {"cycle", "dark", "wait", "remember", "put"} /\ at[p[1]] = ref[c].port
         => HubStillOpen(c)

ReadInv ==
  \A c \in Commands : pc[c] \in Caching => serial[c] \in {Serial[held[c]], Unknown}

KnowInv ==
  /\ Knows(file, settled, at, hub)
  /\ Dated(file, clock)
  /\ \A c \in Commands : Dated(snap[c], clock)
  /\ \A c \in Commands : Loaded(c) => Knows(snap[c], settled, at, hub)

StayInv == AtOne /\ PlaceInv /\ ReadInv /\ KnowInv /\ GoesStraight

\* What is known of the settled is known of fewer, that have stayed where they were.
LEMMA KnowsLess ==
  ASSUME NEW f, NEW S, NEW T, NEW w, NEW x, NEW h, NEW g,
         Knows(f, S, w, h), T \subseteq S,
         \A p \in T : x[p[1]] = w[p[1]] /\ g[w[p[1]]] = h[w[p[1]]]
  PROVE  Knows(f, T, x, g)
BY DEF Knows, Home

\* Delete of an entry whose hub is another one loses nothing that is known.
LEMMA KnowsDelete ==
  ASSUME NEW f, NEW S, NEW w, NEW h, NEW key \in DOMAIN f,
         Knows(f, S, w, h), h[f[key].port] # f[key].hub
  PROVE  Knows(Delete(f, key), S, w, h)
<1> SUFFICES ASSUME NEW p \in S
             PROVE  /\ Home(Delete(f, key), p, w, h)
                    /\ Sole(p) => Latest(Delete(f, key), p)
  BY DEF Knows
<1>1. Home(f, p, w, h) /\ (Sole(p) => Latest(f, p))
  BY DEF Knows
<1>2. p[2] # key
  BY <1>1 DEF Home
<1> QED BY <1>1, <1>2 DEF Delete, Home, Latest

\* Put at a port where no other settled reader is keeps what is known of others,
\* even of how recent they are, as long as the serial is not theirs.
LEMMA KnowsPut ==
  ASSUME PathsDiffer,
         NEW f, NEW S, NEW w, NEW h, NEW n, NEW sights,
         NEW s, NEW r, r.port \in Ports, Good(f, sights),
         Knows(f, S, w, h),
         \A p \in S : w[p[1]] # r.port /\ (Sole(p) => p[2][1] # s)
  PROVE  Knows(Put(f, KeyOf(s, r.port), r, n), S, w, h)
<1> DEFINE key == KeyOf(s, r.port)
           g == Put(f, key, r, n)
<1> SUFFICES ASSUME NEW p \in S PROVE Home(g, p, w, h) /\ (Sole(p) => Latest(g, p))
  BY DEF Knows
<1>1. Home(f, p, w, h) /\ (Sole(p) => Latest(f, p))
  BY DEF Knows
<1>2. key[1] = s /\ key[2] = Path[r.port]
  BY DEF KeyOf
<1>3. p[2] # key
  <2>1. p[2][2] = Path[w[p[1]]]
    BY <1>1 DEF Home, Good, Seen
  <2> QED BY <1>1, <1>2, <2>1 DEF Home, PathsDiffer
<1> HIDE DEF key
<1>4. /\ DOMAIN g = {j \in DOMAIN f : f[j].port # r.port} \union {key}
      /\ \A j \in DOMAIN g : j # key => j \in DOMAIN f /\ g[j] = f[j]
  BY DEF Put
<1>5. p[2] \in DOMAIN g /\ g[p[2]] = f[p[2]]
  BY <1>1, <1>3, <1>4 DEF Home
<1> HIDE DEF g
<1>6. Home(g, p, w, h)
  BY <1>1, <1>5 DEF Home
<1>7. ASSUME Sole(p) PROVE Latest(g, p)
  BY <1>1, <1>2, <1>4, <1>5, <1>7 DEF Latest
<1> QED BY <1>6, <1>7

\* The bench leaves what is settled where it is.
LEMMA BenchStays ==
  ASSUME IInv, StayInv,
         \/ \E d \in Devices : Move(d)
         \/ \E r \in Readers : Crash(r)
         \/ \E q \in Ports : SwapHub(q)
  PROVE  StayInv'
<1> USE DEF IInv, StayInv
<1>1. /\ UNCHANGED <<file, clock>> /\ UNCHANGED command
      /\ settled' \subseteq settled
  BY DEF Move, Crash, SwapHub, Unsettle
<1>2. ASSUME NEW p \in settled'
      PROVE  at'[p[1]] = at[p[1]] /\ hub'[at[p[1]]] = hub[at[p[1]]] /\ at[p[1]] \in Ports
  <2>1. p \in settled /\ p[1] \in Readers /\ at[p[1]] \in Ports
    BY <1>1 DEF TypeOK, KnowInv, Knows, Home
  <2>2. CASE \E d \in Devices : Move(d)
    BY <1>2, <2>1, <2>2 DEF Move, Unsettle, TypeOK, Devices, bench
  <2>3. CASE \E r \in Readers : Crash(r)
    BY <2>1, <2>3 DEF Crash
  <2>4. CASE \E q \in Ports : SwapHub(q)
    BY <1>2, <2>1, <2>4 DEF SwapHub, Unsettle, TypeOK, Devices
  <2> QED BY <2>1, <2>2, <2>3, <2>4
<1>3. AtOne'
  <2>1. CASE \E d \in Devices : Move(d)
    <3>1. PICK d \in Devices, q \in (Ports \ {at[e] : e \in Devices}) \union {Nowhere} :
            at' = [at EXCEPT ![d] = q]
      BY <2>1 DEF Move
    <3>2. \A e \in Devices : at'[e] = IF e = d THEN q ELSE at[e]
      BY <3>1 DEF TypeOK
    <3> QED BY <3>2, PortMemoryAssumption DEF AtOne
  <2>2. CASE \/ \E r \in Readers : Crash(r)
             \/ \E q \in Ports : SwapHub(q)
    BY <2>2 DEF Crash, SwapHub, AtOne
  <2> QED BY <2>1, <2>2
<1>4. PlaceInv'
  BY <1>1, <1>2 DEF PlaceInv, HubStillOpen, command
<1>5. ReadInv'
  BY <1>1 DEF ReadInv, command
<1>6. KnowInv'
  <2>1. Knows(file', settled', at', hub')
    BY <1>1, <1>2, KnowsLess DEF KnowInv
  <2>2. ASSUME NEW c \in Commands, Loaded(c)' PROVE Knows(snap'[c], settled', at', hub')
    <3>1. snap'[c] = snap[c] /\ Knows(snap[c], settled, at, hub)
      BY <1>1, <2>2 DEF KnowInv, Loaded, command
    <3> QED BY <1>1, <1>2, <3>1, KnowsLess
  <2> QED BY <1>1, <2>1, <2>2 DEF KnowInv, command
<1>7. GoesStraight'
  BY <1>1 DEF GoesStraight, command
<1> QED BY <1>3, <1>4, <1>5, <1>6, <1>7

\* A command's steps, but for a save, move nothing and settle nothing.
LEMMA CommandMovesNothing ==
  ASSUME NEW c \in Commands, Step(c)
  PROVE  at' = at /\ hub' = hub /\ (settled' = settled \/ SavePut(c))
BY DEF Step, ConnectFinds, ConnectFindsNone, LoadForFallback, TryPort, HubMismatch,
       HubUnreadable, ReviveAtLocation, ReviveRemembered, CutPower, RestorePower,
       NoReader, ReaderAppears, ResolveParent, LoadForPut, SavePut, NotRemembered,
       SwitchToTarget, Ends, bench

\* What a command finds, it finds where the settled one is, if one is.
LEMMA PlaceKept ==
  ASSUME OneCommand, IInv, StayInv, NEW c \in Commands, Step(c)
  PROVE  PlaceInv'
<1> USE DEF IInv, StayInv, Go
<1> SUFFICES ASSUME NEW p \in settled'
             PROVE  /\ pc'[c] \in Caching => (p[1] = held'[c] <=> at'[p[1]] = ref'[c].port)
                    /\ pc'[c] \in {"cycle", "dark", "wait", "remember", "put"}
                         /\ at'[p[1]] = ref'[c].port => HubStillOpen(c)'
  BY DEF OneCommand, PlaceInv
<1>m. at' = at /\ hub' = hub /\ (settled' = settled \/ SavePut(c))
  BY CommandMovesNothing
<1>1. CASE SavePut(c)
  BY <1>1 DEF SavePut, TypeOK, Caching
<1>2. CASE settled' = settled /\ ~SavePut(c)
  <2>1. p[1] \in Readers /\ at[p[1]] \in Ports
    BY <1>2 DEF TypeOK, KnowInv, Knows, Home
  <2>2. /\ pc[c] \in Caching => (p[1] = held[c] <=> at[p[1]] = ref[c].port)
        /\ pc[c] \in {"cycle", "dark", "wait", "remember", "put"} /\ at[p[1]] = ref[c].port
             => HubStillOpen(c)
    BY <1>2 DEF PlaceInv
  <2>3. CASE ConnectFinds(c)
    <3>1. PICK r \in Readers :
            at[r] \in Ports /\ held'[c] = r /\ ref'[c].port = at[r] /\ pc'[c] = "resolve"
      BY <2>3 DEF ConnectFinds, Candidates, OnBus, Describe, TypeOK
    <3>2. p[1] = r <=> at[p[1]] = at[r]
      BY <2>1, <3>1 DEF AtOne, Devices
    <3> QED BY <1>m, <3>1, <3>2
  <2>4. CASE TryPort(c) \/ ReviveAtLocation(c) \/ ReviveRemembered(c)
    <3>1. pc'[c] = "cycle" /\ hub[ref'[c].port] = ref'[c].hub
      BY <2>4 DEF TryPort, ReviveAtLocation, ReviveRemembered, TypeOK
    <3> QED BY <1>m, <3>1 DEF HubStillOpen, Caching
  <2>5. CASE CutPower(c) \/ RestorePower(c)
    <3>1. pc'[c] \in {"dark", "wait"} /\ ref' = ref /\ pc[c] \in {"cycle", "dark"}
      BY <2>5 DEF CutPower, RestorePower, TypeOK
    <3> QED BY <1>m, <2>2, <3>1 DEF HubStillOpen, Caching
  <2>6. CASE ReaderAppears(c)
    <3>1. PICK r \in Readers : at[r] = ref[c].port /\ held'[c] = r
      BY <2>6 DEF ReaderAppears, Describe, TypeOK
    <3>2. ref' = ref /\ at[r] \in Ports /\ pc[c] = "wait"
      BY <2>6, <3>1 DEF ReaderAppears, CommandInv
    <3>3. p[1] = r <=> at[p[1]] = at[r]
      BY <2>1, <3>2 DEF AtOne, Devices
    <3> QED BY <1>m, <2>2, <3>1, <3>2, <3>3 DEF HubStillOpen
  <2>7. CASE ResolveParent(c)
    <3>1. /\ pc[c] = "resolve" /\ pc'[c] = "remember" /\ held' = held
          /\ ref'[c].port = ref[c].port /\ ref'[c].hub = hub[ref[c].port]
      BY <2>7 DEF ResolveParent, TypeOK
    <3> QED BY <1>m, <2>2, <3>1 DEF HubStillOpen, Caching
  <2>8. CASE LoadForPut(c)
    <3>1. pc[c] = "remember" /\ pc'[c] = "put" /\ ref' = ref /\ held' = held
      BY <2>8 DEF LoadForPut, TypeOK
    <3> QED BY <1>m, <2>2, <3>1 DEF HubStillOpen, Caching
  <2>9. CASE \/ ConnectFindsNone(c) \/ LoadForFallback(c) \/ HubMismatch(c)
             \/ HubUnreadable(c) \/ NoReader(c) \/ NotRemembered(c)
             \/ SwitchToTarget(c) \/ Ends(c)
    <3>1. pc'[c] \in {"load", "try", "connected", "idle"}
      BY <2>9 DEF ConnectFindsNone, LoadForFallback, HubMismatch, HubUnreadable, NextEntry,
                  NoReader, NotRemembered, SwitchToTarget, Ends, Forgotten, TypeOK
    <3> QED BY <3>1 DEF Caching
  <2> QED BY <1>2, <2>3, <2>4, <2>5, <2>6, <2>7, <2>8, <2>9 DEF Step
<1> QED BY <1>m, <1>1, <1>2

\* A serial is read from the reader that is held, or not at all.
LEMMA ReadKept ==
  ASSUME OneCommand, IInv, StayInv, NEW c \in Commands, Step(c)
  PROVE  ReadInv'
<1> USE DEF IInv, StayInv, Go
<1> SUFFICES ASSUME pc'[c] \in Caching PROVE serial'[c] \in {Serial[held'[c]], Unknown}
  BY DEF OneCommand, ReadInv
<1>1. CASE ConnectFinds(c) \/ ReaderAppears(c)
  BY <1>1 DEF ConnectFinds, ReaderAppears, Describe, TypeOK
<1>2. CASE ResolveParent(c) \/ LoadForPut(c)
  BY <1>2 DEF ResolveParent, LoadForPut, ReadInv, Caching
<1>3. CASE \/ ConnectFindsNone(c) \/ LoadForFallback(c) \/ TryPort(c) \/ HubMismatch(c)
           \/ HubUnreadable(c) \/ NoReader(c) \/ NotRemembered(c) \/ SwitchToTarget(c)
           \/ Ends(c) \/ ReviveAtLocation(c) \/ ReviveRemembered(c) \/ CutPower(c)
           \/ RestorePower(c) \/ SavePut(c)
  <2>1. pc'[c] \notin Caching
    BY <1>3 DEF ConnectFindsNone, LoadForFallback, TryPort, HubMismatch, HubUnreadable,
                NextEntry, NoReader, NotRemembered, SwitchToTarget, Ends, Forgotten,
                ReviveAtLocation, ReviveRemembered, CutPower, RestorePower, SavePut,
                TypeOK, Caching
  <2> QED BY <2>1
<1> QED BY <1>1, <1>2, <1>3 DEF Step

\* The cache that SavePut saves knows of every reader that is settled then.
LEMMA SaveKnows ==
  ASSUME OneCommand, PathsDiffer, IInv, StayInv, NEW c \in Commands, SavePut(c)
  PROVE  Knows(file', settled', at, hub) /\ Dated(file', clock')
<1> USE DEF IInv, StayInv
<1> DEFINE f == snap[c]
           s == serial[c]
           r == ref[c]
           key == KeyOf(s, r.port)
           rest == {p \in settled : p[1] # held[c]}
<1>1. /\ pc[c] = "put" /\ held[c] \in Readers
      /\ r \in [port : Ports, hub : Hubs] /\ s \in {Serial[held[c]], Unknown}
  BY DEF SavePut, Go, CommandInv, ReadInv, Caching
<1>2. Good(f, sighted) /\ Knows(f, settled, at, hub) /\ Dated(f, clock) /\ r.port \in Ports
  BY <1>1 DEF CacheInv, KnowInv, Loaded
<1>3. /\ file' = Put(f, key, r, clock')
      /\ clock' = clock + 1 /\ clock \in Nat /\ clock' \in Nat
  BY PortMemoryAssumption DEF SavePut, TypeOK
<1>4. \A k \in DOMAIN f : f[k].seen \in Nat /\ f[k].seen <= clock
  BY <1>2 DEF Good, IsCache, Entries, Dated
<1> HIDE DEF f, r, key
<1>5. /\ DOMAIN file' = {j \in DOMAIN f : f[j].port # r.port} \union {key}
      /\ file'[key] = [port |-> r.port, hub |-> r.hub, seen |-> clock']
      /\ \A j \in DOMAIN file' : j # key => j \in DOMAIN f /\ file'[j] = f[j]
  BY <1>3 DEF Put
<1>6. Dated(file', clock')
  <2>1. ASSUME NEW k \in DOMAIN file' PROVE file'[k].seen <= clock'
    <3>1. CASE k = key
      BY <1>3, <1>5, <3>1
    <3>2. CASE k # key
      BY <1>3, <1>4, <1>5, <3>2
    <3> QED BY <3>1, <3>2
  <2> QED BY <2>1 DEF Dated
<1>7. ASSUME NEW p \in settled, Sole(p), p[2][1] = s PROVE p[1] = held[c]
  <2>1. p[1] \in Readers
    BY DEF TypeOK
  <2>2. Serial[p[1]] \in Serials /\ s = Serial[p[1]]
    BY <1>7, <2>1, PortMemoryAssumption DEF Sole
  <2>3. Serial[held[c]] = Serial[p[1]]
    BY <1>1, <2>2, PortMemoryAssumption
  <2> QED BY <1>1, <1>7, <2>3 DEF Sole
<1>8. ASSUME NEW T, T \subseteq settled,
             \A p \in T : at[p[1]] # r.port /\ (Sole(p) => p[2][1] # s)
      PROVE  Knows(file', T, at, hub)
  <2>1. Knows(f, T, at, hub)
    BY <1>2, <1>8 DEF Knows
  <2>2. Knows(Put(f, KeyOf(s, r.port), r, clock'), T, at, hub)
    BY <1>2, <1>8, <2>1, KnowsPut
  <2> QED BY <1>3, <2>2 DEF key
<1>9. \A p \in settled : /\ p[1] = held[c] <=> at[p[1]] = r.port
                         /\ at[p[1]] = r.port => HubStillOpen(c)
  BY <1>1 DEF PlaceInv, Caching, r
<1>10. CASE at[held[c]] = r.port /\ HubStillOpen(c)
  <2>1. settled' = rest \union {<<held[c], key>>}
    BY <1>10 DEF SavePut, key, r
  <2>2. Knows(file', rest, at, hub)
    BY <1>7, <1>8, <1>9
  <2>3. Home(file', <<held[c], key>>, at, hub)
    BY <1>2, <1>5, <1>10 DEF Home, HubStillOpen, r
  <2>4. Latest(file', <<held[c], key>>)
    BY <1>3, <1>4, <1>5 DEF Latest
  <2> QED BY <1>6, <2>1, <2>2, <2>3, <2>4 DEF Knows
<1>11. CASE ~(at[held[c]] = r.port /\ HubStillOpen(c))
  <2>1. settled' = settled
    BY <1>11 DEF SavePut, r
  <2>2. Knows(file', settled, at, hub)
    BY <1>7, <1>8, <1>9, <1>11
  <2> QED BY <1>6, <2>1, <2>2
<1> QED BY <1>10, <1>11

\* Whatever a command loads, forgets or saves knows of every settled reader.
LEMMA KnowKept ==
  ASSUME OneCommand, PathsDiffer, IInv, StayInv, NEW c \in Commands, Step(c)
  PROVE  KnowInv'
<1> USE DEF IInv, StayInv, Go
<1>k. /\ Knows(file, settled, at, hub) /\ Dated(file, clock) /\ Dated(snap[c], clock)
      /\ Loaded(c) => Knows(snap[c], settled, at, hub)
      /\ Dated(NoCache, clock)
  BY DEF KnowInv, Dated, NoCache
<1>m. at' = at /\ hub' = hub /\ (settled' = settled \/ SavePut(c))
  BY CommandMovesNothing
<1> SUFFICES /\ Knows(file', settled', at, hub)
             /\ Dated(file', clock')
             /\ Dated(snap'[c], clock')
             /\ Loaded(c)' => Knows(snap'[c], settled', at, hub)
  BY <1>m DEF OneCommand, KnowInv
<1>1. CASE SavePut(c)
  <2>1. snap'[c] = NoCache /\ pc'[c] = "connected"
    BY <1>1 DEF SavePut, CacheDropped, TypeOK
  <2>2. Knows(file', settled', at, hub) /\ Dated(file', clock')
    BY <1>1, SaveKnows
  <2> QED BY <2>1, <2>2 DEF Loaded, Dated, NoCache
<1>2. CASE LoadForFallback(c) \/ LoadForPut(c)
  <2>1. snap'[c] = file /\ file' = file /\ clock' = clock /\ settled' = settled
    BY <1>2 DEF LoadForFallback, LoadForPut, TypeOK
  <2> QED BY <1>k, <2>1
<1>3. CASE HubMismatch(c)
  <2>1. PICK key \in DOMAIN snap[c] :
          hub[snap[c][key].port] # snap[c][key].hub /\ snap'[c] = Delete(snap[c], key)
    BY <1>3 DEF HubMismatch, TypeOK
  <2>2. Knows(snap'[c], settled, at, hub)
    <3>1. Knows(snap[c], settled, at, hub)
      BY <1>3, <1>k DEF HubMismatch, NextEntry, Loaded
    <3> QED BY <2>1, <3>1, KnowsDelete
  <2>3. Dated(snap'[c], clock)
    BY <1>k, <2>1 DEF Dated, Delete
  <2>4. file' \in {file, snap'[c]} /\ clock' = clock /\ settled' = settled
    BY <1>3 DEF HubMismatch
  <2> QED BY <1>k, <2>2, <2>3, <2>4
<1>4. CASE TryPort(c) \/ HubUnreadable(c) \/ NoReader(c) \/ CutPower(c) \/ RestorePower(c)
  <2>1. snap' = snap /\ file' = file /\ clock' = clock /\ settled' = settled
    BY <1>4 DEF TryPort, HubUnreadable, NoReader, CutPower, RestorePower
  <2>2. Loaded(c)' => Loaded(c)
    BY <1>4 DEF TryPort, HubUnreadable, NextEntry, NoReader, CutPower, RestorePower,
                Loaded, TypeOK
  <2> QED BY <1>k, <2>1, <2>2
<1>5. CASE \/ ConnectFinds(c) \/ ConnectFindsNone(c) \/ ReviveAtLocation(c)
           \/ ReviveRemembered(c) \/ ResolveParent(c)
  <2>1. snap' = snap /\ file' = file /\ clock' = clock /\ settled' = settled
    BY <1>5 DEF ConnectFinds, ConnectFindsNone, ReviveAtLocation, ReviveRemembered,
                ResolveParent
  <2>2. ~Loaded(c)'
    BY <1>5 DEF ConnectFinds, ConnectFindsNone, ReviveAtLocation, ReviveRemembered,
                ResolveParent, Loaded, TypeOK
  <2> QED BY <1>k, <2>1, <2>2
<1>6. CASE ReaderAppears(c) \/ NotRemembered(c) \/ SwitchToTarget(c) \/ Ends(c)
  <2>1. snap'[c] = NoCache /\ file' = file /\ clock' = clock /\ settled' = settled
    BY <1>6 DEF ReaderAppears, NotRemembered, CacheDropped, SwitchToTarget, Ends, Forgotten,
                TypeOK
  <2>2. pc'[c] \in {"resolve", "remember", "connected", "idle"}
    BY <1>6 DEF ReaderAppears, NotRemembered, SwitchToTarget, Ends, Forgotten, TypeOK
  <2> QED BY <1>k, <2>1, <2>2 DEF Loaded
<1> QED BY <1>1, <1>2, <1>3, <1>4, <1>5, <1>6 DEF Step

\* A serial's ports are tried from the latest on, so its sole reader's first.
LEMMA StraightKept ==
  ASSUME OneCommand, IInv, StayInv, NEW c \in Commands, Step(c)
  PROVE  GoesStraight'
<1> USE DEF IInv, StayInv, Go
<1>m. settled' = settled \/ SavePut(c)
  BY CommandMovesNothing
<1> SUFFICES ASSUME NEW p \in settled', pc'[c] = "cycle", kind'[c] = "connect",
                    wanted'[c] = Serial[p[1]], p[2][1] = wanted'[c],
                    \A r \in Readers : Serial[r] = wanted'[c] => r = p[1]
             PROVE  p[2] \in tried'[c]
  BY DEF OneCommand, GoesStraight
<1>1. TryPort(c)
  BY DEF Step, ConnectFinds, ConnectFindsNone, LoadForFallback, HubMismatch, NextEntry,
         HubUnreadable, ReviveAtLocation, ReviveRemembered, CutPower, RestorePower,
         NoReader, ReaderAppears, ResolveParent, LoadForPut, SavePut, NotRemembered,
         SwitchToTarget, Ends, Forgotten, TypeOK
<1>2. /\ pc[c] = "try" /\ wanted' = wanted /\ settled' = settled
  BY <1>1 DEF TryPort
<1>3. PICK key \in DOMAIN snap[c] :
        /\ key \in MostRecent(snap[c], Matching(snap[c], wanted[c]) \ tried[c])
        /\ tried'[c] = tried[c] \union {key}
  BY <1>1 DEF TryPort, NextEntry, TypeOK
<1>4. Home(snap[c], p, at, hub) /\ Latest(snap[c], p)
  BY <1>2 DEF KnowInv, Knows, Loaded, Sole
<1>5. p[2] \in Matching(snap[c], wanted[c])
  BY <1>2, <1>4 DEF Matching, Home
<1>6. CASE p[2] \in tried[c] \/ key = p[2]
  BY <1>3, <1>6
<1>7. CASE p[2] \notin tried[c] /\ key # p[2]
  <2>1. snap[c][p[2]].seen <= snap[c][key].seen
    BY <1>3, <1>5, <1>7 DEF MostRecent
  <2>2. key[1] = wanted[c]
    <3>1. wanted[c] \in {Anyone, key[1], snap[c][key].port}
      BY <1>3 DEF MostRecent, Matching
    <3>2. wanted[c] \in Serials /\ snap[c][key].port \in Ports
      BY <1>2, PortMemoryAssumption DEF TypeOK, IsCache, Entries
    <3> QED BY <3>1, <3>2, PortMemoryAssumption
  <2>3. snap[c][key].seen < snap[c][p[2]].seen
    BY <1>2, <1>4, <1>7, <2>2 DEF Latest
  <2>4. snap[c][key].seen \in Nat /\ snap[c][p[2]].seen \in Nat
    BY <1>4 DEF TypeOK, IsCache, Entries, Home
  <2> QED BY <2>1, <2>3, <2>4
<1> QED BY <1>6, <1>7

\* At first no reader is settled, and afterwards every step keeps the settled known.
LEMMA StayInit == Init => StayInv
BY PortMemoryAssumption DEF Init, StayInv, AtOne, PlaceInv, ReadInv, KnowInv, GoesStraight, Knows, Dated,
       NoCache, Caching, Devices

LEMMA StayNext ==
  ASSUME OneCommand, PathsDiffer
  PROVE  IInv /\ StayInv /\ [Next]_vars => StayInv'
<1> SUFFICES ASSUME IInv, StayInv, [Next]_vars PROVE StayInv'
  OBVIOUS
<1>1. CASE \E c \in Commands : Step(c)
  <2> PICK c \in Commands : Step(c)
    BY <1>1
  <2>1. AtOne'
    BY CommandMovesNothing DEF AtOne, StayInv
  <2> QED BY <2>1, PlaceKept, ReadKept, KnowKept, StraightKept DEF StayInv
<1>2. CASE \/ \E d \in Devices : Move(d)
           \/ \E r \in Readers : Crash(r)
           \/ \E q \in Ports : SwapHub(q)
  BY <1>2, BenchStays
<1>3. CASE UNCHANGED vars
  BY <1>3 DEF vars, bench, command, StayInv, AtOne, PlaceInv, ReadInv, KnowInv, GoesStraight,
              HubStillOpen, Loaded
<1> QED BY <1>1, <1>2, <1>3 DEF Next

\* Where commands do not overlap and no two ports share a path, a reader that was
\* cached where it still is has its entry, whatever else is cached and forgotten.
THEOREM StaysRemembered ==
  ASSUME OneCommand, PathsDiffer
  PROVE  Spec => []RememberedWhileThere
<1>1. StayInv => RememberedWhileThere
  BY DEF StayInv, KnowInv, Knows, Home, RememberedWhileThere
<1> QED BY <1>1, TypeInit, StepKeeps, StayInit, StayNext, PTL DEF Spec

\* There, no port is touched for a serial before that of the one reader bearing it.
THEOREM CurrentPortFirst ==
  ASSUME OneCommand, PathsDiffer
  PROVE  Spec => []GoesStraight
<1>1. StayInv => GoesStraight
  BY DEF StayInv
<1> QED BY <1>1, TypeInit, StepKeeps, StayInit, StayNext, PTL DEF Spec

---------------------------------------------------------------------------
(* One command's loads and saves, as if they were one step.                *)

\* f is g, or what is left of it.
PartOf(f, g) == DOMAIN f \subseteq DOMAIN g /\ \A k \in DOMAIN f : f[k] = g[k]

\* What a command has loaded is the file or less of it, and all of it before a Put.
LoadInv ==
  \A c \in Commands : PartOf(snap[c], file) /\ (pc[c] = "put" => snap[c] = file)

\* Nobody else saves between a command's load and its save.
LEMMA LoadInvNext ==
  ASSUME OneCommand PROVE IInv /\ LoadInv /\ [Next]_vars => LoadInv'
<1> SUFFICES ASSUME IInv, LoadInv, [Next]_vars PROVE LoadInv'
  OBVIOUS
<1> USE DEF IInv, Go
<1>1. ASSUME NEW c \in Commands, Step(c) PROVE LoadInv'
  <2> SUFFICES PartOf(snap'[c], file') /\ (pc'[c] = "put" => snap'[c] = file')
    BY <1>1 DEF OneCommand, LoadInv
  <2>1. CASE \/ ConnectFinds(c) \/ ConnectFindsNone(c) \/ TryPort(c) \/ HubUnreadable(c)
             \/ ReviveAtLocation(c) \/ ReviveRemembered(c) \/ CutPower(c) \/ RestorePower(c)
             \/ NoReader(c) \/ ResolveParent(c)
    <3>1. snap' = snap /\ file' = file
      BY <2>1 DEF ConnectFinds, ConnectFindsNone, TryPort, HubUnreadable, ReviveAtLocation,
                  ReviveRemembered, CutPower, RestorePower, NoReader, ResolveParent
    <3>2. pc'[c] # "put"
      BY <2>1 DEF ConnectFinds, ConnectFindsNone, TryPort, HubUnreadable, NextEntry,
                  ReviveAtLocation, ReviveRemembered, CutPower, RestorePower, NoReader,
                  ResolveParent, TypeOK
    <3> QED BY <3>1, <3>2 DEF LoadInv
  <2>2. CASE LoadForFallback(c) \/ LoadForPut(c)
    BY <2>2 DEF LoadForFallback, LoadForPut, PartOf, TypeOK
  <2>3. CASE HubMismatch(c)
    <3>1. PICK key : /\ snap'[c] = Delete(snap[c], key) /\ file' \in {file, snap'[c]}
                     /\ pc' = pc /\ pc[c] = "try"
      BY <2>3 DEF HubMismatch, NextEntry, TypeOK
    <3>2. PartOf(snap'[c], file)
      BY <3>1 DEF LoadInv, PartOf, Delete
    <3> QED BY <3>1, <3>2 DEF PartOf
  <2>4. CASE ReaderAppears(c) \/ SavePut(c) \/ NotRemembered(c) \/ SwitchToTarget(c) \/ Ends(c)
    <3>1. snap'[c] = NoCache /\ pc'[c] # "put"
      BY <2>4 DEF ReaderAppears, SavePut, NotRemembered, CacheDropped, SwitchToTarget, Ends,
                  Forgotten, TypeOK
    <3> QED BY <3>1 DEF PartOf, NoCache
  <2> QED BY <1>1, <2>1, <2>2, <2>3, <2>4 DEF Step
<1>2. CASE \/ \E d \in Devices : Move(d)
           \/ \E r \in Readers : Crash(r)
           \/ \E q \in Ports : SwapHub(q)
           \/ UNCHANGED vars
  <2>1. UNCHANGED <<snap, pc, file>>
    BY <1>2 DEF Move, Crash, SwapHub, command, vars
  <2> QED BY <2>1 DEF LoadInv
<1> QED BY <1>1, <1>2 DEF Next

\* A Put is a sighting.
LEMMA PutIsSight ==
  ASSUME NEW key \in Keys, NEW r \in [port : Ports, hub : Hubs],
         file' = Put(file, key, r, clock'), clock' = clock + 1
  PROVE  Memory!Next
<1> DEFINE was == [k \in DOMAIN file |-> [port |-> file[k].port, seen |-> file[k].seen]]
           others == {m \in DOMAIN was \ {key} : was[m].port # r.port}
           now == [k \in DOMAIN file' |-> [port |-> file'[k].port, seen |-> file'[k].seen]]
<1>1. DOMAIN was = DOMAIN file /\ \A k \in DOMAIN file : was[k].port = file[k].port
  OBVIOUS
<1>2. DOMAIN file' = others \union {key}
  BY <1>1 DEF Put
<1>3. file'[key] = [port |-> r.port, hub |-> r.hub, seen |-> clock']
  BY DEF Put
<1>4. \A k \in others : file'[k] = file[k] /\ k \in DOMAIN file /\ k # key
  BY <1>1, <1>2 DEF Put
<1>5. now = [m \in others \union {key} |->
               IF m = key THEN [port |-> r.port, seen |-> clock'] ELSE was[m]]
  BY <1>2, <1>3, <1>4
<1>6. Memory!Sight(key, r.port)
  BY <1>5 DEF Memory!Sight
<1> HIDE DEF was, others, now
<1> QED BY <1>6 DEF Memory!Next

\* A file that has lost entries has forgotten their names.
LEMMA PartIsForget ==
  ASSUME PartOf(file', file), clock' = clock
  PROVE  Memory!Next
<1> DEFINE was == [k \in DOMAIN file |-> [port |-> file[k].port, seen |-> file[k].seen]]
           gone == DOMAIN file \ DOMAIN file'
<1>1. DOMAIN file' = DOMAIN was \ gone
  BY DEF PartOf
<1>2. [k \in DOMAIN file' |-> [port |-> file'[k].port, seen |-> file'[k].seen]]
        = [n \in DOMAIN was \ gone |-> was[n]]
  BY <1>1 DEF PartOf
<1>3. gone \subseteq DOMAIN was
  OBVIOUS
<1> HIDE DEF gone
<1> SUFFICES \E g \in SUBSET DOMAIN was : Memory!Forget(g)
  BY DEF Memory!Next
<1> QED BY <1>2, <1>3 DEF Memory!Forget

\* Where commands do not overlap, what each loads, changes and saves is one step on
\* what all of them remember, however many entries are dropped, saves fail and
\* commands are killed on the way.
THEOREM SavesAsIfAtomic ==
  ASSUME OneCommand PROVE Spec => AsIfAtomic
<1>1. Init => LoadInv /\ Memory!Init
  <2> SUFFICES ASSUME Init PROVE LoadInv /\ Memory!Init
    OBVIOUS
  <2>1. LoadInv
    BY DEF Init, LoadInv, PartOf, NoCache
  <2>2. Memory!Init
    BY DEF Init, Memory!Init, NoCache
  <2> QED BY <2>1, <2>2
<1>2. ASSUME IInv, LoadInv, [Next]_vars PROVE [Memory!Next]_(Memory!vars)
  <2> USE <1>2 DEF IInv
  <2>1. CASE UNCHANGED <<file, clock>>
    BY <2>1 DEF Memory!vars
  <2>2. CASE \E c \in Commands : SavePut(c)
    <3> PICK c \in Commands : SavePut(c)
      BY <2>2
    <3>1. /\ pc[c] = "put" /\ clock' = clock + 1
          /\ file' = Put(snap[c], KeyOf(serial[c], ref[c].port), ref[c], clock')
      BY DEF SavePut, Go
    <3>2. ref[c] \in [port : Ports, hub : Hubs] /\ serial[c] \in Serials \union {Unknown}
      BY <3>1 DEF CommandInv, TypeOK
    <3>3. KeyOf(serial[c], ref[c].port) \in Keys
      BY <3>2 DEF KeyOf, Keys, Paths
    <3> QED BY <3>1, <3>2, <3>3, PutIsSight DEF LoadInv
  <2>3. CASE \E c \in Commands : HubMismatch(c)
    <3> PICK c \in Commands : HubMismatch(c)
      BY <2>3
    <3>1. PICK key : snap'[c] = Delete(snap[c], key) /\ file' \in {file, snap'[c]}
      BY DEF HubMismatch, TypeOK
    <3>2. PartOf(file', file)
      BY <3>1 DEF LoadInv, PartOf, Delete
    <3> QED BY <3>2, PartIsForget DEF HubMismatch
  <2>4. CASE ~ UNCHANGED <<file, clock>>
    BY <2>2, <2>3, <2>4
    DEF Next, Step, ConnectFinds, ConnectFindsNone, LoadForFallback, TryPort, HubUnreadable,
        ReviveAtLocation, ReviveRemembered, CutPower, RestorePower, NoReader, ReaderAppears,
        ResolveParent, LoadForPut, NotRemembered, SwitchToTarget, Ends, Move, Crash,
        SwapHub, vars
  <2> QED BY <2>1, <2>4
<1> QED
  BY <1>1, <1>2, TypeInit, StepKeeps, LoadInvNext, PTL DEF Spec, AsIfAtomic, Memory!Spec

---------------------------------------------------------------------------
(* Fallbacks end.                                                          *)

\* Entries are put into caches one at a time.
FiniteInv ==
  IsFiniteSet(DOMAIN file) /\ \A c \in Commands : IsFiniteSet(DOMAIN snap[c])

\* Caches stay finite.
LEMMA DeleteFinite ==
  ASSUME NEW f, NEW key, IsFiniteSet(DOMAIN f) PROVE IsFiniteSet(DOMAIN Delete(f, key))
<1>1. DOMAIN Delete(f, key) = DOMAIN f \ {key}
  BY DEF Delete
<1> QED BY <1>1, FS_RemoveElement

LEMMA PutFinite ==
  ASSUME NEW f, NEW key, NEW r, NEW now, IsFiniteSet(DOMAIN f)
  PROVE  IsFiniteSet(DOMAIN Put(f, key, r, now))
<1> DEFINE kept == {j \in DOMAIN f : f[j].port # r.port}
<1>1. DOMAIN Put(f, key, r, now) = kept \union {key}
  BY DEF Put
<1>2. IsFiniteSet(kept)
  BY FS_Subset
<1> HIDE DEF kept
<1> QED BY <1>1, <1>2, FS_AddElement

\* What a step of a command may leave of a loaded cache.
LEMMA StepFinite ==
  ASSUME IInv, FiniteInv, NEW c \in Commands, Step(c) PROVE FiniteInv'
<1> USE DEF IInv, Go
<1>1. IsFiniteSet(DOMAIN file) /\ IsFiniteSet(DOMAIN snap[c]) /\ IsFiniteSet(DOMAIN NoCache)
  BY FS_EmptySet DEF FiniteInv, NoCache
<1> SUFFICES ASSUME NEW f, IsFiniteSet(DOMAIN file'), IsFiniteSet(DOMAIN f),
                    snap' = [snap EXCEPT ![c] = f]
             PROVE  FiniteInv'
  <2>1. CASE \/ ConnectFinds(c) \/ ConnectFindsNone(c) \/ TryPort(c) \/ HubUnreadable(c)
             \/ ReviveAtLocation(c) \/ ReviveRemembered(c) \/ CutPower(c) \/ RestorePower(c)
             \/ NoReader(c) \/ ResolveParent(c)
    <3>1. snap' = snap /\ file' = file
      BY <2>1 DEF ConnectFinds, ConnectFindsNone, TryPort, HubUnreadable, ReviveAtLocation,
                  ReviveRemembered, CutPower, RestorePower, NoReader, ResolveParent
    <3> QED BY <3>1 DEF FiniteInv
  <2>2. CASE LoadForFallback(c) \/ LoadForPut(c)
    BY <1>1, <2>2 DEF LoadForFallback, LoadForPut
  <2>3. CASE HubMismatch(c)
    <3>1. PICK key : /\ snap' = [snap EXCEPT ![c] = Delete(snap[c], key)]
                     /\ file' \in {file, Delete(snap[c], key)}
      BY <2>3 DEF HubMismatch, TypeOK
    <3> QED BY <1>1, <3>1, DeleteFinite
  <2>4. CASE SavePut(c)
    <3>1. /\ snap' = [snap EXCEPT ![c] = NoCache]
          /\ \E key, r, now : file' = Put(snap[c], key, r, now)
      BY <2>4 DEF SavePut, CacheDropped
    <3> QED BY <1>1, <3>1, PutFinite
  <2>5. CASE ReaderAppears(c) \/ NotRemembered(c) \/ SwitchToTarget(c) \/ Ends(c)
    BY <1>1, <2>5 DEF ReaderAppears, NotRemembered, CacheDropped, SwitchToTarget, Ends,
                      Forgotten
  <2> QED BY <2>1, <2>2, <2>3, <2>4, <2>5 DEF Step
<1>2. DOMAIN snap = Commands
  BY DEF TypeOK
<1>3. ASSUME NEW d \in Commands PROVE IsFiniteSet(DOMAIN snap'[d])
  BY <1>2 DEF FiniteInv
<1> QED BY <1>3 DEF FiniteInv

LEMMA FiniteNext == IInv /\ FiniteInv /\ [Next]_vars => FiniteInv'
<1> SUFFICES ASSUME IInv, FiniteInv, [Next]_vars PROVE FiniteInv'
  OBVIOUS
<1>1. CASE \/ \E d \in Devices : Move(d)
           \/ \E r \in Readers : Crash(r)
           \/ \E q \in Ports : SwapHub(q)
           \/ UNCHANGED vars
  <2>1. UNCHANGED <<snap, file>>
    BY <1>1 DEF Move, Crash, SwapHub, command, vars
  <2> QED BY <2>1 DEF FiniteInv
<1> QED BY <1>1, StepFinite DEF Next

\* An entry that is tried is one less to try, whether or not it stays in the cache.
LEMMA EntryUsedUp ==
  ASSUME IInv, FiniteInv, NEW c \in Commands, NEW key, NextEntry(c, key), wanted' = wanted,
         snap' = snap \/ snap' = [snap EXCEPT ![c] = Delete(snap[c], key)]
  PROVE  PortsLeft(c)' < PortsLeft(c)
<1> DEFINE left == Matching(snap[c], wanted[c]) \ tried[c]
           next == Matching(snap'[c], wanted'[c]) \ tried'[c]
<1>1. key \in left /\ tried'[c] = tried[c] \union {key}
  BY DEF NextEntry, MostRecent, IInv, TypeOK
<1>2. next \subseteq left \ {key}
  <2>1. snap'[c] = snap[c] \/ snap'[c] = Delete(snap[c], key)
    BY DEF IInv, TypeOK
  <2>2. Matching(snap'[c], wanted[c]) \subseteq Matching(snap[c], wanted[c])
    BY <2>1 DEF Matching, Delete
  <2> QED BY <1>1, <2>2
<1>3. IsFiniteSet(left)
  <2>1. left \subseteq DOMAIN snap[c]
    BY DEF Matching
  <2> HIDE DEF left
  <2> QED BY <2>1, FS_Subset DEF FiniteInv
<1>4. PortsLeft(c) = Cardinality(left) /\ PortsLeft(c)' = Cardinality(next)
  BY DEF PortsLeft
<1> HIDE DEF left, next
<1>5. /\ IsFiniteSet(left \ {key})
      /\ Cardinality(left) \in Nat
      /\ Cardinality(left \ {key}) = Cardinality(left) - 1
  BY <1>1, <1>3, FS_RemoveElement, FS_CardinalityType
<1>6. Cardinality(next) <= Cardinality(left \ {key}) /\ Cardinality(next) \in Nat
  BY <1>2, <1>5, FS_Subset, FS_CardinalityType
<1> QED BY <1>4, <1>5, <1>6

\* A command's own step brings it closer to its end.
LEMMA StepCloser ==
  ASSUME IInv, FiniteInv, NEW c \in Commands, Step(c), pc[c] # "idle"
  PROVE  Closer(c)
<1> USE DEF IInv, Go, Closer
<1>1. CASE \/ ConnectFinds(c) \/ ConnectFindsNone(c) \/ ReviveAtLocation(c)
           \/ ReviveRemembered(c)
  BY <1>1 DEF ConnectFinds, ConnectFindsNone, ReviveAtLocation, ReviveRemembered
<1>2. CASE LoadForFallback(c)
  BY <1>2 DEF LoadForFallback, TypeOK, Rank
<1>3. CASE TryPort(c) \/ HubMismatch(c) \/ HubUnreadable(c)
  <2>1. pc[c] = "try" /\ pc'[c] \in {"try", "cycle"} /\ wanted' = wanted
    BY <1>3 DEF TryPort, HubMismatch, HubUnreadable, NextEntry, TypeOK
  <2>2. \E key : /\ NextEntry(c, key)
                 /\ snap' = snap \/ snap' = [snap EXCEPT ![c] = Delete(snap[c], key)]
    BY <1>3 DEF TryPort, HubMismatch, HubUnreadable
  <2>3. PortsLeft(c)' < PortsLeft(c)
    BY <2>1, <2>2, EntryUsedUp
  <2> QED BY <2>1, <2>3 DEF Rank
<1>4. CASE CutPower(c) \/ RestorePower(c) \/ NoReader(c)
  <2>1. UNCHANGED <<snap, wanted, tried>>
    BY <1>4 DEF CutPower, RestorePower, NoReader
  <2>2. PortsLeft(c)' = PortsLeft(c)
    BY <2>1 DEF PortsLeft, Matching
  <2>3. \/ pc[c] = "cycle" /\ pc'[c] = "dark"
        \/ pc[c] = "dark" /\ pc'[c] = "wait"
        \/ pc[c] \in {"cycle", "dark", "wait"} /\ pc'[c] = "try"
    BY <1>4 DEF CutPower, RestorePower, NoReader, TypeOK
  <2> QED BY <2>2, <2>3 DEF Rank, Round
<1>5. CASE ReaderAppears(c)
  <2>1. pc[c] = "wait" /\ pc'[c] \in {"resolve", "remember"}
    BY <1>5 DEF ReaderAppears, TypeOK
  <2> QED BY <2>1 DEF Rank
<1>6. CASE ResolveParent(c) \/ LoadForPut(c) \/ SavePut(c) \/ NotRemembered(c)
  <2>1. \/ pc[c] = "resolve" /\ pc'[c] = "remember"
        \/ pc[c] = "remember" /\ pc'[c] = "put"
        \/ pc[c] \in {"resolve", "remember", "put"} /\ pc'[c] = "connected"
    BY <1>6 DEF ResolveParent, LoadForPut, SavePut, NotRemembered, TypeOK
  <2> QED BY <2>1 DEF Rank
<1>7. CASE SwitchToTarget(c) \/ Ends(c)
  <2>1. pc'[c] = "idle" /\ pc[c] \in Steps \ {"idle"}
    BY <1>7 DEF SwitchToTarget, Ends, Forgotten, TypeOK
  <2> QED BY <2>1 DEF Rank, Steps
<1> QED BY <1>1, <1>2, <1>3, <1>4, <1>5, <1>6, <1>7 DEF Step

\* Another command's step leaves it as it is.
LEMMA OthersUntouched ==
  ASSUME TypeOK, NEW c \in Commands, Step(c), NEW d \in Commands, d # c
  PROVE  UNCHANGED <<pc[d], snap[d], tried[d]>>
<1> USE DEF TypeOK, Go, NextEntry, Forgotten, CacheDropped
<1>1. UNCHANGED pc[d]
  BY DEF Step, ConnectFinds, ConnectFindsNone, LoadForFallback, TryPort, HubMismatch,
         HubUnreadable, ReviveAtLocation, ReviveRemembered, CutPower, RestorePower,
         NoReader, ReaderAppears, ResolveParent, LoadForPut, SavePut, NotRemembered,
         SwitchToTarget, Ends
<1>2. UNCHANGED snap[d]
  BY DEF Step, ConnectFinds, ConnectFindsNone, LoadForFallback, TryPort, HubMismatch,
         HubUnreadable, ReviveAtLocation, ReviveRemembered, CutPower, RestorePower,
         NoReader, ReaderAppears, ResolveParent, LoadForPut, SavePut, NotRemembered,
         SwitchToTarget, Ends
<1>3. UNCHANGED tried[d]
  BY DEF Step, ConnectFinds, ConnectFindsNone, LoadForFallback, TryPort, HubMismatch,
         HubUnreadable, ReviveAtLocation, ReviveRemembered, CutPower, RestorePower,
         NoReader, ReaderAppears, ResolveParent, LoadForPut, SavePut, NotRemembered,
         SwitchToTarget, Ends
<1> QED BY <1>1, <1>2, <1>3

\* However many commands there are, and whatever they save across each other, a
\* fallback tries each port it remembers once and ends.
THEOREM EveryFallbackEnds == Spec => FallbackEnds
<1>1. Init => FiniteInv
  BY FS_EmptySet DEF Init, FiniteInv, NoCache
<1>2. ASSUME IInv, FiniteInv, Next, NEW c \in Commands, pc[c] # "idle",
             <<pc[c], snap[c], tried[c]>> # <<pc[c], snap[c], tried[c]>>'
      PROVE  Closer(c)
  <2>1. CASE \E d \in Commands : Step(d)
    BY <1>2, <2>1, StepCloser, OthersUntouched DEF IInv
  <2>2. CASE \/ \E d \in Devices : Move(d)
             \/ \E r \in Readers : Crash(r)
             \/ \E q \in Ports : SwapHub(q)
    BY <1>2, <2>2 DEF Move, Crash, SwapHub, command
  <2> QED BY <1>2, <2>1, <2>2 DEF Next
<1>3. IInv /\ FiniteInv /\ [Next]_vars =>
        [\A c \in Commands :
           pc[c] # "idle" /\ <<pc[c], snap[c], tried[c]>> # <<pc[c], snap[c], tried[c]>>'
             => Closer(c)]_vars
  BY <1>2
<1> QED BY <1>1, <1>3, TypeInit, StepKeeps, FiniteNext, PTL DEF Spec, FallbackEnds
=============================================================================
