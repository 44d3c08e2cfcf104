---------------------------- MODULE PortMemory ----------------------------
(***************************************************************************)
(* The hub-port cache (hubpower/cache.go) and the commands that read,      *)
(* trust and rewrite it: connect with its fallback to remembered ports     *)
(* (sdwire.go, fallback.go), the caching of a device found live            *)
(* (controller_sdwire3.go), and Revive.  Commands are processes that share *)
(* the cache's file and the hubs' ports and nothing else; any may be       *)
(* killed.  Readers and other devices are plugged, moved, unplugged and    *)
(* crash around them.                                                      *)
(*                                                                         *)
(* A port is one downstream port of one hub: a bus and a port path.  A     *)
(* device's identity is its serial and the path, without the bus.          *)
(***************************************************************************)
EXTENDS Naturals, FiniteSets

CONSTANTS
  Commands,     \* sdwire processes that may run at the same time
  Readers,      \* SDWire3 readers
  Others,       \* other USB devices that may be plugged into the same ports
  Serials,      \* the readers' serials
  Unknown,      \* the serial of a reader whose serial could not be read
  Serial,       \* [Readers -> Serials]
  Ports,        \* hub ports
  Path,         \* [Ports -> paths]: a port without its bus
  Hubs,         \* vendor/product pairs of the hubs the ports may belong to
  Anyone,       \* the selection of New: whatever is there
  Nowhere,      \* where an unplugged device is
  Selections,   \* what connects are asked for: serials, ports or Anyone
  HandsOff,     \* BOOLEAN: nothing is moved or swapped while a command runs
  MaxSightings, \* bound: times a device is put into the cache
  MaxEvents     \* bound: times the bench is changed by hand or a reader crashes

ASSUME PortMemoryAssumption ==
  /\ Serial \in [Readers -> Serials]
  /\ Unknown \notin Serials
  /\ Readers \intersect Others = {}
  /\ Nowhere \notin Ports
  /\ Serials \intersect Ports = {} /\ Anyone \notin Serials
  /\ Selections \subseteq Serials \union Ports \union {Anyone}
  /\ HandsOff \in BOOLEAN
  /\ MaxSightings \in Nat
  /\ MaxEvents \in Nat

Devices == Readers \union Others

Paths == {Path[q] : q \in Ports}
Keys  == (Serials \union {Unknown}) \X Paths

\* PortRef; LastSeen counts sightings in the place of a clock.
Entries == [port : Ports, hub : Hubs, seen : Nat]

\* The cache's map from identities to PortRefs.
IsCache(f) == DOMAIN f \subseteq Keys /\ f \in [DOMAIN f -> Entries]
NoCache == [k \in {} |-> k]

NoRef == [port |-> Nowhere, hub |-> Nowhere]

VARIABLES
  file,      \* the cache on disk
  clock,     \* sightings put into a cache so far
  at,        \* where each device is plugged
  up,        \* the ports that are powered
  crashed,   \* readers torn off the bus until their power is cycled
  hub,       \* the hub each port belongs to
  events,    \* changes of the bench so far
  pc,        \* what each command does next
  kind,      \* "connect" (New, NewWithSerial, NewWithIdentity) or "revive"
  wanted,    \* the selection a connect was given
  snap,      \* the cache as a command has loaded and changed it
  tried,     \* the keys a fallback has tried
  ref,       \* the PortRef a command works on
  held,      \* the reader a command has found there
  serial,    \* the serial it read from that reader
  sighted,   \* history: <<serial, port>> as which a reader was ever found
  settled    \* history: <<reader, key>> cached, neither moved nor replugged since

bench   == <<at, up, crashed, hub, events>>
command == <<pc, kind, wanted, snap, tried, ref, held, serial>>
vars    == <<file, clock, bench, command, sighted, settled>>

Steps == {"idle", "load", "try", "cycle", "dark", "wait", "resolve",
          "remember", "put", "connected"}

---------------------------------------------------------------------------
(* The cache's operations.                                                 *)

KeyByLocation(s, port) == <<s, port>>

KeyWithoutSerial(s, port) == <<Unknown, Path[port]>>

\* Identity: the serial and the path, without the bus.
KeyOf(s, port) == <<s, Path[port]>>

PutBeside(cache, key, r, now) ==
  [k \in DOMAIN cache \union {key} |->
     IF k = key THEN [port |-> r.port, hub |-> r.hub, seen |-> now] ELSE cache[k]]

\* Put: the entry goes in as just seen, and the entries under other keys for
\* the same port go out.
Put(cache, key, r, now) ==
  [k \in {j \in DOMAIN cache : cache[j].port # r.port} \union {key} |->
     IF k = key THEN [port |-> r.port, hub |-> r.hub, seen |-> now] ELSE cache[k]]

DeleteAll(cache, key) == NoCache

Delete(cache, key) == [k \in DOMAIN cache \ {key} |-> cache[k]]

LeastRecent(cache, keys) ==
  {k \in keys : \A j \in keys : cache[k].seen <= cache[j].seen}

\* entriesByRecency: the first of these keys, with a tie broken either way.
MostRecent(cache, keys) ==
  {k \in keys : \A j \in keys : cache[j].seen <= cache[k].seen}

\* The entries a selection names: any, by serial, or by location.
Matching(cache, selection) ==
  {k \in DOMAIN cache : selection \in {Anyone, k[1], cache[k].port}}

\* The readers on the bus that a selection names, when only the serials of
\* the readable ones can be read.
OnBus(d) == at[d] \in up /\ d \notin crashed

Candidates(selection, readable) ==
  {r \in Readers : /\ OnBus(r)
                   /\ \/ selection \in {Anyone, at[r]}
                      \/ r \in readable /\ selection = Serial[r]}

---------------------------------------------------------------------------
Init ==
  /\ file = NoCache
  /\ clock = 0
  /\ at \in [Devices -> Ports \union {Nowhere}]
  /\ \A d, e \in Devices : d # e /\ at[d] = at[e] => at[d] = Nowhere
  /\ up = Ports
  /\ crashed = {}
  /\ hub \in [Ports -> Hubs]
  /\ events = 0
  /\ pc = [c \in Commands |-> "idle"]
  /\ kind = [c \in Commands |-> "connect"]
  /\ wanted = [c \in Commands |-> Anyone]
  /\ snap = [c \in Commands |-> NoCache]
  /\ tried = [c \in Commands |-> {}]
  /\ ref = [c \in Commands |-> NoRef]
  /\ held = [c \in Commands |-> Nowhere]
  /\ serial = [c \in Commands |-> Unknown]
  /\ sighted = {}
  /\ settled = {}

Go(c, from, to) == pc[c] = from /\ pc' = [pc EXCEPT ![c] = to]

\* The process is over, and takes what it knew with it.
Forgotten(c) ==
  /\ pc' = [pc EXCEPT ![c] = "idle"]
  /\ kind' = [kind EXCEPT ![c] = "connect"]
  /\ wanted' = [wanted EXCEPT ![c] = Anyone]
  /\ snap' = [snap EXCEPT ![c] = NoCache]
  /\ tried' = [tried EXCEPT ![c] = {}]
  /\ ref' = [ref EXCEPT ![c] = NoRef]
  /\ held' = [held EXCEPT ![c] = Nowhere]
  /\ serial' = [serial EXCEPT ![c] = Unknown]

\* The function that loaded the cache returns.
CacheDropped(c) ==
  /\ snap' = [snap EXCEPT ![c] = NoCache]
  /\ tried' = [tried EXCEPT ![c] = {}]

\* describeDevice: the reader r answers with serial s, or with none.
Describe(c, r, s) ==
  /\ held' = [held EXCEPT ![c] = r]
  /\ serial' = [serial EXCEPT ![c] = s]
  /\ sighted' = sighted \union {<<s, at[r]>>}

---------------------------------------------------------------------------
(* connect: discover, pick, and the fallback to the remembered ports.      *)

\* New takes the first reader, the other constructors the only one.
ConnectFinds(c) ==
  /\ Go(c, "idle", "resolve")
  /\ \E selection \in Selections, readable \in SUBSET Readers :
       \E r \in Candidates(selection, readable) :
         /\ selection = Anyone \/ Candidates(selection, readable) = {r}
         /\ wanted' = [wanted EXCEPT ![c] = selection]
         /\ ref' = [ref EXCEPT ![c] = [port |-> at[r], hub |-> Nowhere]]
         /\ Describe(c, r, IF r \in readable THEN Serial[r] ELSE Unknown)
  /\ UNCHANGED <<file, clock, bench, kind, snap, tried, settled>>

\* ErrNoDeviceFound.  (More than one match ends the command at once.)
ConnectFindsNone(c) ==
  /\ Go(c, "idle", "load")
  /\ \E selection \in Selections, readable \in SUBSET Readers :
       /\ Candidates(selection, readable) = {}
       /\ wanted' = [wanted EXCEPT ![c] = selection]
  /\ UNCHANGED <<file, clock, bench, kind, snap, tried, ref, held, serial,
                 sighted, settled>>

LoadForFallback(c) ==
  /\ Go(c, "load", "try")
  /\ snap' = [snap EXCEPT ![c] = file]
  /\ UNCHANGED <<file, clock, bench, kind, wanted, tried, ref, held, serial,
                 sighted, settled>>

NextOfAll(c, key) ==
  /\ pc[c] = "try"
  /\ key \in MostRecent(snap[c], Matching(snap[c], wanted[c]))
  /\ tried' = [tried EXCEPT ![c] = @ \union {key}]

\* The most recent matching entry that is still to be tried is tried next.
NextEntry(c, key) ==
  /\ pc[c] = "try"
  /\ key \in MostRecent(snap[c], Matching(snap[c], wanted[c]) \ tried[c])
  /\ tried' = [tried EXCEPT ![c] = @ \union {key}]

TryPort(c) ==
  /\ Go(c, "try", "cycle")
  /\ \E key \in DOMAIN snap[c] :
       LET entry == snap[c][key] IN
       /\ NextEntry(c, key)
       /\ hub[entry.port] = entry.hub
       /\ ref' = [ref EXCEPT ![c] = [port |-> entry.port, hub |-> entry.hub]]
  /\ UNCHANGED <<file, clock, bench, kind, wanted, snap, held, serial,
                 sighted, settled>>

\* ErrHubMismatch: the entry is stale.  All of the cache loaded before is
\* saved without it, unless the save fails.
HubMismatch(c) ==
  /\ \E key \in DOMAIN snap[c] :
       /\ NextEntry(c, key)
       /\ hub[snap[c][key].port] # snap[c][key].hub
       /\ snap' = [snap EXCEPT ![c] = Delete(snap[c], key)]
  /\ file' \in {file, snap'[c]}
  /\ UNCHANGED <<clock, bench, pc, kind, wanted, ref, held, serial,
                 sighted, settled>>

\* The hub is not there, or cannot be opened.
HubUnreadable(c) ==
  /\ \E key \in DOMAIN snap[c] : NextEntry(c, key)
  /\ UNCHANGED <<file, clock, bench, pc, kind, wanted, snap, ref, held, serial,
                 sighted, settled>>

---------------------------------------------------------------------------
(* Revive: one port, by its location or out of the cache.                  *)

ReviveAtLocation(c) ==
  /\ Go(c, "idle", "cycle")
  /\ \E q \in Ports : ref' = [ref EXCEPT ![c] = [port |-> q, hub |-> hub[q]]]
  /\ kind' = [kind EXCEPT ![c] = "revive"]
  /\ UNCHANGED <<file, clock, bench, wanted, snap, tried, held, serial,
                 sighted, settled>>

\* selectCacheEntry: the only entry, or the serial's strictly latest one.
ReviveRemembered(c) ==
  /\ Go(c, "idle", "cycle")
  /\ \E selection \in Serials \union {Anyone} :
     \E key \in Matching(file, selection) :
       LET entry == file[key] IN
       /\ IF selection = Anyone
            THEN Matching(file, selection) = {key}
            ELSE MostRecent(file, Matching(file, selection)) = {key}
       /\ hub[entry.port] = entry.hub
       /\ ref' = [ref EXCEPT ![c] = [port |-> entry.port, hub |-> entry.hub]]
  /\ kind' = [kind EXCEPT ![c] = "revive"]
  /\ UNCHANGED <<file, clock, bench, wanted, snap, tried, held, serial,
                 sighted, settled>>

---------------------------------------------------------------------------
(* revivePortPower and waitForSDWireViaPort.                               *)

HubStillOpen(c) == hub[ref[c].port] = ref[c].hub

\* A powered port is switched off; one that is not, or whose status cannot be
\* read, is left alone.
CutPower(c) ==
  /\ Go(c, "cycle", "dark")
  /\ HubStillOpen(c)
  /\ up' \in {up, up \ {ref[c].port}}
  /\ crashed' = {r \in crashed : at[r] \in up'}
  /\ UNCHANGED <<file, clock, at, hub, events, kind, wanted, snap, tried, ref, held,
                 serial, sighted, settled>>

RestorePower(c) ==
  /\ Go(c, "dark", "wait")
  /\ HubStillOpen(c)
  /\ up' = up \union {ref[c].port}
  /\ UNCHANGED <<file, clock, at, crashed, hub, events, kind, wanted, snap, tried, ref,
                 held, serial, sighted, settled>>

\* SetPower fails, or no SDWire3 is back in time: a fallback tries its next
\* entry.  (A revive ends.)
NoReader(c) ==
  /\ pc[c] \in {"cycle", "dark", "wait"}
  /\ kind[c] = "connect"
  /\ pc' = [pc EXCEPT ![c] = "try"]
  /\ UNCHANGED <<file, clock, bench, kind, wanted, snap, tried, ref, held,
                 serial, sighted, settled>>

\* openSDWireAt: whatever SDWire3 is at the port is the one.
ReaderAppears(c) ==
  /\ Go(c, "wait", IF kind[c] = "connect" THEN "resolve" ELSE "remember")
  /\ \E r \in Readers :
       /\ OnBus(r) /\ at[r] = ref[c].port
       /\ \E s \in {Serial[r], Unknown} : Describe(c, r, s)
  /\ CacheDropped(c)
  /\ UNCHANGED <<file, clock, bench, kind, wanted, ref, settled>>

---------------------------------------------------------------------------
(* newSDWire3Controller and cachePortRef: the device found is remembered.  *)

ResolveParent(c) ==
  /\ Go(c, "resolve", "remember")
  /\ ref' = [ref EXCEPT ![c] = [port |-> @.port, hub |-> hub[@.port]]]
  /\ UNCHANGED <<file, clock, bench, kind, wanted, snap, tried, held, serial,
                 sighted, settled>>

PutWithoutLoad(c) ==
  /\ Go(c, "remember", "put")
  /\ UNCHANGED <<file, clock, bench, kind, wanted, snap, tried, ref, held, serial,
                 sighted, settled>>

LoadForPut(c) ==
  /\ Go(c, "remember", "put")
  /\ snap' = [snap EXCEPT ![c] = file]
  /\ UNCHANGED <<file, clock, bench, kind, wanted, tried, ref, held, serial,
                 sighted, settled>>

\* Put, and Save's rename of a whole new file over the old one.
SavePut(c) ==
  /\ Go(c, "put", "connected")
  /\ clock < MaxSightings
  /\ clock' = clock + 1
  /\ LET key == KeyOf(serial[c], ref[c].port) IN
     /\ file' = Put(snap[c], key, ref[c], clock')
     /\ settled' = IF at[held[c]] = ref[c].port /\ HubStillOpen(c)
                     THEN {p \in settled : p[1] # held[c]} \union {<<held[c], key>>}
                     ELSE settled
  /\ CacheDropped(c)
  /\ UNCHANGED <<bench, kind, wanted, ref, held, serial, sighted>>

\* The parent cannot be resolved, or the cache not be loaded or saved: the
\* device is used all the same.
NotRemembered(c) ==
  /\ pc[c] \in {"resolve", "remember", "put"}
  /\ pc' = [pc EXCEPT ![c] = "connected"]
  /\ CacheDropped(c)
  /\ UNCHANGED <<file, clock, bench, kind, wanted, ref, held, serial,
                 sighted, settled>>

\* SetMode(ModeTarget) where USB suspend is not supported: the port goes dark.
SwitchToTarget(c) ==
  /\ pc[c] = "connected"
  /\ kind[c] = "connect"
  /\ HubStillOpen(c)
  /\ up' = up \ {ref[c].port}
  /\ crashed' = {r \in crashed : at[r] \in up'}
  /\ Forgotten(c)
  /\ UNCHANGED <<file, clock, at, hub, events, sighted, settled>>

\* A command has done its work, has no entry left to try, meets an error that
\* ends it, or is killed: between any two steps, and with a port left dark.
Ends(c) ==
  /\ pc[c] # "idle"
  /\ Forgotten(c)
  /\ UNCHANGED <<file, clock, bench, sighted, settled>>

---------------------------------------------------------------------------
(* The bench.                                                              *)

Happens ==
  /\ HandsOff => \A c \in Commands : pc[c] = "idle"
  /\ events < MaxEvents
  /\ events' = events + 1

Unsettle(here) == settled' = {p \in settled : p[1] \notin here}

\* A device is unplugged, or plugged into a free port.
Move(d) ==
  /\ Happens
  /\ \E q \in (Ports \ {at[e] : e \in Devices}) \union {Nowhere} :
       at' = [at EXCEPT ![d] = q]
  /\ crashed' = crashed \ {d}
  /\ Unsettle({d})
  /\ UNCHANGED <<file, clock, up, hub, command, sighted>>

Crash(r) ==
  /\ Happens
  /\ OnBus(r)
  /\ crashed' = crashed \union {r}
  /\ UNCHANGED <<file, clock, at, up, hub, command, sighted, settled>>

\* Another hub takes the place of a port's, with its ports powered.
SwapHub(q) ==
  /\ Happens
  /\ \E h \in Hubs \ {hub[q]} : hub' = [hub EXCEPT ![q] = h]
  /\ up' = up \union {q}
  /\ crashed' = {r \in crashed : at[r] # q}
  /\ Unsettle({d \in Devices : at[d] = q})
  /\ UNCHANGED <<file, clock, at, command, sighted>>

---------------------------------------------------------------------------
Step(c) ==
  \/ ConnectFinds(c) \/ ConnectFindsNone(c) \/ LoadForFallback(c)
  \/ TryPort(c) \/ HubMismatch(c) \/ HubUnreadable(c)
  \/ ReviveAtLocation(c) \/ ReviveRemembered(c)
  \/ CutPower(c) \/ RestorePower(c) \/ NoReader(c) \/ ReaderAppears(c)
  \/ ResolveParent(c) \/ LoadForPut(c) \/ SavePut(c) \/ NotRemembered(c)
  \/ SwitchToTarget(c) \/ Ends(c)

Next ==
  \/ \E c \in Commands : Step(c)
  \/ \E d \in Devices : Move(d)
  \/ \E r \in Readers : Crash(r)
  \/ \E q \in Ports : SwapHub(q)

Spec == Init /\ [][Next]_vars

---------------------------------------------------------------------------
(* Properties.                                                             *)

\* Every variable keeps its type.
TypeOK ==
  /\ IsCache(file)
  /\ clock \in 0..MaxSightings
  /\ at \in [Devices -> Ports \union {Nowhere}]
  /\ up \subseteq Ports
  /\ crashed \subseteq Readers
  /\ hub \in [Ports -> Hubs]
  /\ events \in 0..MaxEvents
  /\ pc \in [Commands -> Steps]
  /\ kind \in [Commands -> {"connect", "revive"}]
  /\ wanted \in [Commands -> Selections \union {Anyone}]
  /\ snap = [c \in Commands |-> snap[c]] /\ \A c \in Commands : IsCache(snap[c])
  /\ tried \in [Commands -> SUBSET Keys]
  /\ ref \in [Commands -> [port : Ports \union {Nowhere}, hub : Hubs \union {Nowhere}]]
  /\ held \in [Commands -> Readers \union {Nowhere}]
  /\ serial \in [Commands -> Serials \union {Unknown}]
  /\ sighted \subseteq (Serials \union {Unknown}) \X Ports
  /\ settled \subseteq Readers \X Keys

\* "Only one device can be attached to a port at a time": whatever the commands
\* load, change and save across each other, no two entries of the cache name
\* one port, so that a lookup by location is never ambiguous.
OnePerPort ==
  \A j, k \in DOMAIN file : file[j].port = file[k].port => j = k

\* The cache remembers nothing that was not seen: each entry is a reader that
\* answered with that serial at that very port, and its key has the port's path.
EntriesSighted ==
  \A k \in DOMAIN file :
    /\ k[2] = Path[file[k].port]
    /\ <<k[1], file[k].port>> \in sighted

\* "Any command that finds a device live rewrites its entry": while the device
\* stays where it was found, the cache knows it is there.
RememberedWhileThere ==
  \A p \in settled :
    p[2] \in DOMAIN file /\ file[p[2]].port = at[p[1]]

\* A reader that has moved between sockets "is found at its current one before
\* its hub port is power-cycled through every socket it has since left": no
\* port's power is touched for a serial before that of the reader that bears it.
GoesStraight ==
  \A c \in Commands, p \in settled :
    /\ pc[c] = "cycle" /\ kind[c] = "connect"
    /\ wanted[c] = Serial[p[1]] /\ p[2][1] = wanted[c]
    /\ \A r \in Readers : Serial[r] = wanted[c] => r = p[1]
    => p[2] \in tried[c]

\* "NewWithSerial connects to a specific SDWire device by its serial number":
\* the reader a command works on has the serial it was asked for.
RightReader ==
  \A c \in Commands :
    held[c] \in Readers /\ wanted[c] \in Serials => Serial[held[c]] = wanted[c]

\* What a file's entries say of ports.
Memory == INSTANCE HubCache WITH
  Identities <- Keys,
  cache <- [k \in DOMAIN file |-> [port |-> file[k].port, seen |-> file[k].seen]]

\* "Put records ref as the PortRef for key, dropping any entry under a different key
\* that names the same physical hub port": where commands do not overlap, a load and
\* the save that follows it, or does not, are one such step on what all of them
\* remember, wherever a command is killed.
AsIfAtomic == Memory!Spec

\* The order of what a command does.  A fallback goes round from "try" to "wait".
Rank ==
  [load |-> 1, cycle |-> 2, dark |-> 2, wait |-> 2, try |-> 2, resolve |-> 3,
   remember |-> 4, put |-> 5, connected |-> 6, idle |-> 7]
Round == [cycle |-> 1, dark |-> 2, wait |-> 3, try |-> 4]

\* The remembered ports that a fallback may still power-cycle.
PortsLeft(c) == Cardinality(Matching(snap[c], wanted[c]) \ tried[c])

\* What the command does next is later in its order; or it is another of the
\* remembered ports; or it is further round the one it is at.
Closer(c) ==
  \/ Rank[pc'[c]] > Rank[pc[c]]
  \/ /\ Rank[pc'[c]] = 2 /\ Rank[pc[c]] = 2
     /\ \/ PortsLeft(c)' < PortsLeft(c)
        \/ PortsLeft(c)' = PortsLeft(c) /\ Round[pc'[c]] > Round[pc[c]]

\* A fallback tries each remembered port once and ends, whatever other commands
\* put into the file and however often its own saves fail meanwhile.
FallbackEnds ==
  [][\A c \in Commands :
       pc[c] # "idle" /\ <<pc[c], snap[c], tried[c]>> # <<pc[c], snap[c], tried[c]>>'
         => Closer(c)]_vars
=============================================================================
