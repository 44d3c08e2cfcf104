---------------------------- MODULE CommandLine ----------------------------
(***************************************************************************)
(* How a command finds the SDWire it works on: what -s and the config      *)
(* name (cmd/sdwire/device.go), the readers that bear the name             *)
(* (identity.go), the fallback to remembered ports (sdwire.go,             *)
(* fallback.go), the commands `state`, `switch target` and `switch host`   *)
(* that decide between them, and `list`, which shows both.  The bench      *)
(* changes between any two steps.                                          *)
(*                                                                         *)
(* One command runs at a time; PortMemory has what several do to the       *)
(* cache's file, and Controller what a switch does to the reader.          *)
(***************************************************************************)
EXTENDS Naturals, Sequences, FiniteSets

CONSTANTS
  SDWires,      \* SDWires of either generation
  SDWire3s,     \* those whose hub port is remembered
  Others,       \* other USB devices
  Places,       \* hub ports, as the bus and the port path of what is plugged in
  Nowhere,      \* where an unplugged device is
  Serials,      \* the SDWires' serials
  Unknown,      \* the serial of an SDWire whose serial cannot be read
  Serial,       \* [SDWires -> Serials]
  Flags,        \* what -s may be: NoFlag, a config device's name or a selector
  NoFlag,       \* -s, or the default device, is not given
  Defaults,     \* what the config's default_device may be
  ConfigDevices,\* the config's devices: [names -> [location, serial]]
  MaxSightings, \* bound: times an SDWire is put into the cache
  MaxEvents     \* bound: times the bench is changed from outside a command

(* Selectors, by the forms that connectSelector, parseLocation and          *)
(* splitIdentity tell apart.                                               *)

Anyone           == [form |-> "any"]
NoSelector       == [form |-> "none"]
AtLocation(q)    == [form |-> "location", at |-> q]
BySerial(s)      == [form |-> "serial", serial |-> s]
ByIdentity(s, p) == [form |-> "identity", serial |-> s, path |-> p]

AllSerials == Serials \union {Unknown}

Selectors ==
  {Anyone, NoSelector} \union {AtLocation(q) : q \in Places}
    \union {BySerial(s) : s \in AllSerials}
    \union {ByIdentity(s, q.path) : s \in AllSerials, q \in Places}
    \union {ByIdentity(s, <<q.bus>> \o q.path) : s \in AllSerials, q \in Places}

ASSUME CommandLineAssumption ==
  /\ SDWire3s \subseteq SDWires
  /\ SDWires \intersect Others = {}
  /\ Places \subseteq [bus : Nat, path : Seq(Nat)]
  /\ Nowhere \notin Places
  /\ Unknown \notin Serials
  /\ Serial \in [SDWires -> Serials]
  /\ \A n \in DOMAIN ConfigDevices :
       /\ ConfigDevices[n].location \in {NoSelector} \union {AtLocation(q) : q \in Places}
       /\ ConfigDevices[n].serial \in Selectors \ {Anyone}
       /\ ConfigDevices[n].location # NoSelector \/ ConfigDevices[n].serial # NoSelector
  /\ Flags \union Defaults \subseteq
       {NoFlag} \union DOMAIN ConfigDevices \union (Selectors \ {Anyone, NoSelector})
  /\ MaxSightings \in Nat
  /\ MaxEvents \in Nat

Devices == SDWires \union Others
Keys    == AllSerials \X {q.path : q \in Places}
Entries == [port : Places, seen : Nat]

IsCache(f) == DOMAIN f \subseteq Keys /\ f \in [DOMAIN f -> Entries]

VARIABLES
  at,        \* where each device is plugged
  up,        \* the ports that are powered
  crashed,   \* SDWires torn off the bus until their power is cycled
  cache,     \* the hub-port cache
  clock,     \* sightings put into the cache so far
  events,    \* changes of the bench so far
  pc,        \* what the command does next
  cmd,       \* "state", "target", "host" or "list"
  selector,  \* what it was asked for
  fallback,  \* the serial of a config device that has a location too
  trying,    \* the selector it is trying
  errs,      \* how the selectors tried before failed
  revive,    \* whether it may power a remembered port on
  tried,     \* the keys that its way through the cache has tried
  port,      \* the port it works on
  got,       \* the SDWire it has connected to
  listed,    \* the rows of `list`, as far as it has got
  steady,    \* history: SDWires named, on the bus and seen there ever since
  bearers    \* history: the same, of those that the fallback names

bench   == <<at, up, crashed, events>>
memory  == <<cache, clock>>
asked   == <<cmd, selector, fallback>>
working == <<trying, errs, revive, tried, port, got, listed>>
history == <<steady, bearers>>
vars    == <<bench, memory, pc, asked, working, history>>

Steps ==
  {"idle", "list", "connect", "fallback", "wait", "cached", "use", "enumerate", "ports"}
Commands == {"state", "target", "host", "list"}
Failures == {"absent", "ambiguous", "failed"}

---------------------------------------------------------------------------
(* identity.go: who bears a name.                                          *)

\* A path may be given with the bus in front of it.
PathMatches(suffix, q) == suffix = q.path \/ suffix = <<q.bus>> \o q.path

SameLocation(p, q) == p.bus = q.bus /\ p.path = q.path

\* Whether the selector s names an SDWire at q that answers with that serial.
Names(s, serial, q) ==
  \/ s.form = "any"
  \/ s.form = "location" /\ SameLocation(s.at, q)
  \/ s.form = "serial" /\ s.serial = serial
  \/ s.form = "identity" /\ s.serial = serial /\ PathMatches(s.path, q)

KeyWithBus(serial, q) == <<serial, <<q.bus>> \o q.path>>

KeyOf(serial, q) == <<serial, q.path>>

FirstPicked(s, matches, d) == d \in matches

\* resolveMatch: the only match there is.  (New takes any.)
Picked(s, matches, d) == d \in matches /\ (s = Anyone \/ matches = {d})

---------------------------------------------------------------------------
(* The bus and the remembered ports.                                       *)

Attached(d) == d \notin crashed /\ at[d] \in up

SerialRead(d, readable) == IF d \in readable THEN Serial[d] ELSE Unknown

\* discover: the SDWires that s names, when the serials of some are readable.
Matches(s, readable) ==
  {d \in SDWires : Attached(d) /\ Names(s, SerialRead(d, readable), at[d])}

\* The entries that s names.
Remembered(s) == {k \in DOMAIN cache : Names(s, k[1], cache[k].port)}

MostRecent(keys) == {k \in keys : \A j \in keys : cache[j].seen <= cache[k].seen}

\* selectCacheEntry: the only one named, or else the strictly latest of a serial.
SelectCacheEntry(s, k) ==
  \/ Remembered(s) = {k}
  \/ s # Anyone /\ MostRecent(Remembered(s)) = {k}

Connected(q) == \E d \in Devices : d \notin crashed /\ at[d] = q

\* The mode that a hub port's status implies.
StatusToMode(q) ==
  IF q \notin up THEN "Target" ELSE IF Connected(q) THEN "Host" ELSE "Unknown"

PutBeside(serial, q) ==
  LET key == KeyOf(serial, q) IN
  [k \in DOMAIN cache \union {key} |->
     IF k = key THEN [port |-> q, seen |-> clock + 1] ELSE cache[k]]

\* Put: the entry goes in as just seen, others for the same port go out.
Put(serial, q) ==
  LET key == KeyOf(serial, q) IN
  [k \in {j \in DOMAIN cache : cache[j].port # q} \union {key} |->
     IF k = key THEN [port |-> q, seen |-> clock + 1] ELSE cache[k]]

Delete(key) == [k \in DOMAIN cache \ {key} |-> cache[k]]

---------------------------------------------------------------------------
(* device.go: what -s and the config ask for.                              *)

\* A config device's location goes before its serial.
ResolveSelection(flag, default) ==
  LET name == IF flag = NoFlag THEN default ELSE flag IN
  IF name = NoFlag THEN [selector |-> Anyone, fallback |-> NoSelector]
  ELSE IF name \notin DOMAIN ConfigDevices
    THEN [selector |-> name, fallback |-> NoSelector]
  ELSE LET dev == ConfigDevices[name] IN
    IF dev.location = NoSelector
      THEN [selector |-> dev.serial, fallback |-> NoSelector]
      ELSE [selector |-> dev.location, fallback |-> dev.serial]

AlwaysRevive(c) == TRUE

\* `state` never powers anything on; `switch target` only when it must.
MayRevive(c) == c = "host"

AskCacheAnyway(es) == TRUE

\* Only "nothing matched" is worth asking the cache about.
AskCache(es) == "absent" \in es

Opening(s) == IF s = Anyone THEN "list" ELSE "connect"

---------------------------------------------------------------------------
Init ==
  /\ at \in [Devices -> Places \union {Nowhere}]
  /\ \A d, e \in Devices : d # e /\ at[d] = at[e] => at[d] = Nowhere
  /\ up = Places
  /\ crashed = {}
  /\ cache = [k \in {} |-> k]
  /\ clock = 0
  /\ events = 0
  /\ pc = "idle"
  /\ cmd = "state" /\ selector = Anyone /\ fallback = NoSelector
  /\ trying = Anyone /\ errs = {} /\ revive = FALSE /\ tried = {}
  /\ port = Nowhere /\ got = Nowhere /\ listed = {}
  /\ steady = {} /\ bearers = {}

\* The process is over, and takes what it knew with it.
Ended ==
  /\ pc' = "idle"
  /\ cmd' = "state" /\ selector' = Anyone /\ fallback' = NoSelector
  /\ trying' = Anyone /\ errs' = {} /\ revive' = FALSE /\ tried' = {}
  /\ port' = Nowhere /\ got' = Nowhere /\ listed' = {}
  /\ steady' = {} /\ bearers' = {}

\* What becomes of the histories when only the SDWires in kept stay, or are seen.
Remain(kept) ==
  /\ steady' = steady \intersect kept
  /\ bearers' = bearers \intersect kept

Start ==
  /\ pc = "idle"
  /\ \E c \in Commands \ {"list"}, flag \in Flags, default \in Defaults :
       LET s == ResolveSelection(flag, default) IN
       /\ cmd' = c
       /\ selector' = s.selector
       /\ fallback' = s.fallback
       /\ trying' = s.selector
       /\ revive' = MayRevive(c)
       /\ pc' = Opening(s.selector)
       /\ steady' = Matches(s.selector, SDWires)
       /\ bearers' = Matches(s.fallback, SDWires)
  /\ UNCHANGED <<bench, memory, errs, tried, port, got, listed>>

\* openSelected gives up, after a look at the bus that showed the SDWires in
\* shown.  `state` and `switch target` turn to the cache when nothing matched.
OpenFails(es, shown) ==
  IF cmd \in {"state", "target"} /\ ~revive /\ AskCache(es)
    THEN /\ pc' = "cached"
         /\ trying' = selector
         /\ errs' = {}
         /\ Remain(shown)
         /\ UNCHANGED <<asked, revive, tried, port, got, listed>>
    ELSE Ended

\* connectSelector fails: a config device is tried by its serial once.
ConnectFails(e, shown) ==
  IF errs = {} /\ fallback # NoSelector
    THEN /\ pc' = "connect"
         /\ trying' = fallback
         /\ errs' = {e}
         /\ tried' = {}
         /\ Remain(shown)
         /\ UNCHANGED <<asked, revive, port, got, listed>>
    ELSE OpenFails(errs \union {e}, shown)

---------------------------------------------------------------------------
(* No name was given: the only SDWire on the bus, or whatever the cache      *)
(* brings back.                                                             *)

ListFindsOne ==
  /\ pc = "list"
  /\ \E readable \in SUBSET SDWires, d \in SDWires :
       /\ Matches(Anyone, readable) = {d}
       /\ trying' = ByIdentity(SerialRead(d, readable), at[d].path)
       /\ Remain(readable)
  /\ pc' = "connect"
  /\ UNCHANGED <<bench, memory, asked, errs, revive, tried, port, got, listed>>

ListFindsNone ==
  /\ pc = "list"
  /\ Matches(Anyone, SDWires) = {}
  /\ IF revive
       THEN pc' = "connect" /\ UNCHANGED <<asked, working, history>>
       ELSE OpenFails({"absent"}, SDWires)
  /\ UNCHANGED <<bench, memory>>

ListFindsMany ==
  /\ pc = "list"
  /\ \E d, e \in Matches(Anyone, SDWires) : d # e
  /\ OpenFails({"ambiguous"}, SDWires)
  /\ UNCHANGED <<bench, memory>>

---------------------------------------------------------------------------
(* connect.                                                                *)

\* newSDWire3Controller caches the port of an SDWire3, if it can.
Connects(d, serial) ==
  /\ pc' = "use"
  /\ got' = d
  /\ port' = at[d]
  /\ \/ UNCHANGED memory
     \/ /\ d \in SDWire3s
        /\ clock < MaxSightings
        /\ clock' = clock + 1
        /\ cache' = Put(serial, at[d])
  /\ UNCHANGED <<bench, asked, trying, errs, revive, tried, listed>>

ConnectFinds ==
  /\ pc = "connect"
  /\ \E readable \in SUBSET SDWires, d \in SDWires :
       /\ Picked(trying, Matches(trying, readable), d)
       /\ Connects(d, SerialRead(d, readable))
       /\ Remain(readable)

\* ErrNoDeviceFound: the remembered ports are tried, if the command may.
ConnectFindsNone ==
  /\ pc = "connect"
  /\ \E readable \in SUBSET SDWires :
       /\ Matches(trying, readable) = {}
       /\ IF revive
            THEN /\ pc' = "fallback"
                 /\ tried' = {}
                 /\ Remain(readable)
                 /\ UNCHANGED <<asked, trying, errs, revive, port, got, listed>>
            ELSE ConnectFails("absent", readable)
  /\ UNCHANGED <<bench, memory>>

ConnectFindsMany ==
  /\ pc = "connect"
  /\ trying # Anyone
  /\ \E readable \in SUBSET SDWires :
       /\ \E d, e \in Matches(trying, readable) : d # e
       /\ ConnectFails("ambiguous", readable)
  /\ UNCHANGED <<bench, memory>>

\* discover fails as a whole.
EnumerationFails ==
  /\ pc \in {"list", "connect"}
  /\ IF pc = "list" THEN OpenFails({"failed"}, {}) ELSE ConnectFails("failed", {})
  /\ UNCHANGED <<bench, memory>>

---------------------------------------------------------------------------
(* tryCacheFallback: the remembered ports, the latest first.                *)

NextEntry(k) ==
  /\ pc = "fallback"
  /\ k \in MostRecent(Remembered(trying) \ tried)
  /\ tried' = tried \union {k}

\* The hub cannot be opened; an entry whose hub is another one is removed.
HubUnusable ==
  /\ \E k \in DOMAIN cache : NextEntry(k) /\ cache' \in {cache, Delete(k)}
  /\ UNCHANGED <<bench, clock, pc, asked, trying, errs, revive, port, got, listed, history>>

\* revivePortPower: a powered port is switched off for a while first.
PowerOn ==
  /\ \E k \in DOMAIN cache :
       /\ NextEntry(k)
       /\ port' = cache[k].port
       /\ up' = up \union {port'}
       /\ crashed' = {r \in crashed : at[r] # port'}
       /\ Remain({d \in SDWires : at[d] # port'})
  /\ pc' = "wait"
  /\ UNCHANGED <<at, events, memory, asked, trying, errs, revive, got, listed>>

\* SetPower fails, before or after the port was switched off.
PowerOnFails ==
  /\ \E k \in DOMAIN cache :
       /\ NextEntry(k)
       /\ up' \in {up, up \ {cache[k].port}}
  /\ crashed' = {r \in crashed : at[r] \in up'}
  /\ Remain({d \in SDWires : at[d] \in up'})
  /\ UNCHANGED <<at, events, memory, pc, asked, trying, errs, revive, port, got, listed>>

\* openSDWireAt: any SDWire3 at the port will do.
Reappears ==
  /\ pc = "wait"
  /\ \E d \in SDWire3s, serial \in AllSerials :
       /\ Attached(d) /\ at[d] = port
       /\ serial \in {Serial[d], Unknown}
       /\ Connects(d, serial)
  /\ UNCHANGED history

NoReader ==
  /\ pc = "wait"
  /\ pc' = "fallback"
  /\ UNCHANGED <<bench, memory, asked, working, history>>

\* No entry is left, or the cache cannot be read: the pick's error is returned.
NothingRevived ==
  /\ pc = "fallback"
  /\ Remembered(trying) \subseteq tried \/ tried = {}
  /\ ConnectFails("absent", SDWires)
  /\ UNCHANGED <<bench, memory>>

---------------------------------------------------------------------------
(* cachedPortStateFor: the state of a port, from a status request alone.     *)

ReopensAlike ==
  /\ pc' = Opening(selector)
  /\ trying' = selector
  /\ errs' = {}
  /\ UNCHANGED <<asked, revive, tried, port, got, listed, history>>

\* openSelected once more, now free to power a remembered port on.
Reopens ==
  /\ pc' = Opening(selector)
  /\ trying' = selector
  /\ errs' = {}
  /\ revive' = TRUE
  /\ UNCHANGED <<asked, tried, port, got, listed, history>>

\* `state` prints it; `switch target` has nothing to do, or needs the reader.
CachedState ==
  /\ pc = "cached"
  /\ \E k \in DOMAIN cache :
       /\ SelectCacheEntry(trying, k)
       /\ IF cmd = "target" /\ StatusToMode(cache[k].port) # "Target"
            THEN Reopens
            ELSE Ended
  /\ UNCHANGED <<bench, memory>>

\* The entry, its hub or its port's status cannot be had: a config device is
\* looked up by its serial once.
CachedStateFails ==
  /\ pc = "cached"
  /\ IF errs = {} /\ fallback # NoSelector
       THEN /\ trying' = fallback
            /\ errs' = {"failed"}
            /\ UNCHANGED <<pc, asked, revive, tried, port, got, listed, history>>
       ELSE IF cmd = "target" THEN Reopens ELSE Ended
  /\ UNCHANGED <<bench, memory>>

---------------------------------------------------------------------------
(* ListDeviceStates: the SDWires on the bus, then the remembered ports.      *)

StartList ==
  /\ pc = "idle"
  /\ cmd' = "list"
  /\ pc' = "enumerate"
  /\ UNCHANGED <<bench, memory, selector, fallback, working, history>>

ListAttached ==
  /\ pc = "enumerate"
  /\ \E readable \in SUBSET SDWires :
       listed' = {[at |-> at[d], serial |-> SerialRead(d, readable), attached |-> TRUE] :
                    d \in Matches(Anyone, readable)}
  /\ pc' = "ports"
  /\ UNCHANGED <<bench, memory, asked, trying, errs, revive, tried, port, got, history>>

NoneShown(q) == FALSE

\* An SDWire was on the bus at q when the bus was looked at.
Shown(q) == \E r \in listed : r.attached /\ SameLocation(r.at, q)

\* cachedDeviceStates reads the ports one after another, in any order.  It shows
\* those with nothing connected, unless the hub cannot be opened or read.
ReadPort(k) ==
  /\ pc = "ports"
  /\ k \notin tried
  /\ tried' = tried \union {k}
  /\ LET q == cache[k].port
         row == [at |-> q, serial |-> k[1], attached |-> FALSE]
     IN  \/ UNCHANGED listed
         \/ /\ ~Shown(q)
            /\ ~(q \in up /\ Connected(q))
            /\ listed' = listed \union {row}
  /\ UNCHANGED <<bench, memory, pc, asked, trying, errs, revive, port, got, history>>

\* The list is complete, or the cache cannot be read.
PrintList ==
  /\ pc = "ports"
  /\ DOMAIN cache \subseteq tried \/ tried = {}
  /\ Ended
  /\ UNCHANGED <<bench, memory>>

---------------------------------------------------------------------------
(* The SDWire is used.                                                      *)

ReadMode ==
  /\ pc = "use"
  /\ cmd = "state"
  /\ Ended
  /\ UNCHANGED <<bench, memory>>

\* Suspended, switched off by its hub port, or not switched at all.
SetModeTarget ==
  /\ pc = "use"
  /\ cmd = "target"
  /\ up' \in {up} \union {up \ {port} : d \in {got} \intersect SDWire3s}
  /\ crashed' = {r \in crashed : at[r] \in up'}
  /\ Ended
  /\ UNCHANGED <<at, events, memory>>

\* Resumed, switched on or power-cycled by its hub port, or not switched.
SetModeHost ==
  /\ pc = "use"
  /\ cmd = "host"
  /\ up' \in {up} \union {up \union {port} : d \in {got} \intersect SDWire3s}
                  \union {up \ {port} : d \in {got} \intersect SDWire3s}
  /\ crashed' \in {crashed \intersect {r \in SDWires : at[r] \in up'},
                   {r \in crashed : at[r] # port /\ at[r] \in up'}}
  /\ Ended
  /\ UNCHANGED <<at, events, memory>>

\* Killed, or ended by an error.
Killed ==
  /\ pc # "idle"
  /\ Ended
  /\ UNCHANGED <<bench, memory>>

---------------------------------------------------------------------------
(* The bench.                                                              *)

Happens == events < MaxEvents /\ events' = events + 1

Move(d) ==
  /\ Happens
  /\ \E q \in (Places \ {at[e] : e \in Devices}) \union {Nowhere} :
       at' = [at EXCEPT ![d] = q]
  /\ crashed' = crashed \ {d}
  /\ Remain(SDWires \ {d})
  /\ UNCHANGED <<up, memory, pc, asked, working>>

Crash(d) ==
  /\ Happens
  /\ Attached(d)
  /\ crashed' = crashed \union {d}
  /\ Remain(SDWires \ {d})
  /\ UNCHANGED <<at, up, memory, pc, asked, working>>

\* Another process, or a hub of its own accord, switches a port.
PortSwitched(q) ==
  /\ Happens
  /\ up' = IF q \in up THEN up \ {q} ELSE up \union {q}
  /\ crashed' = {r \in crashed : at[r] \in up'}
  /\ Remain({d \in SDWires : at[d] \in up'})
  /\ UNCHANGED <<at, memory, pc, asked, working>>

---------------------------------------------------------------------------
Find ==
  \/ ListFindsOne \/ ListFindsNone \/ ListFindsMany
  \/ ConnectFinds \/ ConnectFindsNone \/ ConnectFindsMany \/ EnumerationFails
  \/ HubUnusable \/ PowerOn \/ PowerOnFails
  \/ Reappears \/ NoReader \/ NothingRevived
  \/ CachedState \/ CachedStateFails

Use == ReadMode \/ SetModeTarget \/ SetModeHost

Bench ==
  \/ \E d \in Devices : Move(d)
  \/ \E d \in SDWires : Crash(d)
  \/ \E q \in Places : PortSwitched(q)

List == StartList \/ ListAttached \/ (\E k \in DOMAIN cache : ReadPort(k)) \/ PrintList

Next == Start \/ Find \/ Use \/ List \/ Killed \/ Bench

Spec == Init /\ [][Next]_vars

---------------------------------------------------------------------------
(* Properties.                                                             *)

\* Every variable keeps its type, and the cache is one that Put can build.
TypeOK ==
  /\ at \in [Devices -> Places \union {Nowhere}]
  /\ up \subseteq Places
  /\ crashed \subseteq SDWires
  /\ IsCache(cache)
  /\ clock \in 0..MaxSightings
  /\ events \in 0..MaxEvents
  /\ pc \in Steps
  /\ cmd \in Commands
  /\ selector \in Selectors
  /\ fallback \in Selectors
  /\ trying \in Selectors
  /\ errs \subseteq Failures
  /\ revive \in BOOLEAN
  /\ tried \subseteq Keys
  /\ port \in Places \union {Nowhere}
  /\ got \in SDWires \union {Nowhere}
  /\ listed \subseteq [at : Places, serial : AllSerials, attached : BOOLEAN]
  /\ steady \subseteq SDWires
  /\ bearers \subseteq SDWires

\* The SDWires that have borne, all along, the name that is being tried.
Live == IF errs = {} THEN steady ELSE bearers

\* "NewWithIdentity connects to a specific SDWire device", a location goes
\* before a serial, and of several none is chosen: where an SDWire has borne
\* the name all along, the command uses that one or none, through every retry,
\* cache lookup and second opening; where two have, it uses neither.  A config
\* device's serial counts once its location has failed.
UsesTheNamed == pc = "use" => steady \union Live \subseteq {got}

\* connect: "if no attached device matches, it falls back to powering on any
\* hubpower-cached hub port": while an SDWire on the bus bears the name that is
\* tried, no remembered port is powered for it; and none is asked for its state
\* while one bears the name that the command was given.
LiveBeforeRemembered ==
  /\ pc \in {"fallback", "wait"} => Live = {}
  /\ pc = "cached" => steady = {}

\* "An ambiguous-match error means real candidates exist and should be reported,
\* not silently resolved by picking whatever the cache happens to revive": where
\* two SDWires on the bus bear a name of the device, the cache is not asked.
AmbiguityReported ==
  pc = "cached" => Cardinality(steady) < 2 /\ Cardinality(bearers) < 2

\* `state` and `list` never power a port on or off, whatever they find and
\* however they end.
StateLooksOnly ==
  [][pc # "idle" /\ cmd \in {"state", "list"} /\ ~Bench => UNCHANGED <<up, crashed>>]_vars

\* The order of what a command does between two changes of what it looks for.
Rank ==
  [list |-> 1, connect |-> 2, fallback |-> 3, wait |-> 3, cached |-> 3, use |-> 4,
   enumerate |-> 1, ports |-> 2, idle |-> 5]

\* openSelected may run twice, the second time free to power a port on, with
\* a question to the cache between; in each, two selectors may be tried.
Opens == IF revive THEN 3 ELSE IF pc = "cached" THEN 2 ELSE 1
Tries == IF errs = {} THEN 1 ELSE 2

\* The remembered ports that are still to be tried, or to be listed.
PortsLeft == Cardinality(Remembered(trying) \ tried)

\* What a step leaves to be done is less than what there was.
Closer ==
  \/ pc' = "idle"
  \/ Opens' > Opens
  \/ Opens' = Opens /\ Tries' > Tries
  \/ Opens' = Opens /\ Tries' = Tries /\ Rank[pc'] > Rank[pc]
  \/ /\ Opens' = Opens /\ Tries' = Tries /\ Rank[pc'] = Rank[pc]
     /\ PortsLeft' < PortsLeft \/ (PortsLeft' = PortsLeft /\ pc = "wait" /\ pc' = "fallback")

\* Looking for an SDWire ends: with every step that is not the bench's, selectors,
\* openings and remembered ports are used up one by one, whatever the bench does
\* meanwhile, and the opening that `switch target` makes again is its last.
SearchEnds == [][pc # "idle" /\ events' = events => Closer]_vars

\* `list` shows "the devices currently enumerated on USB, plus every hub-port
\* cache entry that is not currently producing one": no socket twice, though the
\* device there may come, go or be renamed between the looks that find it.
ListedOnce == \A r, s \in listed : SameLocation(r.at, s.at) => r = s
=============================================================================
