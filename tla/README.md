# sdwire in TLA+

sdwire moves an SD card between a test host and a target board. It drives a mux
(SDWireC, SDWire3), finds the card's block device, writes images to it, cuts and
restores the board's power, and remembers which hub port each SDWire3 is on so
that one that is off the USB bus can be powered up again. This directory holds
models of that program in TLA+, the TLC configurations that check them on small
benches, and proofs about them for benches of any size.

Paths below are relative to the repository's root. `PROJECT.json` maps every
definition to the lines it models, and lists the runs, the mutants that show
that each property can fail, the hazards and the theorems.

## Running it

    tlasany Flash.tla
    tlc -workers 2 -config MCFlash.cfg MCFlash
    tlapm FlashProofs.tla

Each `.cfg` belongs to the MC module whose name it begins with. The longest run
takes about two minutes, the longest proof about a minute and a half.

## The system

| Component | State it keeps | Operations | Modules |
|---|---|---|---|
| Flashing (`flash.go`) | offset, attempt, the image's and the device's handles | `FlashAndBoot`, `writeImageResuming`, `writeImage` | Flash, FlashPromise |
| Hub-port cache (`hubpower/cache.go`) and its users (`fallback.go`, `sdwire.go`, `controller_sdwire3.go`) | a JSON file from identities to ports, with the time last seen | `Load`, `Put`, `Delete`, `Save`; connect, its fallback, `Revive` | PortMemory, HubCache |
| Target power (`power.go`, `flash.go`, `cmd/sdwire/power.go`) | none but the times of the call | `PowerCycle`, `TargetPower`, the top-up of `FlashAndBoot`, `power on`, `off`, `cycle` | DarkTime |
| Meross plug client (`power/meross`) | none; the plug has its relay | `SetPower`, a signed HTTP request | Meross |
| SDWire3 controller (`controller_sdwire3.go`, `internal/usbsuspend`) | an open device handle, a resolved hub port | `SetMode`, `Revive`, `Mode`, `Close` | Controller |
| SDWireC controller (`controller_sdwirec.go`) | none; the chip has its pins | one FTDI transfer to set, one to read | Controller (platform "ftdi") |
| Selection and state queries (`identity.go`, `sdwire.go`, `fallback.go`, `cmd/sdwire`) | none of its own; it reads the bus and the cache | `resolveSelection`, `openSelected`, `connect`, `CachedPortState`, `ListDeviceStates`, `state`, `list`, `switch` | CommandLine |
| Block devices (`internal/blockdev`) and what uses their paths (`flash.go`, `sdwire.go`, `fallback.go`, `disk`) | none; callers keep a path | `Find`, `Size`, `Unmount`, by ioreg and diskutil, sysfs and /proc/self/mounts, or PowerShell | BlockDev |
| Hub transfers (`hubpower/power.go`) | none | `SetPower`, `Status`, `Open` | as called, in PortMemory, Controller, CommandLine |
| Config and providers (`cmd/sdwire/config.go`, `registry.go`, `options.go`) | a TOML file, read once | - | its devices are a constant of CommandLine |

They interact by calls within one process, and between processes by what they
share without any lock: the cache's file, the hubs' ports, the readers, and the
card. There are no goroutines worth the name; the concurrency is that of several
`sdwire` processes, the operating system (which enumerates, mounts, suspends and
writes back when it likes), the person at the bench who moves devices, and the
readers, which crash off the bus under load. Nearly all the difficult code is
about one of these happening between two steps of a call:

- a reader lost in mid-write, revived by a power cycle, and the write resumed;
- a cache that was loaded before a power cycle of many seconds and saved after;
- a state that was read before a suspend that takes seconds to settle;
- a call that fails after it has had its effect;
- a device that is not where it was last seen, and another that is;
- a path that was looked up, and a disk that has gone and left it to another;
- a request that was given up, and is executed later.

What makes each component correct:

- **Flashing.** The board is powered up only from a whole image, on its own side
  of the mux; nothing is written past the device, to a mounted card, or with the
  board running; whatever is lost and revived, no hole is left; and it ends.
- **Cache.** It names no port twice, remembers only what was seen, and knows
  where a device is that has stayed where it was found; to a command alone it is
  a map, and its loads and saves do not show; a fallback tries no entry twice.
- **Block devices.** A lookup answers with the one disk of the reader asked for or
  not at all; what is unmounted and written is that disk, and nothing of another.
- **Power.** A nil answer is true; no board comes up before it has been dark for
  the minimum.
- **Controllers.** A nil answer is true; an undisturbed call succeeds whatever
  earlier ones left behind; nothing mounted is yanked away; every call returns.
- **Selection.** A command uses the device that bears the name it was given, asks
  the cache only when none on the bus does, and a query changes nothing; and it
  stops looking.

## The modules

### FlashPromise and Flash

`FlashPromise` is what `FlashAndBoot`'s doc comment promises, in four variables:
the card's side, the board's power, whether the card holds the image, and the
answer. `Flash` is the code: one action per step of `FlashAndBoot` (`pc` "start"
to "boot"), the loop of `writeImage` a chunk at a time (`CopyChunk`, `CopyAtEnd`,
`CopyFails`, `ReadFails`, `Sync`), the retry loop of `writeImageResuming`
(`Revive`, the second `WaitForBlockDevice`, `UnmountRevived`), and each call's
failure. `written`, `attempt` and `polls` are the code's own counters. Around it
the environment cancels the context (`Cancel`), makes the disk appear, mounts
its volumes, loses the reader, and writes cached sectors back.

The card's content is the set `good` of sectors that hold what the image says;
`cached` are sectors whose data is still in the OS's page cache and is lost with
the reader. Lengths are in bytes, so the arithmetic of chunks, padding and the
rounding of the resume offset is that of the code. What the card is written
through is a `rig`, chosen from `Rigs` at the start: `Buffered` (raw writes are
cached, as on Linux), `LateMount` (volumes may be mounted at any time, not only
when the disk appears), `CanRevive` (an SDWire3, which `SetMode(ModeHost)` may
power-cycle as well, so that a lost reader may be back).
`SwitchTakes` says that a nil from `SetMode(ModeTarget)` is to be believed, which
is what Controller's `MovedWhenTold` establishes for the SDWire3.

`Flash` implements `FlashPromise` under the mapping `Promise`: a chunk becomes a
`WriteCard`, a failure anywhere a `GiveUp` with what was half done, and all of
the retries are invisible.

### PortMemory

Processes (`Commands`) share the cache's file and the ports' power. Each command
is a connect, with its fallback to the remembered ports, or a `Revive`. Load,
Put and Save are separate steps, and so are a fallback's load, its power cycles
and the save that removes a stale entry: a command's `snap` may be as old as the
command. A process may be killed between any two steps (`Ends`). On the bench
readers and other devices are moved, readers crash, and a hub is replaced by
another. `sighted` and `settled` are history variables: as what a reader was
ever seen at a port, and what has been cached of a reader that has not been
moved since.

### HubCache

What the cache is to a command that has it for itself: a map from names to
ports, in two variables, that a sighting (`Sight`) or the removal of stale
entries (`Forget`) changes in one step. `PortMemory` implements it while
commands do not overlap, with the file as the map: a load changes nothing, and
the save that follows, however much later, does at once what `Put` or `Delete`
did to the copy. Commands that overlap do not, since one's save undoes
another's; what is then left is the subject of `OnePerPort` and
`EntriesSighted`. `CommandLine`, which runs one command at a time and has no
file, implements it as it stands (`RemembersAlike`), so that its `cache` may be
read as PortMemory's `file`.

### BlockDev

How a path comes to stand for a reader's disk. Names of disks are sequences of
tokens, digits or runs of letters, which is what `isPartitionOf` tells apart:
`mmcblk10` is no partition of `mmcblk1`. `ref` is `blockdev.Ref`, `bears` says
which device is which disk at present. The three platforms differ in what they
search: `Registry` is ioreg's, which lists a reader more than once and its media
under one of its entries only (`WholeDisks` collects from all); Linux reads the
ids in the port's sysfs directory (`ReadIds`) and walks what is below it later
(`WalkBlocks`), when something else may be plugged in; Windows goes by vendor
and product alone. `Unmount` is one step and forced on macOS, a reading of the
mounts and one umount after another on Linux (`ReadMounts`, `Umount`,
`UmountsDone`), and nothing on Windows.

`job` is the caller: "flash" sizes, unmounts, opens, writes and, when the reader
was revived, looks up and unmounts again before it resumes; "target" is
`SetMode(ModeTarget)` and "revive" the package's `Revive`, which unmount and
then let go of the card (`pc` "away"), and proceed without unmounting when the
lookup fails (`AfterFindError`); "print" is `sdwire disk`. Between any two steps
devices are plugged and unplugged, disks appear, go and leave their names to
others, and volumes are mounted. Three history variables say what the code
cannot be blamed for: `steady` (nobody has touched the reader since the lookup
began), `late` and `fresh` (what was mounted after the unmount began, and
where).

### Meross and DarkTime

`Meross` is `SetPower`'s one request: it is executed, refused or lost; what
comes back may have another status, be unreadable, or carry the wrong method
(`Replies`, `Accepts`); the client may give up at its deadline while the plug
still has the request, which is then a stray and may be executed at any later
time (`StrayExecuted`). The button switches the plug as well. `meddled` records
that somebody other than the present call has switched the relay since the call
began.

`DarkTime` extends it with its callers: `PowerCycle`, the power half of
`FlashAndBoot`, and `sdwire power`'s three. Time is in ticks; a request takes up
to `Timeout`. `WholeSleep` is the sleep of `PowerCycle`, `TopUp` that of
`FlashAndBoot`, whose stamp `askedAt` was taken before the cut was asked for. No
time passes between a stamp and the request next to it, and a `PowerFunc` is
assumed to return within its timeout, as the Meross one does.

### Controller

`SDWire.SetMode` with the unmount before it, the `sdwire3Controller` behind it,
and the OS code it ends up in: `sdw_suspend` and `sdw_resume` on macOS (which
unconfigure before they suspend, and re-enumerate to resume), sysfs and usbfs on
Linux (where the kernel suspends on its own later), and hub-port power elsewhere
("hub"). `Revive` is the third call. The handle that keeps a reader awake, the
reader's USB state, its port's power, latch-up after too brief a cut, and the
volumes mounted are all variables, and the calls follow one another for ever,
each of them killed at any step.

The platform "ftdi" is an SDWireC: `sdwireCController.SetMode` sets the CBUS
pins (`bits`) in one transfer (`SetBits`), which may fail after it has had its
effect. The card is a disk of the host's while the pins say so; other processes
switch them (`SwitchedElsewhere`), and a reader that enumerates has them as they
come.

Timeouts carry no clock. A deadline may pass whenever what is awaited has not
come, but not in the `calm`, a state entered once and kept, in which nothing
fails that need not fail and the OS finishes what it has begun before a
deadline: `awaitState`'s and `hostWaitTimeout`'s seconds are chosen for that.
`sound` marks the calls made in the calm on a reader that was on the bus.

No suspend has taken effect when the call that asked for it returns. On macOS as
on Linux it leaves a reader that is `toSuspend`; the OS suspends it when nothing
holds it awake (`KernelSuspends`), and `Await` waits for that. On macOS the
request is used up by the suspend or by whatever ends the wait for it
(`SuspendOver`), on Linux autosuspend stays on. A controller is made with its
reader open (`OpensReader`), also when its hub port cannot be resolved, and a
revive opens it again.

### CommandLine

How a command finds its device: `ResolveSelection` from `-s`, the config and
`default_device`; `Names` and `Picked` for a selector's three forms; `connect`
against the bus; `openSelected`'s list when no name is given and its retry by
serial; the fallback's power cycles; `cachedPortStateFor`; and the decisions of
`state`, `switch target` and `switch host`, of which the second opens twice with
a look at the cache between. `list` is `ListDeviceStates`: one look at the bus
(`ListAttached`), then the remembered ports one after another in any order
(`ReadPort`), with the check that no attached reader was at the port (`Shown`)
and hubs that cannot be read. The bench moves, crashes and is switched by
others between any two steps. A serial may be unreadable at any reading of it,
and an enumeration may fail.

Two history variables say what a command could know: `steady` is the set of
SDWires that bore the first name and were on the bus when the command began and
were seen there by each of its looks since, and `bearers` is the same for the
serial that a config device falls back to. `Live` is the one of the two that
the name being tried stands for. One command runs at a time here, since
PortMemory has what several do to the file.

## The runs

| Run | Bench | What it shows |
|---|---|---|
| MCFlash | every reader and OS but those of the next run, power; 2 retries | `TypeOK`, `CardWhole` (which rests on the final Sync where writes are cached), `NoHole`, `AlignedSeek`, `WithinDevice`, no raw write to a card that was mounted before the unmount, `PromiseKept`, `NoStepInVain`, and under fairness `Returns` |
| MCFlashCachedResume | cached writes and a revive | a violation: see the disagreements below |
| MCPortMemoryShared | two commands, a reader, two ports, two hubs | `OnePerPort`, `EntriesSighted` and `FallbackEnds` across stale saves |
| MCPortMemoryAlone | one command, two readers, three sightings | `RememberedWhileThere`, `GoesStraight`, and that the cache is a `HubCache` (`AsIfAtomic`) |
| MCPortMemoryWrongReader | one command, nothing moved while it runs | a violation |
| MCBlockDev | two SDWires of one kind and a stick, two ports of one path on two buses, names that begin one another; one revive | `FindsExactly`, `OpensItsOwn`, `UnmountsItsOwn`, `WritesUnmounted`, `YanksNothing` |
| MCBlockDevWindows | Windows | a violation |
| MCDarkTime | all callers, eight ticks, a stray of either kind, the button | `NilMeansSwitched`, `DarkLongEnough`, also by default |
| MCDarkTimeSlowRelay | `FlashAndBoot`, nobody meddling | a violation |
| MCController | all four platforms | `MovedWhenTold`, `CalmSwitches`, `NotYanked`, that no reader is suspended while it is held open, `NoStepTwice`, and under fairness `CallsReturn` |
| MCCommandLine | two SDWire3s of one serial, a stick, three ports | `UsesTheNamed`, `LiveBeforeRemembered`, `StateLooksOnly`, `ListedOnce`, `SearchEnds` |
| MCCommandLineAmbiguous | two SDWire3s of one serial, which is a config device's too | a violation |

**Bounds.** Flash's image lengths (0, 3, 4, 7 bytes with sectors of two bytes
and chunks of two sectors) are nothing, an end inside a sector, an end on a
chunk, and an end inside the second chunk's last sector; devices hold less, the
image, or more than `MaxDeviceSize`. Two retries are needed for a reader that is
lost again while it resumes. One poll is enough, since a further one repeats the
same state. PortMemory and CommandLine bound sightings (`MaxSightings`) and
changes of the bench (`MaxEvents`) to two or three: a stale save takes two
sightings and a move, an entry that has been left takes two sightings and a
move, a swapped place two moves. CommandLine's ports are chosen to collide: two
have the same path on two buses, and the path of the third is the first's with
its bus in front, so that one identity names two of them. BlockDev's three
events (`MaxEvents`) are what a wrong disk takes: a disk goes, another takes its
name, and a volume of it is mounted; its names are the shortest that begin one
another, with and without a final digit. DarkTime's eight ticks (`MaxTime`) fit
a call with the longest minimum, also after one that failed; one stray and one
press (`MaxStrays`, `MaxPresses`) show all that the relay can do between two
requests. Controller needs no bound.

Symmetry is used for commands, hubs and SDWires where the constants treat them
alike, and only in runs without liveness properties. Deadlock is checked except
in Flash and BlockDev, where a call returns for good, and DarkTime, where time
runs out.

**Fairness.** Flash's `FairSpec` adds `WF_vars(Program)` for `Returns`: the
goroutine is scheduled and the calls it makes return. Every call of
`FlashAndBoot` has a timeout or fails when the reader goes; nothing is asked of
the environment, which may lose the reader at every step. A write to a device
that neither completes nor fails is excluded by it. Controller's adds, for
`CallsReturn`, `WF_vars(Work)`, since its waits (`awaitState`,
`waitForSDWireViaPort`) have deadlines and its transfers timeouts, and weak
fairness of the OS, which finishes a suspend or an enumeration that it has
begun. In the calm a deadline waits for the OS, so that the second is needed for
the first to be of use. Nobody else is fair: readers need not come back, and
strangers may come and go for ever.

## What is proved

Thirty-six theorems in six modules; each but `RemembersAlike` names the property
that a run checks, and each holds for all values of the constants that the
modules' assumptions admit (types and disjointness; sectors and chunks of at
least a byte; disks named as the kernel names them).

- **FlashProofs.** `SafeInv` (types, the offset at a sector boundary or the
  image's end, sectors within the device once the sizes were checked) is
  inductive without further assumption, and gives `TypeCorrect`, `SeeksAligned`
  and `StaysWithinDevice`. `CardInv` adds that every sector counted as written
  is good, or cached while the reader is present, and that the steps after the
  copy have them all. It is inductive under `Durable`: raw writes are not
  cached, or the reader cannot be revived. This assumption is needed, as
  MCFlashCachedResume shows. From it follow `WholeOnHandover` and `NoHoleLeft`,
  and with `SwitchTakes` the refinement `KeepsPromise`, one lemma step per
  action. The arithmetic of sectors (`SectorSplit`, `SectorDisjoint`,
  `SectorFits`, ...) is a series of lemmas of its own. `MountInv` says that a
  disk that was unmounted does not go and come back before the call has let go
  of it, unless volumes are mounted late; it gives `WritesNoMounted`.
  `BringsCloser` is about progress (see below).
- **PortMemoryProofs.** A file that names no port twice does not stay so by
  itself, since what is saved is some command's old copy. `CacheInv` says that
  every command's copy is as `Good` as the file, `CommandInv` that what it is
  about to put was read at the very port; `PutGood` and `DeleteGood` keep it.
  `NeverTwice` and `OnlySightings` follow for any number of commands. `StayInv`
  is about one command at a time (`OneCommand`) and ports whose paths differ
  without their buses (`PathsDiffer`): every cache that a command has loaded
  knows the port and the hub of each settled reader and dates it as the latest
  of its serial unless another was seen later. Two processes, or two ports of
  one path, do overwrite each other's entries, so that both assumptions are
  needed. It gives `StaysRemembered` and `CurrentPortFirst`. `SavesAsIfAtomic`
  is the refinement of HubCache under `OneCommand`: every cache that a command
  is about to save is the file with one sighting added or some names removed,
  so that each save is a `Sight` or a `Forget` and every other step a stutter.
  `EveryFallbackEnds` needs neither assumption: a fallback goes by the entries
  it loaded, which nobody else can add to.
- **BlockDevProofs.** `FindInv` carries through Linux's two-step lookup that the
  ids read are those of the device walked, unless it was touched; `OpenInv` that
  the device opened is that of the path; `MountInv` that the mountpoints still
  to be unmounted are the disk's own and all of them. Lemmas on names show that
  no disk's name passes for a partition of another (`NamesApart`), and on
  `PackLocationID` that it tells all places apart. `FindIsExact`,
  `OwnDiskOpened`, `UnmountedIsWritten`, `NothingYanked` and `OthersStayMounted`
  follow without further assumption.
- **DarkTimeProofs.** `RelayInv` says where a request is and what the relay
  shows of it; `DarkInv` relates the end of the sleep to the time the relay
  opened. `NilIsSwitched` and `StaysDark` follow for every minimum and timeout.
- **ControllerProofs.** `PlaceInv` says which call on which platform reaches
  which step; `CalmInv` what keeps a reader on its way in the calm; `YankInv`
  that nothing of before is still mounted at the steps that take the reader
  away. They give `TellsTheTruth` without assumption, `CalmCallsSwitch` where
  readers that are there can be opened, and `NothingYanked` where moreover disks
  that are there can be found. `GoesForward` has no assumption.
- **CommandLineProofs.** `SteadyInv` says what the SDWires that were there all
  along have to do with the name tried next: those of the first name until it has
  failed, then those of the config device's serial. `ListInv` says that a listed
  socket was seen on the bus or is that of an entry already read, no two entries
  having a port in common; `FlowInv` orders the retries. `NamedIsUsed`,
  `LiveFirst`, `LooksOnly`, `ListsOnce`, `RemembersAlike` and `EndsItsSearch`
  need no assumption at all.

**Progress.** Four theorems prove, for every value of the constants, the part of
termination that is safety: every step of the program brings a measure of what
it has done, bounded by its end, further on (`Rank`, `Closer`), whatever the
rest of the world does meanwhile.

- `BringsCloser` (Flash): attempts, then the step within one, then polls or bytes
  written. Losing the reader sends the flash back by steps but costs it an
  attempt, and the rounding of a resume gives bytes back only as one is used up.
  `SafeInv` bounds every part of it.
- `GoesForward` (Controller): a call climbs `Rank`, the second chance included,
  so that it answers within seven steps of its own on any platform.
- `EveryFallbackEnds` (PortMemory) and `EndsItsSearch` (CommandLine): remembered
  ports left to try, then the step. `FlowInv` says that a command that looks at
  the cache between its two openings has not been allowed to revive before, so
  that the second opening is the last.

The other half, that the program takes its steps at all and is never without
one, takes fairness and ENABLED. It is `Returns` and `CallsReturn`, which are
only model-checked: both are beyond the prover. CommandLine and PortMemory have
no liveness property, as every step of theirs is a call that returns.

## Where the code and its documents disagree

Each of these is a run that TLC finds violated.

1. `flash.go:343`: a write is resumed after what write(2) accepted; where the OS
   caches raw writes, accepted chunks die with the reader, and the flash ends in
   success with a hole (MCFlashCachedResume). README.md:158 and flash.go:371 say
   that it resumes from where it stopped.
2. `fallback.go:188`: the reader that comes up at a remembered port is not
   compared with the serial asked for (MCPortMemoryWrongReader).
3. `flash.go:173`: the top-up counts from before the cut is asked for, so a
   plug's latency shortens the dark time (MCDarkTimeSlowRelay).
4. On Windows `Find` goes by vendor and product and answers with the disk of
   another SDWire of the kind, though it "deliberately never guesses"
   (MCBlockDevWindows).
5. `cmd/sdwire/device.go:202`: both errors of a config device's lookups are
   wrapped, so that `errors.Is(err, ErrNoDeviceFound)` holds where its location
   is empty and its serial ambiguous, and `state` and `switch target` ask the
   cache (MCCommandLineAmbiguous). sdwire.go:361-363 says that an ambiguous match
   should be reported.

Noted while modelling, part of the models, and without a run of their own:

- a port is power-cycled if it is powered, whether or not its device is "absent
  or wedged", and without the unmount that `Revive` does first
  (`fallback.go:94`, `fallback.go:99`);
- the state is read once: a reader that somebody else configured and mounted
  since is re-enumerated (`controller_sdwire3.go:203`, against the comment at
  171-173);
- `SetMode(ModeTarget)` by hub power does not read back what the hub did
  (`controller_sdwire3.go:137`);
- volumes that the OS mounts late are written under (`flash.go:357`):
  `RawWriteUnmounted` excepts `LateMount`, and BlockDev's properties leave out
  what is `late`;
- `SetMode(ModeTarget)` takes the card from under a mounted volume when `Find`
  fails for any reason, not found or not, or the volume is mounted after the
  unmount (`sdwire.go:548`): Flash and BlockDev do so, and Controller does
  where its `FindMayErr` is set, which its run does not; no property of theirs
  says otherwise;
- the path of a first write is looked up once, and a disk that has taken the
  name since is sized, unmounted and written (`flash.go:185`; `steady` in
  `OpensItsOwn`);
- a stray power-on may close the relay during a later call's dark time
  (`meddled`);
- EIO of an unreadable image is taken for a lost reader (`flash.go:297`);
- a context cancelled during the last chunk still ends in a boot (`flash.go:204`);
- `FlashAndBoot` given a minimum of zero sleeps none, where `PowerCycle` falls
  back to the default (`flash.go:209`);
- a reader that is there but cannot be opened is power-cycled
  (`controller_sdwire3.go:156`): hence, and for the failing `Find`, the
  assumptions of `NothingYanked`;
- a dark port is switched on at once, however briefly it has been dark
  (`fallback.go:99`);
- one process's save may undo another's (`controller_sdwire3.go:110`), and ports
  of one path on two buses overwrite each other's entry (`identity.go:32`);
- `openSelected` and `reviveFor` retry by serial after any error, not only when
  the location "matches nothing" (`device.go:196`, `cmd/sdwire/revive.go`): a
  revive whose reader fails to come back goes on to power-cycle another port
  remembered for the serial; with no name and nothing attached, every remembered
  port is tried and not only "the sole cached device";
- `switch host` by a config device whose location is empty power-cycles the port
  remembered for that location before it tries the serial, though a reader of
  that serial is on the bus (`device.go:195-200`): `LiveBeforeRemembered` is
  about the name being tried;
- "only a device that isn't already in target mode gets revived"
  (`switch.go:83-85`), but any error of the look at the cache, and Unknown from
  the lit, empty port of a config device's old location, lead `switch target` to
  power a dark port on (`switch.go:100-105`);
- `CachedPortState` answers Host for anything connected at a remembered port,
  which `ListDeviceStates` skips;
- a serial that cannot be read makes an ambiguous name unique.

## What is not modelled

- **Parsing and printing**: ioreg's plist, PowerShell's JSON, lines of
  /proc/self/mounts, TOML, hub descriptors, the cache's JSON, tables. BlockDev
  has what the parsers list, the other modules what their callers do with a
  parse that fails.
- **The Meross protocol** below one request: signature, message ids, JSON.
  `State`, `Model` and `Electricity` only read and nothing in the program calls
  them.
- **Configuration**: a file read once per command, and a table of constructors.
- **File permissions** of the cache under sudo, and a process killed in the
  middle of writing it.
- **`flash` and `revive` as commands**: the library calls that they run are
  modelled (Flash, PortMemory, Controller, BlockDev), their flags, the order of
  `flash`'s preparations and `reviveFor`'s second try are not. `Revive` by a
  port-suffixed identity is as by serial in PortMemory.
- **Two processes on one SDWire**: nothing in the code orders them. Controller
  lets others switch the card between the steps of a call, Flash does not.
- **A clock set back**, which would make an older sighting the more recent.

## Plan

Done: Flash with its promise, the cache with its abstraction, the dark time over
the plug, both controllers, the selection, the block devices, and a proof of
every property that a passing run checks but the two of liveness. What is left,
in this order:

1. **An abstract lookup** that BlockDev implements and that Flash and Controller
   use for their `disk` and `Disk`.
2. **CardSwitch**: an abstract mux, which Controller implements and of which
   Flash's `SwitchToHost`, `SwitchToTarget` and `Revive` are uses, so that
   `SwitchTakes`, now justified by `TellsTheTruth` in words, becomes a
   consequence.
3. **Two processes on one SDWire**: Flash composed with a `switch` of another
   process over the reader's variables of Controller, to state what nothing in
   the code prevents.
4. **The commands `revive` and `flash`**: `reviveFor`'s choice of a port with
   or without a cache, and the order of `flash`'s preparations.
