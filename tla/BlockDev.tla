------------------------------ MODULE BlockDev ------------------------------
(***************************************************************************)
(* How a reader's block device is found, unmounted and opened by its path: *)
(* Find, Size and Unmount of internal/blockdev on macOS, Linux and         *)
(* Windows, and their callers FlashAndBoot and writeImageResuming          *)
(* (flash.go), SDWire.SetMode (sdwire.go), Revive (fallback.go) and        *)
(* `sdwire disk`.  Between any two steps devices are plugged and           *)
(* unplugged, disks appear and go and leave their names to others, and     *)
(* volumes are mounted and unmounted.                                      *)
(*                                                                         *)
(* A disk's name is a sequence of tokens, each a digit or a run of letters *)
(* ("mmcblk", "1", "0"), which is what isPartitionOf tells apart.  Ports   *)
(* are leaves: a reader has nothing plugged into it.                       *)
(***************************************************************************)
EXTENDS Naturals, Sequences

CONSTANTS
  Platforms,    \* what the host may be: "darwin", "linux", "windows"
  Places,       \* bus and port path of the ports: [bus, path] records
  Devices,      \* what may be plugged into them
  KindOf,       \* KindOf[d]: the vendor and product of d
  Readers,      \* the kinds that are SDWires
  Letters,      \* runs of letters, as tokens of names
  Names,        \* the names of whole disks
  Parts,        \* the numbers of partitions; "" stands for the whole disk
  Points,       \* mountpoints
  Nobody,       \* no device
  NoPath,       \* no disk's name
  WriteRetries, \* WithWriteRetries
  MaxEvents     \* bound on what the bench does

VARIABLES
  os,       \* the host's platform; never changes
  plugged,  \* plugged[p]: the device in p, or Nobody
  bears,    \* bears[n]: the device that is the whole disk n, or Nobody
  mounts,   \* what is mounted: [at, disk, part] records
  events,   \* what the bench has done
  ref,      \* blockdev.Ref, with a place for its bus and ports; never changes
  job,      \* what asks; never changes
  pc,       \* the next step of the job, or how it ended
  lookup,   \* what the last Find answered
  path,     \* the device path that the job holds
  todo,     \* Linux: mountpoints that Unmount has read and not yet unmounted
  errs,     \* Linux: an umount has failed
  opened,   \* the device that openRawDevice has opened
  revives,  \* how often the reader was revived
  steady,   \* history: the reader and its disks are what they were at that Find
  late,     \* history: a volume of path was mounted since Unmount began
  fresh     \* history: mountpoints mounted on since Unmount read them

bench   == <<plugged, bears, mounts, events>>
fixed   == <<os, ref, job>>
found   == <<lookup, path>>
umount  == <<todo, errs>>
history == <<steady, late, fresh>>
vars    == <<fixed, bench, pc, found, umount, opened, revives, history>>

\* Both SetMode(ModeTarget) and Revive unmount before the reader is let go of.
LettingGo == {"target", "revive"}
Jobs      == LettingGo \union {"flash", "print"}

Answers == {"none", "found", "notfound", "ambiguous", "broken"}
Steps   == {"find", "walk", "again", "size", "unmount", "umounting", "open",
            "write", "revive"}
Ends    == {"done", "away", "printed", "failed"}

---------------------------------------------------------------------------
(* Names and places.                                                       *)

Digits == {"0", "1", "2", "3", "4", "5", "6", "7", "8", "9"}

Tokens == Letters \union Digits \union {"p"}

EndsInDigit(name) == Len(name) > 0 /\ name[Len(name)] \in Digits

\* The kernel's name of a whole disk's partition.
NodeName(v) ==
  IF v.part = "" THEN v.disk
  ELSE IF EndsInDigit(v.disk) THEN v.disk \o <<"p", v.part>>
  ELSE v.disk \o <<v.part>>

\* strings.CutPrefix and what is left.
HasPrefix(s, prefix) ==
  Len(prefix) <= Len(s) /\ \A i \in 1..Len(prefix) : s[i] = prefix[i]

Numbered(s, from) == from <= Len(s) /\ \A i \in from..Len(s) : s[i] \in Digits

PrefixIsEnough(disk, candidate) ==
  \/ candidate = disk
  \/ HasPrefix(candidate, disk) /\ Numbered(candidate, Len(disk) + 1)

\* isPartitionOf: a name that ends in a digit needs the "p" before the number.
IsPartitionOf(disk, candidate) ==
  \/ candidate = disk
  \/ /\ HasPrefix(candidate, disk)
     /\ IF EndsInDigit(disk)
        THEN HasPrefix(candidate, disk \o <<"p">>) /\ Numbered(candidate, Len(disk) + 2)
        ELSE Numbered(candidate, Len(disk) + 1)

\* PackLocationID: the bus in a byte and six ports in a nibble each.
PackLocationID(p) ==
  [bus   |-> p.bus % 256,
   ports |-> [i \in 1..6 |-> IF i <= Len(p.path) THEN p.path[i] % 16 ELSE 0]]

\* The kernel's names: where one whole disk's begins another's, what follows is
\* not what would make it a partition.
NamesApart ==
  \A n, m \in Names :
    n # m /\ HasPrefix(m, n) =>
      IF EndsInDigit(n) THEN m[Len(n) + 1] # "p" ELSE m[Len(n) + 1] \notin Digits

ASSUME BlockDevAssumption ==
  /\ Platforms \subseteq {"darwin", "linux", "windows"}
  /\ Places \subseteq [bus : 0..255, path : Seq(1..15)]
  /\ \A p \in Places : Len(p.path) <= 6
  /\ Readers \subseteq {KindOf[d] : d \in Devices}
  /\ Nobody \notin Devices
  /\ NoPath \notin Names
  /\ Names \subseteq Seq(Tokens)
  /\ NamesApart
  /\ "" \in Parts /\ Parts \subseteq Digits \union {""}
  /\ WriteRetries \in Nat
  /\ MaxEvents \in Nat

---------------------------------------------------------------------------
(* The bench.                                                              *)

DisksOf(d) == {n \in Names : bears[n] = d}

\* The disks of the SDWire that ref names.
OwnDisks ==
  {n \in Names : /\ bears[n] # Nobody
                 /\ bears[n] = plugged[ref.place]
                 /\ KindOf[bears[n]] = ref.kind}

Volumes == [at : Points, disk : Names, part : Parts]

Mounted(n) == \E v \in mounts : v.disk = n

\* Where disks go: macOS and Windows drop their volumes, Linux's stay listed
\* until they are unmounted.
MountsWithout(gone) ==
  IF os = "linux" THEN mounts ELSE {v \in mounts : v.disk \notin gone}

Init ==
  /\ os \in Platforms
  /\ plugged \in [Places -> Devices \union {Nobody}]
  /\ \A p, q \in Places : plugged[p] = plugged[q] /\ plugged[p] # Nobody => p = q
  /\ bears \in [Names -> Devices \union {Nobody}]
  /\ \A n \in Names : bears[n] # Nobody => \E p \in Places : plugged[p] = bears[n]
  /\ mounts = {}
  /\ events = 0
  /\ ref \in [place : Places, kind : Readers]
  /\ job \in Jobs
  /\ pc = "find"
  /\ lookup = "none"
  /\ path = NoPath
  /\ todo = {}
  /\ errs = FALSE
  /\ opened = Nobody
  /\ revives = 0
  /\ steady = TRUE
  /\ late = FALSE
  /\ fresh = {}

Event == events < MaxEvents /\ events' = events + 1

Touches(d) == steady' = (steady /\ plugged[ref.place] # d)

PlugIn(d, p) ==
  /\ Event
  /\ plugged[p] = Nobody
  /\ \A q \in Places : plugged[q] # d
  /\ plugged' = [plugged EXCEPT ![p] = d]
  /\ steady' = (steady /\ p # ref.place)
  /\ UNCHANGED <<fixed, bears, mounts, pc, found, umount, opened, revives, late, fresh>>

Unplug(p) ==
  /\ Event
  /\ plugged[p] # Nobody
  /\ Touches(plugged[p])
  /\ plugged' = [plugged EXCEPT ![p] = Nobody]
  /\ bears' = [n \in Names |-> IF bears[n] = plugged[p] THEN Nobody ELSE bears[n]]
  /\ mounts' = MountsWithout(DisksOf(plugged[p]))
  /\ UNCHANGED <<fixed, pc, found, umount, opened, revives, late, fresh>>

\* A card comes to a reader, or a stick is ready, and gets a name not in use.
DiskAppears(d, n) ==
  /\ Event
  /\ \E p \in Places : plugged[p] = d
  /\ bears[n] = Nobody /\ ~Mounted(n)
  /\ Touches(d)
  /\ bears' = [bears EXCEPT ![n] = d]
  /\ UNCHANGED <<fixed, plugged, mounts, pc, found, umount, opened, revives, late, fresh>>

DiskGoes(n) ==
  /\ Event
  /\ bears[n] # Nobody
  /\ Touches(bears[n])
  /\ bears' = [bears EXCEPT ![n] = Nobody]
  /\ mounts' = MountsWithout({n})
  /\ UNCHANGED <<fixed, plugged, pc, found, umount, opened, revives, late, fresh>>

Unmounting == pc \in {"umounting", "open", "write", "away"}

Mount(v) ==
  /\ Event
  /\ bears[v.disk] # Nobody
  /\ \A w \in mounts : w.at # v.at
  /\ mounts' = mounts \union {v}
  /\ late' = (late \/ (Unmounting /\ v.disk = path))
  /\ fresh' = IF Unmounting THEN fresh \union {v.at} ELSE fresh
  /\ UNCHANGED <<fixed, plugged, bears, pc, found, umount, opened, revives, steady>>

UserUnmounts(v) ==
  /\ Event
  /\ mounts' = mounts \ {v}
  /\ UNCHANGED <<fixed, plugged, bears, pc, found, umount, opened, revives, history>>

Bench ==
  \/ \E d \in Devices, p \in Places : PlugIn(d, p)
  \/ \E p \in Places : Unplug(p)
  \/ \E d \in Devices, n \in Names : DiskAppears(d, n)
  \/ \E n \in Names : DiskGoes(n)
  \/ \E v \in Volumes : Mount(v)
  \/ \E v \in mounts : UserUnmounts(v)

---------------------------------------------------------------------------
(* Find: what each platform looks at.                                      *)

\* ioreg -l on macOS: a device is there more than once, and its media under
\* one of its entries only: its whole disks' and their partitions'.
MediaOf(d) == [disk : DisksOf(d), part : Parts]

Entry(p, media) ==
  [location |-> PackLocationID(p), kind |-> KindOf[plugged[p]], media |-> media]

Occupied == {p \in Places : plugged[p] # Nobody}

Registry == UNION {{Entry(p, {}), Entry(p, MediaOf(plugged[p]))} : p \in Occupied}

\* isMatchingUSBDevice.
Matching ==
  {e \in Registry : e.location = PackLocationID(ref.place) /\ e.kind = ref.kind}

\* isWholeDiskMedia.
WholeDisksUnder(e) == {v.disk : v \in {w \in e.media : w.part = ""}}

WholeDisksOfFirst ==
  IF Matching = {} THEN {} ELSE WholeDisksUnder(CHOOSE e \in Matching : TRUE)

\* collectWholeDisks: of every matching entry.
WholeDisks == UNION {WholeDisksUnder(e) : e \in Matching}

\* findWindows: disk drives by vendor and product only.
DrivesOfKind == {n \in Names : bears[n] # Nobody /\ KindOf[bears[n]] = ref.kind}

---------------------------------------------------------------------------
(* Find: what it answers.                                                  *)

Go(from, to) == pc = from /\ pc' = to

KeepsFirstPath(n) == path' = IF path = NoPath THEN n ELSE path

TakesPath(n) == path' = n

\* What follows the lookup in each job.
AfterFound ==
  CASE job = "flash" /\ revives = 0 -> "size"
    [] job = "flash" /\ revives > 0 -> "unmount"
    [] job \in LettingGo            -> "unmount"
    [] job = "print"                -> "printed"

\* waitForBlockDevice polls again; SetMode and Revive proceed; `sdwire disk` fails.
AfterNotFound ==
  CASE job = "flash"      -> "again"
    [] job \in LettingGo -> "away"
    [] job = "print"      -> "failed"

AfterFindError == IF job \in LettingGo THEN "away" ELSE "failed"

\* One candidate, none, or several: Find never picks one.
Answer(disks) ==
  /\ \/ /\ disks = {}
        /\ lookup' = "notfound" /\ pc' = AfterNotFound /\ UNCHANGED path
     \/ \E n \in disks :
          /\ disks = {n}
          /\ lookup' = "found" /\ pc' = AfterFound /\ TakesPath(n)
     \/ /\ disks # {} /\ \A n \in disks : disks # {n}
        /\ lookup' = "ambiguous" /\ pc' = AfterFindError /\ UNCHANGED path
  /\ late' = FALSE
  /\ fresh' = {}

\* ioreg or PowerShell fails, or a sysfs directory goes while it is walked.
FindBreaks ==
  /\ pc = IF os = "linux" THEN "walk" ELSE "find"
  /\ pc' = AfterFindError
  /\ lookup' = "broken"
  /\ UNCHANGED <<fixed, bench, path, umount, opened, revives, history>>

FindDarwin ==
  /\ os = "darwin" /\ pc = "find"
  /\ Answer(WholeDisks)
  /\ steady' = TRUE
  /\ UNCHANGED <<fixed, bench, umount, opened, revives>>

FindWindows ==
  /\ os = "windows" /\ pc = "find"
  /\ Answer(DrivesOfKind)
  /\ steady' = TRUE
  /\ UNCHANGED <<fixed, bench, umount, opened, revives>>

\* findLinux: idVendor and idProduct in the port's directory ...
ReadIds ==
  /\ os = "linux" /\ pc = "find"
  /\ IF plugged[ref.place] # Nobody /\ KindOf[plugged[ref.place]] = ref.kind
     THEN pc' = "walk" /\ lookup' = "none"
     ELSE pc' = AfterNotFound /\ lookup' = "notfound"
  /\ steady' = TRUE
  /\ UNCHANGED <<fixed, bench, path, umount, opened, revives, late, fresh>>

\* ... and then the "block" directories below it, whosever they are by now.
WalkBlocks ==
  /\ pc = "walk"
  /\ plugged[ref.place] # Nobody
  /\ Answer(DisksOf(plugged[ref.place]))
  /\ UNCHANGED <<fixed, bench, umount, opened, revives, steady>>

Find == FindDarwin \/ FindWindows \/ ReadIds \/ WalkBlocks \/ FindBreaks

PollAgain ==
  /\ Go("again", "find")
  /\ lookup' = "none"
  /\ UNCHANGED <<fixed, bench, path, umount, opened, revives, history>>

\* Any step of the flash may fail: a deadline, a size that does not fit, the
\* context, a permission, a write error.
Fails ==
  /\ job = "flash"
  /\ pc \in {"again", "size", "open", "write", "revive"}
  /\ pc' = "failed"
  /\ UNCHANGED <<fixed, bench, found, umount, opened, revives, history>>

---------------------------------------------------------------------------
(* Size and Unmount, by the path.                                          *)

Size ==
  /\ Go("size", "unmount")
  /\ bears[path] # Nobody
  /\ UNCHANGED <<fixed, bench, found, umount, opened, revives, history>>

AfterUnmount == IF job = "flash" THEN "open" ELSE "away"

\* diskutil unmountDisk, politely and then by force: all of them, or an error
\* that leaves some.
UnmountDarwin ==
  /\ os = "darwin"
  /\ Go("unmount", AfterUnmount)
  /\ mounts' = {v \in mounts : v.disk # path}
  /\ late' = FALSE
  /\ fresh' = {}
  /\ UNCHANGED <<fixed, plugged, bears, events, found, umount, opened, revives, steady>>

UnmountDarwinFails ==
  /\ os = "darwin"
  /\ Go("unmount", "failed")
  /\ \E left \in SUBSET {v \in mounts : v.disk = path} :
       mounts' = {v \in mounts : v.disk # path} \union left
  /\ UNCHANGED <<fixed, plugged, bears, events, found, umount, opened, revives, history>>

\* "A best-effort no-op on Windows".
UnmountWindows ==
  /\ os = "windows"
  /\ Go("unmount", AfterUnmount)
  /\ UNCHANGED <<fixed, bench, found, umount, opened, revives, history>>

PointsOfWholeDisk(disk) == {v.at : v \in {w \in mounts : NodeName(w) = disk}}

\* mountpointsForDisk: the disk's own and its partitions'.
PointsOf(disk) == {v.at : v \in {w \in mounts : IsPartitionOf(disk, NodeName(w))}}

\* The mountpoints of one reading of /proc/self/mounts ...
ReadMounts ==
  /\ os = "linux"
  /\ Go("unmount", "umounting")
  /\ todo' = PointsOf(path)
  /\ errs' = FALSE
  /\ late' = FALSE
  /\ fresh' = {}
  /\ UNCHANGED <<fixed, bench, found, opened, revives, steady>>

\* ... are unmounted one by one: whatever is there by now, going on after one
\* that fails.
Umount(p) ==
  /\ pc = "umounting"
  /\ todo' = todo \ {p}
  /\ \/ /\ \E v \in mounts : v.at = p
        /\ mounts' = {v \in mounts : v.at # p}
        /\ UNCHANGED errs
     \/ errs' = TRUE /\ UNCHANGED mounts
  /\ UNCHANGED <<fixed, plugged, bears, events, pc, found, opened, revives, history>>

ErrorsDropped ==
  /\ todo = {}
  /\ Go("umounting", AfterUnmount)
  /\ UNCHANGED <<fixed, bench, found, umount, opened, revives, history>>

\* errors.Join: one failure fails the Unmount.
UmountsDone ==
  /\ todo = {}
  /\ Go("umounting", IF errs THEN "failed" ELSE AfterUnmount)
  /\ UNCHANGED <<fixed, bench, found, umount, opened, revives, history>>

Unmount ==
  \/ UnmountDarwin \/ UnmountDarwinFails \/ UnmountWindows
  \/ ReadMounts \/ UmountsDone
  \/ \E p \in todo : Umount(p)

---------------------------------------------------------------------------
(* The device is opened by its path, written, and found again if lost.     *)

\* On Windows a mounted volume keeps the device from being opened.
OpenRawDevice ==
  /\ Go("open", "write")
  /\ bears[path] # Nobody
  /\ os = "windows" => ~Mounted(path)
  /\ opened' = bears[path]
  /\ UNCHANGED <<fixed, bench, found, umount, revives, history>>

Written ==
  /\ Go("write", "done")
  /\ UNCHANGED <<fixed, bench, found, umount, opened, revives, history>>

NeverGivesUp ==
  /\ Go("write", "revive")
  /\ UNCHANGED <<fixed, bench, found, umount, opened, revives, history>>

\* The reader drops off the bus in mid-write.
WriteLost ==
  /\ Go("write", "revive")
  /\ revives < WriteRetries
  /\ UNCHANGED <<fixed, bench, found, umount, opened, revives, history>>

\* Revive: the reader's port is dark for seconds, so that its disks go, and it
\* is there again.
Revive ==
  /\ Go("revive", "find")
  /\ revives' = revives + 1
  /\ lookup' = "none"
  /\ bears' = [n \in Names |-> IF n \in OwnDisks THEN Nobody ELSE bears[n]]
  /\ mounts' = MountsWithout(OwnDisks)
  /\ steady' = FALSE
  /\ UNCHANGED <<fixed, plugged, events, path, umount, opened, late, fresh>>

Job ==
  \/ Find \/ PollAgain \/ Fails \/ Size \/ Unmount
  \/ OpenRawDevice \/ Written \/ WriteLost \/ Revive

Next == Bench \/ Job

Spec == Init /\ [][Next]_vars

---------------------------------------------------------------------------
(* Properties.                                                             *)

\* Every variable keeps its type: a reader is revived WithWriteRetries times at most.
TypeOK ==
  /\ os \in Platforms
  /\ plugged \in [Places -> Devices \union {Nobody}]
  /\ bears \in [Names -> Devices \union {Nobody}]
  /\ mounts \subseteq Volumes
  /\ events \in 0..MaxEvents
  /\ ref \in [place : Places, kind : Readers]
  /\ job \in Jobs
  /\ pc \in Steps \union Ends
  /\ lookup \in Answers
  /\ path \in Names \union {NoPath}
  /\ todo \subseteq Points
  /\ errs \in BOOLEAN
  /\ opened \in Devices \union {Nobody}
  /\ revives \in 0..WriteRetries
  /\ steady \in BOOLEAN
  /\ late \in BOOLEAN
  /\ fresh \subseteq Points

\* Find answers for one attached reader only (blockdev.go:6): where the reader
\* and its disks have not changed since the lookup began, a disk is answered
\* if it is the one disk of the reader of these ids at this place, "not found"
\* if there is none, and "ambiguous" never if there is one; whatever is plugged
\* elsewhere, and however often the registry lists the reader.
FindsExactly ==
  steady /\ os # "windows" =>
    /\ lookup = "found" => OwnDisks = {path}
    /\ lookup = "notfound" => OwnDisks = {}
    /\ lookup = "ambiguous" => \A n \in Names : OwnDisks # {n}

\* "Find deliberately never guesses": on every platform what is found is a disk
\* of the reader asked for.
NeverGuesses == steady /\ lookup = "found" => path \in OwnDisks

\* What is opened for the raw write is the reader's own disk, in the first write
\* and in those after a revive, where disks may have changed their names
\* (flash.go:185, flash.go:358): if nobody touched the reader since the lookup.
OpensItsOwn ==
  pc = "write" /\ steady /\ os # "windows" => opened = plugged[ref.place] /\ path \in OwnDisks

\* Unmount takes away no other disk's volume (linux_parse.go:137), unless it was
\* mounted on one of its mountpoints after they were read.
UnmountsItsOwn ==
  [][pc' # pc \/ todo' # todo =>
       \A v \in mounts \ mounts' : v.disk = path \/ v.at \in fresh \/ pc = "revive"]_vars

\* A raw write is begun only on a disk with nothing mounted from it, but for what
\* is mounted after the unmount (flash.go:376): in a resumed write as well.
WritesUnmounted == pc \in {"open", "write"} /\ os # "windows" /\ ~late => ~Mounted(path)

\* SetMode(ModeTarget) and Revive let go of a card whose volumes are all unmounted
\* (sdwire.go:536-539, fallback.go:318-323), wherever Find could tell which they are.
YanksNothing ==
  /\ pc = "away" /\ os # "windows"
  /\ lookup \in {"found", "notfound"} /\ steady /\ ~late
  => \A n \in OwnDisks : ~Mounted(n)
=============================================================================
