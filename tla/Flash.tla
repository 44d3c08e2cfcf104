------------------------------- MODULE Flash -------------------------------
(***************************************************************************)
(* SDWire.FlashAndBoot of flash.go, step by step, together with what it *)
(* talks to: the card behind the mux, the reader that may drop off the bus *)
(* at any moment, the operating system that mounts volumes and caches      *)
(* writes, the board's power, and a caller who may cancel.                 *)
(*                                                                         *)
(* Lengths and offsets of the image are in bytes, and the device is a row  *)
(* of sectors of SectorSize bytes.  The card's content is abstracted to    *)
(* the set of sectors that hold what the image says they hold.             *)
(***************************************************************************)
EXTENDS Naturals, FiniteSets

CONSTANTS
  SectorSize,    \* bytes in a sector (512)
  ChunkSectors,  \* sectors in one write (flashChunkSize / sectorSize)
  ImageSizes,    \* the image lengths, in bytes, to start from
  DeviceSizes,   \* the device lengths, in sectors, to start from
  MaxDeviceSize, \* WithMaxDeviceSize, in bytes
  WriteRetries,  \* WithWriteRetries
  MaxPolls,      \* polls of blockdev.Find before WithBlockDevTimeout elapses
  HasPower,      \* BOOLEAN: a PowerFunc is configured
  Rigs,          \* what kinds of reader and OS the card may be written through
  SwitchTakes    \* BOOLEAN: SetMode(ModeTarget) = nil means the card moved

ASSUME FlashAssumption ==
  /\ SectorSize \in Nat \ {0}
  /\ ChunkSectors \in Nat \ {0}
  /\ ImageSizes \subseteq Nat
  /\ DeviceSizes \subseteq Nat
  /\ MaxDeviceSize \in Nat
  /\ WriteRetries \in Nat
  /\ MaxPolls \in Nat
  /\ HasPower \in BOOLEAN
  /\ Rigs \subseteq [buffered : BOOLEAN, lateMount : BOOLEAN, canRevive : BOOLEAN]
  /\ SwitchTakes \in BOOLEAN

VARIABLES
  pc,         \* the next step of the call, or "ok" / "failed" once it returned
  cancelled,  \* the caller's context is done
  written,    \* bytes of the image writeImage counts as written
  attempt,    \* attempt of writeImageResuming
  polls,      \* polls of the current waitForBlockDevice
  board,      \* the board's power: "on" or "off"
  mux,        \* the card's side: "host" or "target"
  disk,       \* the reader's block device: "absent", "present" or "lost"
  mounted,    \* a volume of the card is mounted on the host
  good,       \* sectors of the card that hold the image's data
  cached,     \* sectors whose image data is still in the OS's cache
  rig,        \* the reader and the OS; never changes
  imageSize,  \* the image's length in bytes; never changes
  deviceSize  \* the device's length in sectors; never changes

call  == <<written, attempt, polls>>
reader == <<mux, disk, mounted>>
data  == <<good, cached>>
fixed == <<rig, imageSize, deviceSize>>
vars  == <<pc, cancelled, call, board, reader, data, fixed>>

Steps == {"start", "host", "find", "check", "open", "copy", "sync", "revive",
          "refind", "reunmount", "eject", "switch", "boot"}
Returned == {"ok", "failed"}

Buffered  == rig.buffered   \* the OS caches raw writes (Linux's /dev/sdX)
LateMount == rig.lateMount  \* volumes may be mounted after the disk appeared
CanRevive == rig.canRevive  \* the controller is a deviceReviver (SDWire3)

---------------------------------------------------------------------------
(* Sectors and chunks.                                                     *)

\* The sectors that hold any of the bytes lo .. hi-1.  A sector's number is
\* below hi because a sector is at least a byte.
SectorsOf(lo, hi) ==
  {s \in 0..hi : lo < hi /\ s * SectorSize < hi /\ lo < (s + 1) * SectorSize}

\* The sectors all of whose bytes are below hi.
WholeSectors(hi) == {s \in 0..hi : (s + 1) * SectorSize <= hi}

ImageSectors == SectorsOf(0, imageSize)

ChunkSize == ChunkSectors * SectorSize

\* What io.ReadFull brings of the image at the current offset.
NextChunk ==
  IF imageSize - written < ChunkSize THEN imageSize - written ELSE ChunkSize

ShortOrFullRead == NextChunk <= ChunkSize

\* Fewer bytes than asked for: the image ended in this chunk.
ShortRead == NextChunk < ChunkSize

UnroundedResume(w) == w

RoundedUpResume(w) == w + ((SectorSize - (w % SectorSize)) % SectorSize)

\* Where the write goes on after a revive: the last sector boundary.
ResumePoint(w) == w - (w % SectorSize)

UncheckedFit == imageSize > 0 /\ deviceSize * SectorSize <= MaxDeviceSize

\* What checkSizesAndUnmount asks of the two lengths.
SizesFit ==
  /\ imageSize > 0
  /\ imageSize <= deviceSize * SectorSize
  /\ deviceSize * SectorSize <= MaxDeviceSize

---------------------------------------------------------------------------
Init ==
  /\ pc = "start"
  /\ cancelled \in BOOLEAN
  /\ written = 0
  /\ attempt = 1
  /\ polls = 0
  /\ board \in {"on", "off"}
  /\ mux \in {"host", "target"}
  /\ disk = IF mux = "host" THEN "present" ELSE "absent"
  /\ mounted \in (IF mux = "host" THEN BOOLEAN ELSE {FALSE})
  /\ good = {}
  /\ cached = {}
  /\ rig \in Rigs
  /\ imageSize \in ImageSizes
  /\ deviceSize \in DeviceSizes

Go(from, to) == pc = from /\ pc' = to

LeaveMounted == mounted' = mounted

\* blockdev.Unmount: every volume of the disk.
Unmount == mounted' = FALSE

\* ctx.Err() is consulted before the step, which is not taken if it is set.
CancelSeen ==
  /\ \/ pc \in {"start", "host", "find", "check", "copy", "refind"}
     \/ pc = "open" /\ attempt = 1
  /\ cancelled
  /\ pc' = "failed"
  /\ UNCHANGED <<cancelled, call, board, reader, data, fixed>>

---------------------------------------------------------------------------
(* Step 1: the board's power is cut.                                       *)

PowerOffSkipped ==
  /\ Go("start", "host")
  /\ ~cancelled
  /\ UNCHANGED <<cancelled, call, board, reader, data, fixed>>

PowerOff ==
  /\ Go("start", "host")
  /\ ~cancelled
  /\ board' = IF HasPower THEN "off" ELSE board
  /\ UNCHANGED <<cancelled, call, reader, data, fixed>>

\* A PowerFunc that errs may have switched the relay all the same.
PowerOffFails ==
  /\ HasPower
  /\ Go("start", "failed")
  /\ ~cancelled
  /\ board' \in {board, "off"}
  /\ UNCHANGED <<cancelled, call, reader, data, fixed>>

---------------------------------------------------------------------------
(* Step 2: the card comes to the host and its block device is awaited.     *)

\* SetMode(ModeHost).  Where it switches by the hub port, a reader that does not
\* come back, or cannot be opened, is power-cycled first.
SwitchToHost ==
  /\ Go("host", "find")
  /\ ~cancelled
  /\ mux' = "host"
  /\ \/ disk # "lost" /\ UNCHANGED <<disk, mounted>>
     \/ CanRevive /\ disk' = "absent" /\ mounted' = FALSE
  /\ UNCHANGED <<cancelled, call, board, data, fixed>>

\* The power cycle, too, may fail, or fail to bring the reader back.
SwitchToHostFails ==
  /\ Go("host", "failed")
  /\ ~cancelled
  /\ \/ mux' \in {mux, "host"} /\ UNCHANGED <<disk, mounted>>
     \/ /\ CanRevive
        /\ mux' \in {"host", "target"}
        /\ disk' \in {"absent", "lost"}
        /\ mounted' = FALSE
  /\ UNCHANGED <<cancelled, call, board, data, fixed>>

FoundBlockDevice(here, next) ==
  /\ Go(here, next)
  /\ ~cancelled
  /\ disk = "present"
  /\ polls' = 0
  /\ UNCHANGED <<cancelled, written, attempt, board, reader, data, fixed>>

\* ErrNotFound: another poll, until the deadline.
PollAgain(here) ==
  /\ pc = here
  /\ ~cancelled
  /\ disk # "present"
  /\ polls < MaxPolls
  /\ polls' = polls + 1
  /\ UNCHANGED <<pc, cancelled, written, attempt, board, reader, data, fixed>>

\* The deadline, or an error that is not ErrNotFound.
NoBlockDevice(here) ==
  /\ Go(here, "failed")
  /\ ~cancelled
  /\ UNCHANGED <<cancelled, call, board, reader, data, fixed>>

WaitForBlockDevice(here, next) ==
  \/ FoundBlockDevice(here, next)
  \/ PollAgain(here)
  \/ NoBlockDevice(here)

---------------------------------------------------------------------------
(* Step 3: sizes are checked and the card's volumes are unmounted.         *)

CheckSizesAndUnmount ==
  /\ Go("check", "open")
  /\ ~cancelled
  /\ disk = "present"
  /\ SizesFit
  /\ Unmount
  /\ UNCHANGED <<cancelled, call, board, mux, disk, data, fixed>>

\* The image or the device cannot be measured, a size is wrong (always seen),
\* or the unmount fails.
CheckFails ==
  /\ Go("check", "failed")
  /\ ~cancelled
  /\ UNCHANGED <<cancelled, call, board, reader, data, fixed>>

---------------------------------------------------------------------------
(* Step 4: the image is copied, chunk by chunk, across revives.            *)

\* deviceLost: EIO, ENXIO and ENODEV ("lost") against any other error.
DeviceLost(kind) == kind = "lost"

NeverExhausted == FALSE

\* The attempt that failed was the last that WithWriteRetries allows.
RetriesExhausted == attempt > WriteRetries

\* writeImage has returned an error of this kind to writeImageResuming.
WriteError(kind) ==
  pc' = IF DeviceLost(kind) /\ ~RetriesExhausted /\ CanRevive THEN "revive" ELSE "failed"

OpenImageAndDevice ==
  /\ Go("open", "copy")
  /\ attempt = 1 => ~cancelled
  /\ disk = "present"
  /\ UNCHANGED <<cancelled, call, board, reader, data, fixed>>

OpenFails ==
  /\ pc = "open"
  /\ attempt = 1 => ~cancelled
  /\ \E kind \in {"lost", "other"} : WriteError(kind)
  /\ UNCHANGED <<cancelled, written, attempt, polls, board, reader, data, fixed>>

\* A full write of these sectors reached the device, or the OS's cache of it.
Store(sectors) ==
  IF Buffered THEN cached' = cached \union sectors /\ good' = good
              ELSE good' = good \union sectors /\ cached' = cached

\* One turn of writeImage's loop.  A chunk shorter than asked for is the last.
CopyChunk ==
  /\ pc = "copy"
  /\ ~cancelled
  /\ disk = "present"
  /\ NextChunk > 0
  /\ Store(SectorsOf(written, written + NextChunk))
  /\ written' = written + NextChunk
  /\ pc' = IF ShortRead THEN "sync" ELSE "copy"
  /\ UNCHANGED <<cancelled, attempt, polls, board, reader, fixed>>

\* io.EOF: the image ended exactly at a chunk's end.
CopyAtEnd ==
  /\ Go("copy", "sync")
  /\ ~cancelled
  /\ NextChunk = 0
  /\ UNCHANGED <<cancelled, call, board, reader, data, fixed>>

\* The write fails.  The chunk is not counted, but any of its sectors may
\* have been written, and any may have been spoilt.
CopyFails ==
  /\ pc = "copy"
  /\ ~cancelled
  /\ NextChunk > 0
  /\ IF disk = "present"
       THEN \E done \in SUBSET SectorsOf(written, written + NextChunk) :
              IF Buffered
                THEN Store(done)
                ELSE /\ good' = (good \ SectorsOf(written, written + NextChunk))
                                  \union done
                     /\ cached' = cached
       ELSE UNCHANGED data
  /\ \E kind \in {"lost", "other"} : WriteError(kind)
  /\ UNCHANGED <<cancelled, written, attempt, polls, board, reader, fixed>>

\* Reading the image fails after n bytes.  They are written and counted, the
\* last sector padded with zeros over image data that was not read.
ReadFails ==
  /\ pc = "copy"
  /\ ~cancelled
  /\ \E n \in 0..ChunkSize :
       /\ n < ChunkSize /\ written + n <= imageSize
       /\ n > 0 => disk = "present"
       /\ LET whole  == {s \in SectorsOf(written, written + n) :
                           \/ (s + 1) * SectorSize <= written + n
                           \/ written + n = imageSize}
              padded == SectorsOf(written, written + n) \ whole
          IN  IF Buffered
                THEN cached' = (cached \ padded) \union whole /\ good' = good \ padded
                ELSE good' = (good \ padded) \union whole /\ cached' = cached
       /\ written' = written + n
  /\ \E kind \in {"lost", "other"} : WriteError(kind)
  /\ UNCHANGED <<cancelled, attempt, polls, board, reader, fixed>>

SyncSkipped ==
  /\ Go("sync", "eject")
  /\ UNCHANGED <<cancelled, call, board, reader, data, fixed>>

\* Sync, or ENOTTY from a device whose writes are not buffered.
Sync ==
  /\ Go("sync", "eject")
  /\ Buffered => disk = "present"
  /\ good' = good \union cached
  /\ cached' = {}
  /\ UNCHANGED <<cancelled, call, board, reader, fixed>>

\* The OS could not write back all it had cached, and drops the rest.
SyncFails ==
  /\ pc = "sync"
  /\ \E done \in SUBSET cached : good' = good \union done
  /\ cached' = {}
  /\ \E kind \in {"lost", "other"} : WriteError(kind)
  /\ UNCHANGED <<cancelled, written, attempt, polls, board, reader, fixed>>

\* The reader's hub port is power-cycled, and the reader is back on the bus.
\* What the OS had cached for the old block device is gone with it.
Revive ==
  /\ Go("revive", "refind")
  /\ mux' = "host"
  /\ disk' = "absent"
  /\ mounted' = FALSE
  /\ cached' = {}
  /\ UNCHANGED <<cancelled, call, board, good, fixed>>

\* No port to cycle, or a cycle that failed with the port off or the reader
\* still missing.
ReviveFails ==
  /\ Go("revive", "failed")
  /\ \/ UNCHANGED <<reader, cached>>
     \/ /\ mux' \in {"host", "target"}
        /\ disk' = "lost"
        /\ mounted' = FALSE
        /\ cached' = {}
  /\ UNCHANGED <<cancelled, call, board, good, fixed>>

SameAttempt == attempt

NextAttempt == attempt + 1

\* recoveredBlockDevice's unmount, after which the write resumes.
UnmountRevived ==
  /\ Go("reunmount", "open")
  /\ disk = "present"
  /\ Unmount
  /\ attempt' = NextAttempt
  /\ written' = ResumePoint(written)
  /\ UNCHANGED <<cancelled, polls, board, mux, disk, data, fixed>>

UnmountRevivedFails ==
  /\ Go("reunmount", "failed")
  /\ UNCHANGED <<cancelled, call, board, reader, data, fixed>>

---------------------------------------------------------------------------
(* Step 5: SDWire.SetMode(ModeTarget).                                  *)

\* Volumes are unmounted if blockdev.Find finds the disk ...
UnmountBeforeSwitch ==
  /\ Go("eject", "switch")
  /\ disk = "present"
  /\ Unmount
  /\ UNCHANGED <<cancelled, call, board, mux, disk, data, fixed>>

\* ... and the switch goes ahead without, on any error of Find's.
NothingToUnmount ==
  /\ Go("eject", "switch")
  /\ UNCHANGED <<cancelled, call, board, reader, data, fixed>>

UnmountBeforeSwitchFails ==
  /\ Go("eject", "failed")
  /\ disk = "present"
  /\ UNCHANGED <<cancelled, call, board, reader, data, fixed>>

\* The card goes to the target, and its block device goes away.
GiveCard ==
  /\ mux' = "target"
  /\ disk' = IF disk = "lost" THEN "lost" ELSE "absent"
  /\ mounted' = FALSE
  /\ cached' = {}

SwitchToTarget ==
  /\ Go("switch", "boot")
  /\ GiveCard \/ (~SwitchTakes /\ UNCHANGED <<reader, cached>>)
  /\ UNCHANGED <<cancelled, call, board, good, fixed>>

SwitchToTargetFails ==
  /\ Go("switch", "failed")
  /\ GiveCard \/ UNCHANGED <<reader, cached>>
  /\ UNCHANGED <<cancelled, call, board, good, fixed>>

---------------------------------------------------------------------------
(* Step 6: the board is powered up (its dark time is module DarkTime's).   *)

PowerOn ==
  /\ Go("boot", "ok")
  /\ board' = IF HasPower THEN "on" ELSE board
  /\ UNCHANGED <<cancelled, call, reader, data, fixed>>

PowerOnFails ==
  /\ HasPower
  /\ Go("boot", "failed")
  /\ board' \in {board, "on"}
  /\ UNCHANGED <<cancelled, call, reader, data, fixed>>

---------------------------------------------------------------------------
(* What happens around the call.                                           *)

Cancel ==
  /\ ~cancelled
  /\ cancelled' = TRUE
  /\ UNCHANGED <<pc, call, board, reader, data, fixed>>

\* The OS enumerates the reader's block device, and mounts what is on it.
DiskAppears ==
  /\ mux = "host"
  /\ disk = "absent"
  /\ disk' = "present"
  /\ mounted' \in BOOLEAN
  /\ UNCHANGED <<pc, cancelled, call, board, mux, data, fixed>>

MountsLate ==
  /\ LateMount
  /\ disk = "present"
  /\ ~mounted
  /\ mounted' = TRUE
  /\ UNCHANGED <<pc, cancelled, call, board, mux, disk, data, fixed>>

\* The reader stalls and is torn off the bus; only a power cycle helps it.
ReaderLost ==
  /\ disk = "present"
  /\ disk' = "lost"
  /\ mounted' = FALSE
  /\ cached' = {}
  /\ UNCHANGED <<pc, cancelled, call, board, mux, good, fixed>>

\* The OS writes some cached sectors back of its own accord.
WriteBack ==
  /\ disk = "present"
  /\ \E s \in cached :
       /\ cached' = cached \ {s}
       /\ good' = good \union {s}
  /\ UNCHANGED <<pc, cancelled, call, board, reader, fixed>>

---------------------------------------------------------------------------
Program ==
  \/ CancelSeen
  \/ PowerOff \/ PowerOffFails
  \/ SwitchToHost \/ SwitchToHostFails
  \/ WaitForBlockDevice("find", "check")
  \/ CheckSizesAndUnmount \/ CheckFails
  \/ OpenImageAndDevice \/ OpenFails
  \/ CopyChunk \/ CopyAtEnd \/ CopyFails \/ ReadFails
  \/ Sync \/ SyncFails
  \/ Revive \/ ReviveFails
  \/ WaitForBlockDevice("refind", "reunmount")
  \/ UnmountRevived \/ UnmountRevivedFails
  \/ UnmountBeforeSwitch \/ NothingToUnmount \/ UnmountBeforeSwitchFails
  \/ SwitchToTarget \/ SwitchToTargetFails
  \/ PowerOn \/ PowerOnFails

Environment == Cancel \/ DiskAppears \/ MountsLate \/ ReaderLost \/ WriteBack

Next == Program \/ Environment

Spec == Init /\ [][Next]_vars

\* The program is a goroutine that is never descheduled for good, and each
\* call it makes returns.  Nothing is asked of its environment.
FairSpec == Spec /\ WF_vars(Program)

---------------------------------------------------------------------------
(* Properties.                                                             *)

\* Every variable keeps its type, and the attempts of writeImageResuming stay
\* within WithWriteRetries.
TypeOK ==
  /\ pc \in Steps \union Returned
  /\ cancelled \in BOOLEAN
  /\ written \in 0..imageSize
  /\ attempt \in 1..(WriteRetries + 1)
  /\ polls \in 0..MaxPolls
  /\ board \in {"on", "off"}
  /\ mux \in {"host", "target"}
  /\ disk \in {"absent", "present", "lost"}
  /\ mounted \in BOOLEAN
  /\ good \subseteq Nat
  /\ cached \subseteq Nat
  /\ rig \in Rigs
  /\ imageSize \in Nat
  /\ deviceSize \in Nat

\* A flash that goes on to hand the card over has every sector of the image
\* on the card, whatever was lost, revived and resumed on the way.
CardWhole == pc \in {"eject", "switch", "boot", "ok"} => ImageSectors \subseteq good

\* While the reader is on the bus, what writeImage counts as written is on the
\* card or on its way there: a resumed write leaves no hole behind it.
NoHole ==
  pc \in {"open", "copy", "sync"} /\ disk = "present"
    => WholeSectors(written) \subseteq good \union cached

\* writeImage never seeks a raw device off a sector boundary, not even when it
\* resumes after an image read that broke off in mid-sector.
AlignedSeek == pc = "open" => written % SectorSize = 0

\* Nothing is written past the device's end, padding included, nor to a device
\* over the sanity cap.
WithinDevice ==
  good \union cached # {} =>
    /\ good \union cached \subseteq 0..(deviceSize - 1)
    /\ deviceSize * SectorSize <= MaxDeviceSize

\* Where no volume is mounted after the disk appeared, a card with a mounted one is
\* not written raw, on the first attempt or after a revive: "exactly what
\* checkSizesAndUnmount exists to prevent".
RawWriteUnmounted ==
  [][mounted /\ ~LateMount => good' = good /\ cached' \subseteq cached]_vars

\* FlashAndBoot implements what it promises its caller.
Promise == INSTANCE FlashPromise WITH
  Controlled <- HasPower,
  side       <- mux,
  power      <- board,
  content    <- IF imageSize > 0 /\ ImageSectors \subseteq good THEN "image" ELSE "other",
  outcome    <- IF pc \in Returned THEN pc ELSE "running"

\* Every step of FlashAndBoot is a step of its promise, or invisible to it: a
\* board is powered up from a whole, handed-over image or not at all.
PromiseKept == Promise!Spec

\* The order of the call's steps; the revive's come after those it interrupts.
Rank ==
  [start |-> 1, host |-> 2, find |-> 3, check |-> 4, open |-> 5, copy |-> 6, sync |-> 7,
   revive |-> 8, refind |-> 9, reunmount |-> 10, eject |-> 11, switch |-> 12, boot |-> 13,
   ok |-> 14, failed |-> 14]

\* Another attempt, or a later step of this one, or more of the same step's
\* work: one more poll, one more chunk.
Closer ==
  \/ attempt' > attempt
  \/ attempt' = attempt /\ Rank[pc'] > Rank[pc]
  \/ /\ attempt' = attempt /\ pc' = pc
     /\ \/ polls' > polls /\ written' = written
        \/ written' > written /\ polls' = polls

\* No step of FlashAndBoot is in vain: whatever fails, is lost, revived and
\* resumed, each brings the call closer to its return.  Attempts, steps, polls
\* and bytes are all bounded (TypeOK), so no reader can keep it going for ever.
NoStepInVain == [][Program => Closer]_vars

\* FlashAndBoot returns, however often the reader drops off the bus.
Returns == <>(pc \in Returned)
=============================================================================
