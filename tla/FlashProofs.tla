---------------------------- MODULE FlashProofs ----------------------------
(***************************************************************************)
(* Theorems about Flash, for every sector size, chunk length, image,       *)
(* device, number of retries and platform.                                 *)
(***************************************************************************)
EXTENDS Flash, TLAPS

---------------------------------------------------------------------------
(* Arithmetic of sectors.                                                  *)

\* A product by a sector size orders as its first factor does.
LEMMA SectorOrder ==
  ASSUME NEW a \in Nat, NEW b \in Nat, a * SectorSize < b * SectorSize
  PROVE  a < b
<1> USE FlashAssumption
<1> SUFFICES ASSUME b <= a PROVE FALSE
  OBVIOUS
<1>1. PICK d \in Nat : a = b + d
  <2>1. a - b \in Nat /\ a = b + (a - b)
    OBVIOUS
  <2> QED BY <2>1
<1>2. a * SectorSize = b * SectorSize + d * SectorSize
  BY <1>1
<1>3. d * SectorSize \in Nat /\ b * SectorSize \in Nat
  OBVIOUS
<1> QED BY <1>2, <1>3

\* The end of a sector is the start of the next.
LEMMA SectorEnd ==
  ASSUME NEW s \in Nat
  PROVE  /\ (s + 1) * SectorSize = s * SectorSize + SectorSize
         /\ s * SectorSize \in Nat
  BY FlashAssumption

\* What is on the card up to lo, and from lo to hi, is all of it up to hi.
LEMMA SectorSplit ==
  ASSUME NEW lo \in Nat, NEW hi \in Nat, lo <= hi
  PROVE  SectorsOf(0, hi) \subseteq SectorsOf(0, lo) \union SectorsOf(lo, hi)
<1> SUFFICES ASSUME NEW s \in SectorsOf(0, hi), s \notin SectorsOf(0, lo)
             PROVE  s \in SectorsOf(lo, hi)
  OBVIOUS
<1>1. s \in Nat /\ s <= hi /\ s * SectorSize < hi /\ 0 < hi
  BY DEF SectorsOf
<1>2. /\ (s + 1) * SectorSize = s * SectorSize + SectorSize
      /\ s * SectorSize \in Nat
  BY <1>1, SectorEnd
<1>3. s <= s * SectorSize
  BY <1>1, FlashAssumption
<1>4. ~(s * SectorSize < lo)
  BY <1>1, <1>2, <1>3, FlashAssumption DEF SectorsOf
<1> QED BY <1>1, <1>2, <1>4, FlashAssumption DEF SectorsOf

\* A sector boundary, or the image's end.
Boundary(w) == \E k \in 0..w : w = k * SectorSize

\* From a boundary on, no sector is shared with what lies before it.
LEMMA SectorDisjoint ==
  ASSUME NEW lo \in Nat, NEW hi \in Nat, Boundary(lo)
  PROVE  SectorsOf(0, lo) \intersect SectorsOf(lo, hi) = {}
<1> SUFFICES ASSUME NEW s \in SectorsOf(0, lo), s \in SectorsOf(lo, hi)
             PROVE  FALSE
  OBVIOUS
<1>1. PICK k \in 0..lo : lo = k * SectorSize
  BY DEF Boundary
<1>2. s \in Nat /\ s * SectorSize < k * SectorSize /\ k * SectorSize < (s + 1) * SectorSize
  BY <1>1 DEF SectorsOf
<1>3. s < k
  BY <1>2, SectorOrder
<1>4. k < s + 1
  BY <1>2, SectorOrder
<1> QED BY <1>2, <1>3, <1>4

\* A write that fits the device in bytes fits it in sectors, padding included.
LEMMA SectorFits ==
  ASSUME NEW lo \in Nat, NEW hi \in Nat, NEW d \in Nat, hi <= d * SectorSize
  PROVE  SectorsOf(lo, hi) \subseteq 0..(d - 1)
<1> SUFFICES ASSUME NEW s \in SectorsOf(lo, hi)
             PROVE  s \in 0..(d - 1)
  OBVIOUS
<1>1. s \in Nat /\ s * SectorSize < hi
  BY DEF SectorsOf
<1>2. s * SectorSize \in Nat /\ d * SectorSize \in Nat
  BY <1>1, SectorEnd
<1>3. s < d
  BY <1>1, <1>2, SectorOrder
<1> QED BY <1>1, <1>3

\* A sector that lies wholly below hi is one that hi's bytes touch.
LEMMA WholeTouched ==
  ASSUME NEW hi \in Nat
  PROVE  WholeSectors(hi) \subseteq SectorsOf(0, hi)
<1> SUFFICES ASSUME NEW s \in WholeSectors(hi)
             PROVE  s \in SectorsOf(0, hi)
  OBVIOUS
<1>1. s \in Nat /\ s <= hi /\ (s + 1) * SectorSize <= hi
  BY DEF WholeSectors
<1>2. /\ (s + 1) * SectorSize = s * SectorSize + SectorSize
      /\ s * SectorSize \in Nat
  BY <1>1, SectorEnd
<1> QED BY <1>1, <1>2, FlashAssumption DEF SectorsOf

\* The offset a write resumes from is a sector boundary no further than what
\* was counted, and everything below it was written whole.
LEMMA ResumePointSound ==
  ASSUME NEW w \in Nat
  PROVE  /\ ResumePoint(w) \in 0..w
         /\ Boundary(ResumePoint(w))
         /\ ResumePoint(w) % SectorSize = 0
         /\ SectorsOf(0, ResumePoint(w)) \subseteq WholeSectors(w)
<1> DEFINE r == ResumePoint(w)
           k == w \div SectorSize
<1>1. /\ w % SectorSize \in 0..(SectorSize - 1)
      /\ k \in Nat
      /\ w = SectorSize * k + (w % SectorSize)
  BY FlashAssumption
<1>2. r = k * SectorSize /\ r \in 0..w
  <2>1. SectorSize * k = k * SectorSize /\ k * SectorSize \in Nat
    BY <1>1, FlashAssumption
  <2> QED BY <1>1, <2>1 DEF ResumePoint
<1>3. r % SectorSize = 0
  BY <1>1, <1>2, FlashAssumption
<1>4. ASSUME NEW s \in SectorsOf(0, r)
      PROVE  s \in WholeSectors(w)
  <2>1. s \in Nat /\ s <= r /\ s * SectorSize < k * SectorSize
    BY <1>2, <1>4 DEF SectorsOf
  <2>2. s < k
    BY <1>1, <2>1, SectorOrder
  <2>3. ~(k * SectorSize < (s + 1) * SectorSize)
    BY <1>1, <2>1, <2>2, SectorOrder
  <2>4. (s + 1) * SectorSize \in Nat
    BY <2>1, SectorEnd, FlashAssumption
  <2> QED BY <1>2, <2>1, <2>3, <2>4 DEF WholeSectors
<1>5. Boundary(r)
  <2>1. k <= k * SectorSize
    BY <1>1, FlashAssumption
  <2> QED BY <1>1, <1>2, <2>1 DEF Boundary
<1> HIDE DEF r, k
<1>6. r \in 0..w /\ SectorsOf(0, r) \subseteq WholeSectors(w)
  BY <1>2, <1>4
<1> QED BY <1>3, <1>5, <1>6 DEF r

---------------------------------------------------------------------------
(* The inductive invariant.                                                *)

\* The steps before the card may be written, and those that write it.
Before  == {"start", "host", "find", "check"}
Writing == {"open", "copy", "sync"}
Reviving == {"revive", "refind", "reunmount"}
HandingOver == {"eject", "switch", "boot", "ok"}

\* Only an image that fits is ever copied, and only its sectors are written.
SizeInv ==
  /\ pc \in Before => good = {} /\ cached = {} /\ written = 0 /\ attempt = 1
  /\ pc \in Writing \union Reviving \union HandingOver => SizesFit
  /\ good \union cached # {} => SizesFit
  /\ good \union cached \subseteq SectorsOf(0, imageSize)

\* The offset of a write is a sector boundary until the image has ended.
OffsetInv ==
  /\ pc = "open" => written % SectorSize = 0 /\ Boundary(written)
  /\ pc = "copy" => Boundary(written) \/ written = imageSize
  /\ pc = "sync" => written = imageSize

\* The block device is on the bus only on the host's side; the OS's cache of
\* it goes with it; and no reader is looked for again during a write.
DiskInv ==
  /\ disk = "present" => mux = "host"
  /\ cached # {} => disk = "present" /\ Buffered
  /\ pc \in {"find", "check", "eject", "switch"} \union Writing \union Reviving
       => mux = "host"
  /\ pc \in Writing => disk \in {"present", "lost"}
  /\ pc \in HandingOver => cached = {}
  /\ pc \in {"boot", "ok"} /\ SwitchTakes => mux = "target"

\* A controllable board is dark from the first step to the last, and for as
\* long as the OS may still write to the card.
DarkInv ==
  HasPower =>
    /\ pc \in Steps \ {"start"} => board = "off"
    /\ cached # {} => board = "off"

\* What is counted as written is on the card, or in a cache that is not lost.
CopyInv ==
  /\ pc \in Writing /\ (Buffered => disk = "present")
       => SectorsOf(0, written) \subseteq good \union cached
  /\ pc \in Reviving => WholeSectors(written) \subseteq good
  /\ pc \in HandingOver => ImageSectors \subseteq good

\* Where the OS caches writes, no write is resumed.
NoResume == Buffered => attempt = 1 /\ pc \notin Reviving

\* A revive has an attempt left to resume with.
AttemptInv == pc \in Reviving => attempt <= WriteRetries /\ CanRevive

SafeInv == TypeOK /\ SizeInv /\ OffsetInv /\ AttemptInv

\* The configurations in which an acknowledged write is never lost, or never
\* needed again: writes are not cached, or nothing is resumed.
Durable == \A r \in Rigs : r.buffered => ~r.canRevive \/ WriteRetries = 0

WorldInv == SafeInv /\ DiskInv /\ DarkInv

CardInv == WorldInv /\ NoResume /\ CopyInv

---------------------------------------------------------------------------
(* The steps of the call.                                                  *)

\* What a chunk covers, and where it leaves the offset.
LEMMA ChunkSound ==
  ASSUME TypeOK
  PROVE  /\ NextChunk \in 0..ChunkSize
         /\ written + NextChunk \in 0..imageSize
         /\ NextChunk < ChunkSize => written + NextChunk = imageSize
         /\ ChunkSize \in Nat
<1>1. ChunkSize \in Nat
  BY FlashAssumption DEF ChunkSize
<1>2. written \in Nat /\ imageSize \in Nat /\ written <= imageSize
  BY DEF TypeOK
<1>3. CASE imageSize - written < ChunkSize
  <2>1. NextChunk = imageSize - written
    BY <1>3 DEF NextChunk
  <2> QED BY <1>1, <1>2, <1>3, <2>1
<1>4. CASE ~(imageSize - written < ChunkSize)
  <2>1. NextChunk = ChunkSize
    BY <1>4 DEF NextChunk
  <2> QED BY <1>1, <1>2, <1>4, <2>1
<1> QED BY <1>3, <1>4

\* A full chunk ends on a sector boundary if it starts on one.
LEMMA BoundaryStep ==
  ASSUME NEW w \in Nat, Boundary(w)
  PROVE  Boundary(w + ChunkSize)
<1>1. PICK k \in 0..w : w = k * SectorSize
  BY DEF Boundary
<1>2. (k + ChunkSectors) * SectorSize = k * SectorSize + ChunkSectors * SectorSize
  BY FlashAssumption
<1>3. k + ChunkSectors <= (k + ChunkSectors) * SectorSize
  BY FlashAssumption
<1>4. w + ChunkSize = (k + ChunkSectors) * SectorSize
  BY <1>1, <1>2 DEF ChunkSize
<1>5. k + ChunkSectors \in 0..(w + ChunkSize)
  BY <1>3, <1>4, FlashAssumption
<1> QED BY <1>4, <1>5 DEF Boundary

\* Sectors of a part of the image are sectors of the image.
LEMMA SectorsOfPart ==
  ASSUME NEW lo \in Nat, NEW hi \in 0..imageSize, imageSize \in Nat
  PROVE  SectorsOf(lo, hi) \subseteq SectorsOf(0, imageSize)
<1> SUFFICES ASSUME NEW s \in SectorsOf(lo, hi)
             PROVE  s \in SectorsOf(0, imageSize)
  OBVIOUS
<1>1. s \in Nat /\ s <= hi /\ s * SectorSize < hi /\ lo < hi
  BY DEF SectorsOf
<1>2. /\ (s + 1) * SectorSize = s * SectorSize + SectorSize
      /\ s * SectorSize \in Nat
  BY <1>1, SectorEnd
<1>3. 0 < (s + 1) * SectorSize
  BY <1>2, FlashAssumption
<1> QED BY <1>1, <1>2, <1>3 DEF SectorsOf

\* A call that has not begun satisfies what the seeks and the bounds rest on.
LEMMA SafeInit == Init => SafeInv
<1> SUFFICES ASSUME Init PROVE SafeInv
  OBVIOUS
<1>1. TypeOK
  <2>1. disk \in {"absent", "present", "lost"} /\ mounted \in BOOLEAN
    BY DEF Init
  <2>2. imageSize \in Nat /\ deviceSize \in Nat
    BY FlashAssumption DEF Init
  <2>3. written \in 0..imageSize /\ attempt \in 1..(WriteRetries + 1) /\ polls \in 0..MaxPolls
    BY <2>2, FlashAssumption DEF Init
  <2> QED BY <2>1, <2>2, <2>3 DEF Init, TypeOK, Steps, Returned
<1>2. SizeInv
  BY DEF Init, SizeInv, Before, Writing, Reviving, HandingOver
<1>3. OffsetInv /\ AttemptInv
  BY DEF Init, OffsetInv, AttemptInv, Reviving
<1> QED BY <1>1, <1>2, <1>3 DEF SafeInv

\* The steps that leave the card, its cache and the offset alone.
Quiet ==
  \/ CancelSeen
  \/ PowerOff \/ PowerOffFails
  \/ SwitchToHost \/ SwitchToHostFails
  \/ WaitForBlockDevice("find", "check")
  \/ CheckSizesAndUnmount \/ CheckFails
  \/ OpenImageAndDevice \/ CopyAtEnd
  \/ WaitForBlockDevice("refind", "reunmount")
  \/ UnmountRevivedFails
  \/ UnmountBeforeSwitch \/ NothingToUnmount \/ UnmountBeforeSwitchFails
  \/ PowerOn \/ PowerOnFails
  \/ Cancel \/ DiskAppears \/ MountsLate

\* The reader and the OS stay what they are.
LEMMA RigStands ==
  ASSUME [Next]_vars
  PROVE  Buffered' = Buffered /\ LateMount' = LateMount /\ CanRevive' = CanRevive
<1>1. rig' = rig
  BY DEF Next, vars, fixed, Program, Environment, CancelSeen, PowerOff, PowerOffFails,
         SwitchToHost, SwitchToHostFails, WaitForBlockDevice, FoundBlockDevice,
         PollAgain, NoBlockDevice, CheckSizesAndUnmount, CheckFails,
         OpenImageAndDevice, OpenFails, CopyChunk, CopyAtEnd, CopyFails,
         ReadFails, Sync, SyncFails, Revive, ReviveFails, UnmountRevived,
         UnmountRevivedFails, UnmountBeforeSwitch, NothingToUnmount,
         UnmountBeforeSwitchFails, SwitchToTarget, SwitchToTargetFails,
         PowerOn, PowerOnFails, Cancel, DiskAppears, MountsLate, ReaderLost,
         WriteBack
<1> QED BY <1>1 DEF Buffered, LateMount, CanRevive

\* A step that leaves the card alone keeps SafeInv.
LEMMA SafeQuiet == SafeInv /\ Quiet => SafeInv'
<1> SUFFICES ASSUME SafeInv, Quiet PROVE SafeInv'
  OBVIOUS
<1>r. Buffered' = Buffered /\ LateMount' = LateMount /\ CanRevive' = CanRevive
  BY RigStands DEF Next, Program, Environment, Quiet
<1> USE <1>r
<1> USE DEF CancelSeen, PowerOff, PowerOffFails, SwitchToHost,
         SwitchToHostFails, WaitForBlockDevice, FoundBlockDevice, PollAgain,
         NoBlockDevice, CheckSizesAndUnmount, Unmount, CheckFails, OpenImageAndDevice,
         CopyAtEnd, UnmountRevivedFails, UnmountBeforeSwitch, NothingToUnmount,
         UnmountBeforeSwitchFails, PowerOn, PowerOnFails, Cancel, DiskAppears,
         MountsLate, Go, call, reader, data, fixed
<1>1. UNCHANGED <<written, good, cached, rig, imageSize, deviceSize, attempt>>
  BY DEF Quiet
<1>2. /\ pc' \in Before => pc \in Before
      /\ pc' \in Writing \union Reviving \union HandingOver =>
           pc \in Writing \union Reviving \union HandingOver \/ SizesFit
      /\ pc' \in Reviving => pc \in Reviving
      /\ pc' = "open" => pc = "open" \/ written = 0
      /\ pc' = "copy" => pc \in {"open", "copy"}
      /\ pc' = "sync" => pc = "sync" \/ (pc = "copy" /\ NextChunk = 0)
  BY DEF Quiet, SafeInv, SizeInv, Before, Writing, Reviving, HandingOver
<1>3. TypeOK'
  <2>1. pc' \in Steps \union Returned
    BY DEF Quiet, SafeInv, TypeOK, Steps, Returned
  <2>2. polls' \in 0..MaxPolls
    BY FlashAssumption DEF Quiet, SafeInv, TypeOK
  <2>3. cancelled' \in BOOLEAN /\ mounted' \in BOOLEAN
    BY DEF Quiet, SafeInv, TypeOK
  <2>5. board' \in {"on", "off"} /\ mux' \in {"host", "target"}
    BY DEF Quiet, SafeInv, TypeOK
  <2>6. disk' \in {"absent", "present", "lost"}
    BY DEF Quiet, SafeInv, TypeOK
  <2> QED BY <1>1, <2>1, <2>2, <2>3, <2>5, <2>6 DEF SafeInv, TypeOK
<1>4. SizesFit' <=> SizesFit
  BY <1>1 DEF SizesFit
<1>5. SizeInv'
  BY <1>1, <1>2, <1>4 DEF SafeInv, SizeInv, SectorsOf
<1>6. AttemptInv'
  BY <1>1, <1>2 DEF SafeInv, AttemptInv
<1>7. NextChunk = 0 => written = imageSize
  <2>1. ChunkSize \in Nat /\ ChunkSize > 0
    BY FlashAssumption DEF ChunkSize
  <2> QED BY <2>1 DEF NextChunk, SafeInv, TypeOK
<1>8. Boundary(0) /\ 0 % SectorSize = 0
  BY FlashAssumption DEF Boundary
<1>9. OffsetInv'
  BY <1>1, <1>2, <1>7, <1>8 DEF SafeInv, OffsetInv, Boundary
<1> QED BY <1>3, <1>5, <1>6, <1>9 DEF SafeInv

\* An error of writeImage's leads to a revive, if one is left, or to the end.
LEMMA WriteErrorOutcome ==
  ASSUME NEW kind, WriteError(kind)
  PROVE  \/ pc' = "revive" /\ CanRevive /\ ~(attempt > WriteRetries)
         \/ pc' = "failed"
  BY DEF WriteError, RetriesExhausted

\* Every sector a chunk touches is one of the image's.
LEMMA ChunkInImage ==
  ASSUME TypeOK
  PROVE  SectorsOf(written, written + NextChunk) \subseteq ImageSectors
  BY ChunkSound, SectorsOfPart DEF TypeOK, ImageSectors

\* SafeInv survives a step that writes only sectors of the image and stays
\* in, or leaves, the steps that write it.
LEMMA SafeWrite ==
  ASSUME SafeInv,
         pc \in Writing \union Reviving \union HandingOver \union Returned,
         pc' \in Writing \union Reviving \union HandingOver \union Returned,
         pc' \in Writing \union Reviving \union HandingOver =>
           pc \in Writing \union Reviving \union HandingOver,
         (good \union cached)' # {} =>
           SizesFit,
         (good \union cached)' \subseteq SectorsOf(0, imageSize),
         written' \in 0..imageSize,
         attempt' \in 1..(WriteRetries + 1),
         mux' \in {"host", "target"},
         disk' \in {"absent", "present", "lost"},
         mounted' \in BOOLEAN,
         UNCHANGED <<cancelled, polls, board, rig, imageSize, deviceSize>>,
         OffsetInv', AttemptInv'
  PROVE  SafeInv'
<1>1. pc' \in Steps \union Returned
  BY DEF Writing, Reviving, HandingOver, Steps, Returned
<1>2. good' \subseteq Nat /\ cached' \subseteq Nat
  BY DEF SectorsOf
<1>3. TypeOK'
  BY <1>1, <1>2 DEF SafeInv, TypeOK
<1>4. SizesFit' <=> SizesFit
  BY DEF SizesFit
<1>5. pc' \notin Before
  BY DEF Writing, Reviving, HandingOver, Before, Returned
<1>6. SizeInv'
  BY <1>4, <1>5 DEF SafeInv, SizeInv, SectorsOf, Writing, Reviving, HandingOver
<1> QED BY <1>3, <1>6 DEF SafeInv

\* Every step of the program and of its environment keeps it.
LEMMA SafeNext == SafeInv /\ [Next]_vars => SafeInv'
<1> SUFFICES ASSUME SafeInv, [Next]_vars PROVE SafeInv'
  OBVIOUS
<1>r. Buffered' = Buffered /\ LateMount' = LateMount /\ CanRevive' = CanRevive
  BY RigStands
<1> USE <1>r
<1> USE DEF Go, call, reader, data, fixed
<1>t. TypeOK
  BY DEF SafeInv
<1>w. /\ written + NextChunk \in 0..imageSize
      /\ NextChunk < ChunkSize => written + NextChunk = imageSize
      /\ NextChunk \in 0..ChunkSize
      /\ SectorsOf(written, written + NextChunk) \subseteq SectorsOf(0, imageSize)
  BY <1>t, ChunkSound, ChunkInImage DEF ImageSectors
<1>1. CASE Quiet
  BY <1>1, SafeQuiet
<1>2. CASE OpenFails
  <2>1. PICK kind \in {"lost", "other"} : WriteError(kind)
    BY <1>2 DEF OpenFails
  <2>2. \/ pc' = "revive" /\ CanRevive /\ ~(attempt > WriteRetries)
        \/ pc' = "failed"
    BY <2>1, WriteErrorOutcome
  <2>3. UNCHANGED <<cancelled, written, attempt, polls, board, mux, disk, mounted,
                    good, cached, rig, imageSize, deviceSize>> /\ pc = "open"
    BY <1>2 DEF OpenFails
  <2>4. OffsetInv' /\ AttemptInv'
    BY <1>t, <2>2, <2>3, FlashAssumption DEF OffsetInv, AttemptInv, Reviving, TypeOK
  <2> QED
    BY <1>t, <2>2, <2>3, <2>4, SafeWrite
    DEF SafeInv, SizeInv, TypeOK, Writing, Reviving, HandingOver, Returned
<1>3. CASE CopyChunk
  <2>1. /\ pc = "copy" /\ pc' \in {"copy", "sync"}
        /\ pc' = "sync" => NextChunk < ChunkSize
        /\ pc' = "copy" => NextChunk = ChunkSize
        /\ written' = written + NextChunk
        /\ UNCHANGED <<cancelled, attempt, polls, board, mux, disk, mounted,
                       rig, imageSize, deviceSize>>
    BY <1>3, <1>w, FlashAssumption DEF CopyChunk, ShortRead, ChunkSize
  <2>2. (good \union cached)' =
          good \union cached \union SectorsOf(written, written + NextChunk)
    BY <1>3 DEF CopyChunk, Store
  <2>3. pc' = "copy" => Boundary(written') \/ written' = imageSize
    <3> SUFFICES ASSUME pc' = "copy" PROVE Boundary(written') \/ written' = imageSize
      OBVIOUS
    <3>1. CASE Boundary(written)
      BY <1>t, <2>1, <3>1, BoundaryStep DEF TypeOK
    <3>2. CASE written = imageSize
      <4>1. NextChunk = 0
        BY <1>t, <1>w, <3>2 DEF TypeOK
      <4> QED BY <1>3, <4>1 DEF CopyChunk
    <3> QED BY <2>1, <3>1, <3>2 DEF SafeInv, OffsetInv
  <2>4. OffsetInv' /\ AttemptInv'
    BY <1>w, <2>1, <2>3 DEF OffsetInv, AttemptInv, Reviving, Boundary
  <2> QED
    BY <1>t, <1>w, <2>1, <2>2, <2>4, SafeWrite
    DEF SafeInv, SizeInv, TypeOK, Writing, Reviving, HandingOver, Returned
<1>4. CASE CopyFails
  <2>1. PICK kind \in {"lost", "other"} : WriteError(kind)
    BY <1>4 DEF CopyFails
  <2>2. \/ pc' = "revive" /\ CanRevive /\ ~(attempt > WriteRetries)
        \/ pc' = "failed"
    BY <2>1, WriteErrorOutcome
  <2>3. UNCHANGED <<cancelled, written, attempt, polls, board, mux, disk, mounted,
                    rig, imageSize, deviceSize>> /\ pc = "copy"
    BY <1>4 DEF CopyFails
  <2>4. (good \union cached)' \subseteq
          good \union cached \union SectorsOf(written, written + NextChunk)
    BY <1>4 DEF CopyFails, Store
  <2>5. OffsetInv' /\ AttemptInv'
    BY <1>t, <2>2, <2>3, FlashAssumption DEF OffsetInv, AttemptInv, Reviving, TypeOK
  <2> QED
    BY <1>t, <1>w, <2>2, <2>3, <2>4, <2>5, SafeWrite
    DEF SafeInv, SizeInv, TypeOK, Writing, Reviving, HandingOver, Returned
<1>5. CASE ReadFails
  <2>1. PICK kind \in {"lost", "other"} : WriteError(kind)
    BY <1>5 DEF ReadFails
  <2>2. \/ pc' = "revive" /\ CanRevive /\ ~(attempt > WriteRetries)
        \/ pc' = "failed"
    BY <2>1, WriteErrorOutcome
  <2>3. PICK n \in 0..ChunkSize :
          /\ written + n <= imageSize
          /\ written' = written + n
          /\ (good \union cached)' \subseteq
                good \union cached \union SectorsOf(written, written + n)
    BY <1>5 DEF ReadFails
  <2>4. UNCHANGED <<cancelled, attempt, polls, board, mux, disk, mounted,
                    rig, imageSize, deviceSize>> /\ pc = "copy"
    BY <1>5 DEF ReadFails
  <2>5. written + n \in 0..imageSize
    BY <1>t, <2>3, ChunkSound DEF TypeOK
  <2>6. SectorsOf(written, written + n) \subseteq SectorsOf(0, imageSize)
    BY <1>t, <2>5, SectorsOfPart DEF TypeOK
  <2>7. OffsetInv' /\ AttemptInv'
    BY <1>t, <2>2, <2>4, FlashAssumption DEF OffsetInv, AttemptInv, Reviving, TypeOK
  <2> QED
    BY <1>t, <2>2, <2>3, <2>4, <2>5, <2>6, <2>7, SafeWrite
    DEF SafeInv, SizeInv, TypeOK, Writing, Reviving, HandingOver, Returned
<1>6. CASE Sync
  <2>1. OffsetInv' /\ AttemptInv'
    BY <1>6 DEF Sync, OffsetInv, AttemptInv, Reviving
  <2> QED
    BY <1>t, <1>6, <2>1, SafeWrite
    DEF Sync, SafeInv, SizeInv, TypeOK, Writing, Reviving, HandingOver, Returned
<1>7. CASE SyncFails
  <2>1. PICK kind \in {"lost", "other"} : WriteError(kind)
    BY <1>7 DEF SyncFails
  <2>2. \/ pc' = "revive" /\ CanRevive /\ ~(attempt > WriteRetries)
        \/ pc' = "failed"
    BY <2>1, WriteErrorOutcome
  <2>3. UNCHANGED <<cancelled, written, attempt, polls, board, mux, disk, mounted,
                    rig, imageSize, deviceSize>> /\ pc = "sync"
    BY <1>7 DEF SyncFails
  <2>4. (good \union cached)' \subseteq good \union cached
    BY <1>7 DEF SyncFails
  <2>5. OffsetInv' /\ AttemptInv'
    BY <1>t, <2>2, <2>3, FlashAssumption DEF OffsetInv, AttemptInv, Reviving, TypeOK
  <2> QED
    BY <1>t, <2>2, <2>3, <2>4, <2>5, SafeWrite
    DEF SafeInv, SizeInv, TypeOK, Writing, Reviving, HandingOver, Returned
<1>8. CASE Revive \/ ReviveFails
  <2>1. OffsetInv' /\ AttemptInv'
    BY <1>8 DEF Revive, ReviveFails, OffsetInv, SafeInv, AttemptInv, Reviving
  <2> QED
    BY <1>t, <1>8, <2>1, SafeWrite
    DEF Revive, ReviveFails, SafeInv, SizeInv, TypeOK, Writing, Reviving,
        HandingOver, Returned
<1>9. CASE UnmountRevived
  <2>1. /\ ResumePoint(written) \in 0..written
        /\ Boundary(ResumePoint(written))
        /\ ResumePoint(written) % SectorSize = 0
    BY <1>t, ResumePointSound DEF TypeOK
  <2>2. OffsetInv' /\ AttemptInv'
    BY <1>9, <2>1 DEF UnmountRevived, Unmount, OffsetInv, AttemptInv, Reviving, Boundary
  <2>3. attempt' \in 1..(WriteRetries + 1)
    BY <1>t, <1>9, FlashAssumption
    DEF UnmountRevived, Unmount, NextAttempt, SafeInv, AttemptInv, Reviving, TypeOK
  <2>4. written' \in 0..imageSize
    BY <1>t, <1>9, <2>1 DEF UnmountRevived, Unmount, TypeOK
  <2> QED
    BY <1>t, <1>9, <2>2, <2>3, <2>4, SafeWrite
    DEF UnmountRevived, Unmount, SafeInv, SizeInv, TypeOK, Writing, Reviving, HandingOver,
        Returned
<1>10. CASE SwitchToTarget \/ SwitchToTargetFails
  <2>1. OffsetInv' /\ AttemptInv'
    BY <1>10 DEF SwitchToTarget, SwitchToTargetFails, OffsetInv, AttemptInv, Reviving
  <2> QED
    BY <1>t, <1>10, <2>1, SafeWrite
    DEF SwitchToTarget, SwitchToTargetFails, GiveCard, SafeInv, SizeInv, TypeOK,
        Writing, Reviving, HandingOver, Returned
<1>11. CASE ReaderLost \/ WriteBack
  <2>1. UNCHANGED <<pc, cancelled, written, attempt, polls, board, mux,
                    rig, imageSize, deviceSize>>
    BY <1>11 DEF ReaderLost, WriteBack
  <2>2. /\ (good \union cached)' \subseteq good \union cached
        /\ disk' \in {"absent", "present", "lost"}
        /\ mounted' \in BOOLEAN
    BY <1>t, <1>11 DEF ReaderLost, WriteBack, TypeOK
  <2>3. SizesFit' <=> SizesFit
    BY <2>1 DEF SizesFit
  <2>4. good' \subseteq Nat /\ cached' \subseteq Nat
    BY <1>t, <2>2 DEF TypeOK
  <2>5. TypeOK'
    BY <1>t, <2>1, <2>2, <2>4 DEF TypeOK
  <2>6. pc \in Before => good' = {} /\ cached' = {}
    BY <2>2 DEF SafeInv, SizeInv
  <2>7. SizeInv'
    BY <2>1, <2>2, <2>3, <2>6 DEF SafeInv, SizeInv, SectorsOf
  <2>8. OffsetInv' /\ AttemptInv'
    BY <2>1 DEF SafeInv, OffsetInv, AttemptInv, Boundary
  <2> QED BY <2>5, <2>7, <2>8 DEF SafeInv
<1>12. CASE UNCHANGED vars
  BY <1>12 DEF vars, SafeInv, TypeOK, SizeInv, OffsetInv, AttemptInv, SizesFit,
            SectorsOf, Boundary
<1> QED
  BY <1>1, <1>2, <1>3, <1>4, <1>5, <1>6, <1>7, <1>8, <1>9, <1>10, <1>11, <1>12
  DEF Next, Program, Environment, Quiet

\* SafeInv holds throughout, on every platform.
LEMMA SafeInvariant == Spec => []SafeInv
<1> QED BY SafeInit, SafeNext, PTL DEF Spec

\* Every variable keeps its type in every configuration; in particular no
\* flash makes more attempts than WithWriteRetries allows.
THEOREM TypeCorrect == Spec => []TypeOK
<1>1. SafeInv => TypeOK
  BY DEF SafeInv
<1> QED BY <1>1, SafeInvariant, PTL

\* However a write is interrupted and resumed, it starts on a sector boundary
\* of the raw device.
THEOREM SeeksAligned == Spec => []AlignedSeek
<1>1. SafeInv => AlignedSeek
  BY DEF SafeInv, OffsetInv, AlignedSeek
<1> QED BY <1>1, SafeInvariant, PTL

\* No write reaches past the device's end, the padding of the last sector
\* included, for any image, device and sector size.
THEOREM StaysWithinDevice == Spec => []WithinDevice
<1>1. SafeInv => WithinDevice
  <2> SUFFICES ASSUME SafeInv, good \union cached # {}
               PROVE  /\ good \union cached \subseteq 0..(deviceSize - 1)
                      /\ deviceSize * SectorSize <= MaxDeviceSize
    BY DEF WithinDevice
  <2>1. SizesFit /\ imageSize \in Nat /\ deviceSize \in Nat
    BY DEF SafeInv, SizeInv, TypeOK
  <2>2. SectorsOf(0, imageSize) \subseteq 0..(deviceSize - 1)
    BY <2>1, SectorFits DEF SizesFit
  <2> QED BY <2>1, <2>2 DEF SafeInv, SizeInv, SizesFit
<1> QED BY <1>1, SafeInvariant, PTL

---------------------------------------------------------------------------
(* Where the card and the board are.                                       *)

\* The card, the reader and the board agree with the program's place at first.
LEMMA WorldInit == Init => WorldInv
<1> SUFFICES ASSUME Init PROVE WorldInv
  OBVIOUS
<1>1. DiskInv
  BY DEF Init, DiskInv, Writing, Reviving, HandingOver
<1>2. DarkInv
  BY DEF Init, DarkInv, Steps
<1> QED BY <1>1, <1>2, SafeInit DEF WorldInv

\* Sectors of no bytes at all.
LEMMA NoSectors == ASSUME NEW w \in Nat PROVE SectorsOf(w, w + 0) = {}
  BY DEF SectorsOf

\* Every step keeps them in agreement.
LEMMA WorldNext == WorldInv /\ [Next]_vars => WorldInv'
<1> SUFFICES ASSUME WorldInv, [Next]_vars PROVE WorldInv'
  OBVIOUS
<1>t. TypeOK /\ SizeInv
  BY DEF WorldInv, SafeInv
<1>s. SafeInv'
  BY SafeNext DEF WorldInv
<1>r. Buffered' = Buffered /\ LateMount' = LateMount /\ CanRevive' = CanRevive
  BY RigStands
<1> USE <1>r
<1> USE DEF Go, call, reader, data, fixed
<1>1. DiskInv'
  <2> USE DEF WorldInv, DiskInv, TypeOK, Writing, Reviving, HandingOver
  <2>0. CASE SwitchToHost \/ SwitchToHostFails
    BY <1>t, <2>0 DEF SwitchToHost, SwitchToHostFails, SizeInv, Before
  <2>1. CASE Quiet /\ ~SwitchToHost /\ ~SwitchToHostFails
    BY <1>t, <2>1
    DEF Quiet, CancelSeen, PowerOff, PowerOffFails, WaitForBlockDevice, FoundBlockDevice, PollAgain,
        NoBlockDevice, CheckSizesAndUnmount, Unmount, CheckFails, OpenImageAndDevice,
        CopyAtEnd, UnmountRevivedFails, UnmountBeforeSwitch, NothingToUnmount,
        UnmountBeforeSwitchFails, PowerOn, PowerOnFails, Cancel, DiskAppears,
        MountsLate
  <2>2. CASE OpenFails
    BY <2>2, WriteErrorOutcome DEF OpenFails
  <2>3. CASE CopyChunk
    BY <2>3 DEF CopyChunk, Store
  <2>4. CASE CopyFails
    BY <2>4, WriteErrorOutcome DEF CopyFails, Store
  <2>5. CASE ReadFails
    <3>1. cached' # {} => disk = "present" /\ Buffered
      BY <1>t, <2>5, NoSectors DEF ReadFails
    <3>2. UNCHANGED <<mux, disk>> /\ pc' \in {"revive", "failed"} /\ pc = "copy"
      BY <2>5, WriteErrorOutcome DEF ReadFails
    <3> QED BY <3>1, <3>2
  <2>6. CASE Sync \/ SyncFails
    BY <2>6, WriteErrorOutcome DEF Sync, SyncFails
  <2>7. CASE Revive \/ ReviveFails \/ UnmountRevived
    BY <2>7 DEF Revive, ReviveFails, UnmountRevived, Unmount
  <2>8. CASE SwitchToTarget \/ SwitchToTargetFails
    BY <2>8 DEF SwitchToTarget, SwitchToTargetFails, GiveCard
  <2>9. CASE ReaderLost \/ WriteBack
    BY <2>9 DEF ReaderLost, WriteBack
  <2>10. CASE UNCHANGED vars
    BY <2>10 DEF vars
  <2> QED
    BY <2>0, <2>1, <2>2, <2>3, <2>4, <2>5, <2>6, <2>7, <2>8, <2>9, <2>10
    DEF Next, Program, Environment, Quiet
<1>2. DarkInv'
  <2> USE DEF WorldInv, DiskInv, DarkInv, SizeInv, TypeOK, Before, Writing,
              Reviving, HandingOver, Steps
  <2>1. CASE Quiet
    BY <1>t, <2>1
    DEF Quiet, CancelSeen, PowerOff, PowerOffFails, SwitchToHost,
        SwitchToHostFails, WaitForBlockDevice, FoundBlockDevice, PollAgain,
        NoBlockDevice, CheckSizesAndUnmount, Unmount, CheckFails, OpenImageAndDevice,
        CopyAtEnd, UnmountRevivedFails, UnmountBeforeSwitch, NothingToUnmount,
        UnmountBeforeSwitchFails, PowerOn, PowerOnFails, Cancel, DiskAppears,
        MountsLate
  <2>2. CASE OpenFails \/ CopyChunk \/ CopyFails \/ ReadFails \/ Sync \/ SyncFails
    BY <2>2, WriteErrorOutcome
    DEF OpenFails, CopyChunk, CopyFails, ReadFails, Sync, SyncFails
  <2>3. CASE Revive \/ ReviveFails \/ UnmountRevived
    BY <2>3 DEF Revive, ReviveFails, UnmountRevived, Unmount
  <2>4. CASE SwitchToTarget \/ SwitchToTargetFails
    BY <2>4 DEF SwitchToTarget, SwitchToTargetFails, GiveCard
  <2>5. CASE ReaderLost \/ WriteBack
    BY <2>5 DEF ReaderLost, WriteBack
  <2>6. CASE UNCHANGED vars
    BY <2>6 DEF vars
  <2> QED
    BY <2>1, <2>2, <2>3, <2>4, <2>5, <2>6 DEF Next, Program, Environment, Quiet
<1> QED BY <1>s, <1>1, <1>2 DEF WorldInv

---------------------------------------------------------------------------
(* The card's content.                                                     *)

\* A write that was counted and not lost is on the card: with what is written
\* up to w, and a chunk from there, everything up to the chunk's end is.
LEMMA ChunkAdds ==
  ASSUME NEW w \in Nat, NEW n \in Nat, NEW held, NEW more,
         SectorsOf(0, w) \subseteq held,
         held \union SectorsOf(w, w + n) \subseteq more
  PROVE  SectorsOf(0, w + n) \subseteq more
<1>1. w + n \in Nat /\ w <= w + n
  OBVIOUS
<1>2. SectorsOf(0, w + n) \subseteq SectorsOf(0, w) \union SectorsOf(w, w + n)
  BY <1>1, SectorSplit
<1> QED BY <1>2

\* A sector that lies wholly below the end of a part that starts at lo is of
\* that part, or lies before it, where a padded last sector does not reach.
LEMMA WholeSplit ==
  ASSUME NEW lo \in Nat, NEW n \in Nat, NEW s \in WholeSectors(lo + n)
  PROVE  /\ s \in SectorsOf(0, lo) \/ s \in SectorsOf(lo, lo + n)
         /\ (s + 1) * SectorSize <= lo + n
<1>1. s \in SectorsOf(0, lo + n) /\ (s + 1) * SectorSize <= lo + n
  BY WholeTouched DEF WholeSectors
<1> QED BY <1>1, SectorSplit

\* The whole inductive invariant holds at first.
LEMMA CardInit == Init => CardInv
<1> SUFFICES ASSUME Init PROVE CardInv
  OBVIOUS
<1>1. NoResume
  BY DEF Init, NoResume, Reviving
<1>2. CopyInv
  BY DEF Init, CopyInv, Writing, Reviving, HandingOver
<1> QED BY <1>1, <1>2, WorldInit DEF CardInv

\* Where nothing that was cached is ever resumed, that stays so.
LEMMA NoResumeNext ==
  ASSUME Durable, WorldInv, NoResume, [Next]_vars
  PROVE  NoResume'
<1>r. Buffered' = Buffered /\ LateMount' = LateMount /\ CanRevive' = CanRevive
  BY RigStands
<1> USE <1>r
<1> SUFFICES ASSUME Buffered PROVE attempt' = 1 /\ pc' \notin Reviving
  BY DEF NoResume
<1> USE DEF Go, call, reader, data, fixed, NoResume, Reviving
<1>1. CASE Quiet
  BY <1>1
  DEF Quiet, CancelSeen, PowerOff, PowerOffFails, SwitchToHost,
      SwitchToHostFails, WaitForBlockDevice, FoundBlockDevice, PollAgain,
      NoBlockDevice, CheckSizesAndUnmount, Unmount, CheckFails, OpenImageAndDevice,
      CopyAtEnd, UnmountRevivedFails, UnmountBeforeSwitch, NothingToUnmount,
      UnmountBeforeSwitchFails, PowerOn, PowerOnFails, Cancel, DiskAppears,
      MountsLate
<1>2. ~CanRevive \/ attempt > WriteRetries
  BY FlashAssumption DEF Durable, WorldInv, SafeInv, TypeOK, Buffered, CanRevive
<1>3. CASE OpenFails \/ CopyFails \/ ReadFails \/ SyncFails
  BY <1>2, <1>3, WriteErrorOutcome DEF OpenFails, CopyFails, ReadFails, SyncFails
<1>4. CASE CopyChunk \/ Sync \/ SwitchToTarget \/ SwitchToTargetFails
  BY <1>4 DEF CopyChunk, Sync, SwitchToTarget, SwitchToTargetFails
<1>5. CASE Revive \/ ReviveFails \/ UnmountRevived
  BY <1>5 DEF Revive, ReviveFails, UnmountRevived, Unmount
<1>6. CASE ReaderLost \/ WriteBack \/ UNCHANGED vars
  BY <1>6 DEF ReaderLost, WriteBack, vars
<1> QED
  BY <1>1, <1>3, <1>4, <1>5, <1>6 DEF Next, Program, Environment, Quiet

\* Every step keeps what has been counted as written on the card or in the cache.
LEMMA CopyInvNext ==
  ASSUME CardInv, NoResume', [Next]_vars
  PROVE  CopyInv'
<1>r. Buffered' = Buffered /\ LateMount' = LateMount /\ CanRevive' = CanRevive
  BY RigStands
<1> USE <1>r
<1> USE DEF Go, call, reader, data, fixed
<1>t. /\ TypeOK /\ SizeInv /\ OffsetInv /\ DiskInv /\ NoResume /\ CopyInv
      /\ written \in Nat /\ imageSize \in Nat
  BY DEF CardInv, WorldInv, SafeInv, TypeOK
<1>b. ~Buffered => cached = {}
  BY <1>t DEF DiskInv
<1>1. CASE Quiet
  <2>1. /\ UNCHANGED <<written, good, cached, imageSize>>
        /\ pc' \in Writing => pc \in Writing \/ written = 0
        /\ pc' \in Writing => (disk = "present" <=> disk' = "present")
        /\ pc' \in Reviving => pc \in Reviving
        /\ pc' \in HandingOver => pc \in HandingOver
    BY <1>1, <1>t
    DEF Quiet, CancelSeen, PowerOff, PowerOffFails, SwitchToHost,
        SwitchToHostFails, WaitForBlockDevice, FoundBlockDevice, PollAgain,
        NoBlockDevice, CheckSizesAndUnmount, Unmount, CheckFails, OpenImageAndDevice,
        CopyAtEnd, UnmountRevivedFails, UnmountBeforeSwitch, NothingToUnmount,
        UnmountBeforeSwitchFails, PowerOn, PowerOnFails, Cancel, DiskAppears,
        MountsLate, Writing, Reviving, HandingOver, SizeInv, Before, DiskInv
  <2>2. SectorsOf(0, 0) = {}
    BY DEF SectorsOf
  <2> QED BY <1>t, <2>1, <2>2 DEF CopyInv, ImageSectors, SectorsOf, WholeSectors
<1>2. CASE OpenFails
  <2>1. UNCHANGED <<written, good, cached>> /\ pc = "open"
    BY <1>2 DEF OpenFails
  <2>2. pc' \in {"revive", "failed"}
    BY <1>2, WriteErrorOutcome DEF OpenFails
  <2>3. pc' = "revive" => SectorsOf(0, written) \subseteq good
    BY <1>t, <1>b, <2>1 DEF CopyInv, NoResume, Writing, Reviving
  <2> QED
    BY <1>t, <2>1, <2>2, <2>3, WholeTouched
    DEF CopyInv, Writing, Reviving, HandingOver, WholeSectors
<1>3. CASE CopyChunk
  <2>1. /\ pc = "copy" /\ pc' \in {"copy", "sync"} /\ disk = "present"
        /\ written' = written + NextChunk
        /\ (good \union cached)' =
             good \union cached \union SectorsOf(written, written + NextChunk)
    BY <1>3 DEF CopyChunk, Store
  <2>2. NextChunk \in Nat
    BY <1>t, ChunkSound
  <2>3. SectorsOf(0, written) \subseteq good \union cached
    BY <1>t, <2>1 DEF CopyInv, Writing
  <2>4. SectorsOf(0, written + NextChunk) \subseteq (good \union cached)'
    BY <1>t, <2>1, <2>2, <2>3, ChunkAdds
  <2> QED BY <2>1, <2>4 DEF CopyInv, Writing, Reviving, HandingOver, SectorsOf
<1>4. CASE CopyFails
  <2>1. pc' \in {"revive", "failed"} /\ pc = "copy"
    BY <1>4, WriteErrorOutcome DEF CopyFails
  <2>2. SUFFICES ASSUME pc' = "revive" PROVE WholeSectors(written)' \subseteq good'
    BY <2>1 DEF CopyInv, Writing, Reviving, HandingOver
  <2>3. ~Buffered
    BY <2>2 DEF NoResume, Reviving
  <2>4. SectorsOf(0, written) \subseteq good
    BY <1>t, <1>b, <2>1, <2>3 DEF CopyInv, Writing
  <2>5. Boundary(written)
    <3>1. NextChunk > 0
      BY <1>4 DEF CopyFails
    <3>2. written # imageSize
      BY <1>t, <3>1, ChunkSound
    <3> QED BY <1>t, <2>1, <3>2 DEF OffsetInv
  <2>6. SectorsOf(0, written) \intersect SectorsOf(written, written + NextChunk) = {}
    BY <1>t, <2>5, SectorDisjoint, ChunkSound
  <2>7. good \ SectorsOf(written, written + NextChunk) \subseteq good'
    BY <1>4, <2>3 DEF CopyFails
  <2>8. written' = written
    BY <1>4 DEF CopyFails
  <2> QED BY <1>t, <2>4, <2>6, <2>7, <2>8, WholeTouched DEF WholeSectors
<1>5. CASE ReadFails
  <2>1. pc' \in {"revive", "failed"} /\ pc = "copy"
    BY <1>5, WriteErrorOutcome DEF ReadFails
  <2>2. SUFFICES ASSUME pc' = "revive" PROVE WholeSectors(written)' \subseteq good'
    BY <2>1 DEF CopyInv, Writing, Reviving, HandingOver
  <2>3. ~Buffered
    BY <2>2 DEF NoResume, Reviving
  <2>4. SectorsOf(0, written) \subseteq good
    BY <1>t, <1>b, <2>1, <2>3 DEF CopyInv, Writing
  <2> DEFINE whole(n) == {s \in SectorsOf(written, written + n) :
                            \/ (s + 1) * SectorSize <= written + n
                            \/ written + n = imageSize}
             padded(n) == SectorsOf(written, written + n) \ whole(n)
  <2>5. PICK n \in 0..ChunkSize :
          /\ written + n <= imageSize
          /\ good' = (good \ padded(n)) \union whole(n)
          /\ written' = written + n
    BY <1>5, <2>3 DEF ReadFails
  <2>6. n \in Nat
    BY <1>t, ChunkSound
  <2>7. Boundary(written) \/ padded(n) = {}
    <3>1. CASE written = imageSize
      <4>1. n = 0
        BY <1>t, <2>5, <2>6, <3>1
      <4>2. SectorsOf(written, written + n) = {}
        BY <1>t, <4>1, NoSectors
      <4> QED BY <4>2
    <3> QED BY <1>t, <2>1, <3>1 DEF OffsetInv
  <2>8. WholeSectors(written + n) \subseteq (good \ padded(n)) \union whole(n)
    <3> SUFFICES ASSUME NEW s \in WholeSectors(written + n)
                 PROVE  s \in (good \ padded(n)) \union whole(n)
      OBVIOUS
    <3>1. /\ s \in SectorsOf(0, written) \/ s \in SectorsOf(written, written + n)
          /\ (s + 1) * SectorSize <= written + n
      BY <1>t, <2>6, WholeSplit
    <3>2. CASE s \in SectorsOf(written, written + n)
      BY <3>1, <3>2
    <3>3. CASE s \in SectorsOf(0, written)
      <4>1. s \notin padded(n)
        BY <1>t, <2>6, <2>7, <3>3, SectorDisjoint
      <4> QED BY <2>4, <3>3, <4>1
    <3> QED BY <3>1, <3>2, <3>3
  <2> QED BY <2>5, <2>8 DEF WholeSectors
<1>6. CASE Sync
  <2>1. /\ pc = "sync" /\ pc' = "eject" /\ good' = good \union cached
        /\ Buffered => disk = "present"
        /\ imageSize' = imageSize
    BY <1>6 DEF Sync
  <2>2. SectorsOf(0, imageSize) \subseteq good \union cached
    BY <1>t, <2>1 DEF CopyInv, OffsetInv, Writing
  <2> QED
    BY <2>1, <2>2 DEF CopyInv, Writing, Reviving, HandingOver, ImageSectors, SectorsOf
<1>7. CASE SyncFails
  <2>1. pc' \in {"revive", "failed"} /\ pc = "sync"
    BY <1>7, WriteErrorOutcome DEF SyncFails
  <2>2. SUFFICES ASSUME pc' = "revive" PROVE WholeSectors(written)' \subseteq good'
    BY <2>1 DEF CopyInv, Writing, Reviving, HandingOver
  <2>3. SectorsOf(0, written) \subseteq good
    BY <1>t, <1>b, <2>1, <2>2 DEF CopyInv, NoResume, Writing, Reviving
  <2>4. good \subseteq good' /\ written' = written
    BY <1>7 DEF SyncFails
  <2> QED BY <1>t, <2>3, <2>4, WholeTouched DEF WholeSectors
<1>8. CASE Revive \/ ReviveFails
  BY <1>t, <1>8
  DEF Revive, ReviveFails, CopyInv, Writing, Reviving, HandingOver, WholeSectors
<1>9. CASE UnmountRevived
  <2>1. pc' = "open" /\ pc = "reunmount" /\ good' = good /\ cached' = cached
        /\ written' = ResumePoint(written)
    BY <1>9 DEF UnmountRevived, Unmount
  <2>2. SectorsOf(0, ResumePoint(written)) \subseteq good
    BY <1>t, <2>1, ResumePointSound DEF CopyInv, Reviving
  <2> QED
    BY <2>1, <2>2 DEF CopyInv, Writing, Reviving, HandingOver, SectorsOf
<1>10. CASE SwitchToTarget \/ SwitchToTargetFails
  BY <1>t, <1>10
  DEF SwitchToTarget, SwitchToTargetFails, CopyInv, Writing, Reviving,
      HandingOver, ImageSectors, SectorsOf
<1>11. CASE ReaderLost
  <2>1. /\ UNCHANGED <<pc, written, good, imageSize>>
        /\ disk' = "lost" /\ cached' = {}
    BY <1>11 DEF ReaderLost
  <2> QED
    BY <1>t, <1>b, <2>1
    DEF CopyInv, Writing, Reviving, HandingOver, ImageSectors, SectorsOf, WholeSectors
<1>12. CASE WriteBack
  <2>1. /\ UNCHANGED <<pc, written, disk, imageSize>>
        /\ good \subseteq good' /\ (good \union cached)' = good \union cached
    BY <1>12 DEF WriteBack
  <2> QED
    BY <1>t, <2>1
    DEF CopyInv, Writing, Reviving, HandingOver, ImageSectors, SectorsOf, WholeSectors
<1>13. CASE UNCHANGED vars
  BY <1>t, <1>13 DEF vars, CopyInv, ImageSectors, SectorsOf, WholeSectors
<1> QED
  BY <1>1, <1>2, <1>3, <1>4, <1>5, <1>6, <1>7, <1>8, <1>9, <1>10, <1>11, <1>12, <1>13
  DEF Next, Program, Environment, Quiet

\* The inductive invariant, of every behaviour whose resumed writes are durable.
LEMMA CardInvariant == ASSUME Durable PROVE Spec => []CardInv
<1>1. CardInv /\ [Next]_vars => CardInv'
  BY WorldNext, NoResumeNext, CopyInvNext DEF CardInv
<1> QED BY <1>1, CardInit, PTL DEF Spec

\* A flash that comes to hand the card over has written the whole image,
\* whatever was lost, revived and resumed on the way: for every image and
\* device, provided that the OS does not cache raw writes, or that nothing is
\* resumed.
THEOREM WholeOnHandover == ASSUME Durable PROVE Spec => []CardWhole
<1>1. CardInv => CardWhole
  BY DEF CardInv, CopyInv, CardWhole, HandingOver
<1> QED BY <1>1, CardInvariant, PTL

\* And no resumed write leaves a hole behind it.
THEOREM NoHoleLeft == ASSUME Durable PROVE Spec => []NoHole
<1>1. CardInv => NoHole
  BY WholeTouched
  DEF CardInv, WorldInv, SafeInv, TypeOK, CopyInv, NoHole, Writing
<1> QED BY <1>1, CardInvariant, PTL

---------------------------------------------------------------------------
(* FlashAndBoot implements its promise.                                    *)

\* Flash starts where its promise starts.
LEMMA PromiseInit == Init => Promise!Init
<1> SUFFICES ASSUME Init PROVE Promise!Init
  OBVIOUS
<1>1. imageSize \in Nat
  BY FlashAssumption DEF Init
<1>2. ~(imageSize > 0 /\ ImageSectors \subseteq good)
  <2> SUFFICES ASSUME imageSize > 0 PROVE 0 \in ImageSectors
    BY DEF Init
  <2> QED BY <1>1, FlashAssumption DEF ImageSectors, SectorsOf
<1> QED
  BY <1>2 DEF Init, Promise!Init, Promise!TypeOK, Returned

\* A step of Flash is a step of its promise, or leaves all the promise sees alone.
LEMMA PromiseStep ==
  ASSUME SwitchTakes, CardInv, [Next]_vars
  PROVE  [Promise!Next]_(Promise!vars)
<1> USE DEF Go, call, reader, data, fixed
<1>t. /\ TypeOK /\ SizeInv /\ DiskInv /\ DarkInv /\ CopyInv
  BY DEF CardInv, WorldInv, SafeInv
<1>i. /\ imageSize' = imageSize
      /\ ImageSectors' = ImageSectors
  <2>1. imageSize' = imageSize
    BY DEF Next, vars, Program, Environment, CancelSeen, PowerOff, PowerOffFails,
           SwitchToHost, SwitchToHostFails, WaitForBlockDevice, FoundBlockDevice,
           PollAgain, NoBlockDevice, CheckSizesAndUnmount, Unmount, CheckFails,
           OpenImageAndDevice, OpenFails, CopyChunk, CopyAtEnd, CopyFails,
           ReadFails, Sync, SyncFails, Revive, ReviveFails, UnmountRevived, Unmount,
           UnmountRevivedFails, UnmountBeforeSwitch, NothingToUnmount,
           UnmountBeforeSwitchFails, SwitchToTarget, SwitchToTargetFails,
           PowerOn, PowerOnFails, Cancel, DiskAppears, MountsLate, ReaderLost,
           WriteBack
  <2> QED BY <2>1 DEF ImageSectors, SectorsOf
<1>u. pc \in HandingOver => imageSize > 0 /\ ImageSectors \subseteq good
  BY <1>t DEF SizeInv, CopyInv, SizesFit
\* Steps that touch neither the board, the mux, the card nor the answer.
<1>1. CASE UNCHANGED <<board, mux, good>> /\ pc \notin Returned /\ pc' \notin Returned
  BY <1>1, <1>i DEF Promise!vars
<1>2. CASE UNCHANGED <<board, mux, good, pc>>
  BY <1>2, <1>i DEF Promise!vars
\* Errors that touch none of them either.
<1>3. CASE UNCHANGED <<board, mux, good>> /\ pc \notin Returned /\ pc' = "failed"
  BY <1>t, <1>3, <1>i DEF Promise!Next, Promise!GiveUp, Returned, TypeOK
\* Writes to the card, by the call or by the OS after it.
<1>4. CASE /\ UNCHANGED <<board, mux>>
           /\ pc \notin Returned => pc' \notin Returned
           /\ pc \in Returned => pc' = pc
           /\ good' # good => pc # "ok" /\ mux = "host" /\ (HasPower => board = "off")
  BY <1>t, <1>4, <1>i
  DEF Promise!Next, Promise!WriteCard, Promise!vars, Returned, TypeOK
<1>5. CASE /\ UNCHANGED <<board, mux>> /\ pc \notin Returned /\ pc' = "failed"
           /\ mux = "host" /\ (HasPower => board = "off")
  BY <1>t, <1>5, <1>i DEF Promise!Next, Promise!GiveUp, Returned, TypeOK
<1>6. CASE PowerOff
  BY <1>6, <1>i DEF PowerOff, Promise!Next, Promise!CutPower, Promise!vars, Returned
<1>7. CASE PowerOffFails
  BY <1>t, <1>7, <1>i DEF PowerOffFails, Promise!Next, Promise!GiveUp, Returned, TypeOK
<1>8. CASE SwitchToHost
  BY <1>t, <1>8, <1>i
  DEF SwitchToHost, Promise!Next, Promise!TakeCard, Returned, DarkInv, Steps
<1>9. CASE SwitchToHostFails
  BY <1>t, <1>9, <1>i
  DEF SwitchToHostFails, Promise!Next, Promise!GiveUp, Returned, DarkInv, Steps, TypeOK
<1>10. CASE OpenFails
  <2>1. pc' \in {"revive", "failed"}
    BY <1>10, WriteErrorOutcome DEF OpenFails
  <2> QED BY <1>1, <1>3, <1>10, <2>1 DEF OpenFails, Returned
<1>11. CASE CopyChunk \/ CopyFails \/ ReadFails \/ Sync \/ SyncFails
  <2>1. pc \in {"copy", "sync"} /\ mux = "host" /\ (HasPower => board = "off")
    BY <1>t, <1>11
    DEF CopyChunk, CopyFails, ReadFails, Sync, SyncFails, DiskInv, DarkInv, Writing, Steps
  <2>2. UNCHANGED <<board, mux>>
    BY <1>11 DEF CopyChunk, CopyFails, ReadFails, Sync, SyncFails
  <2>3. pc' \in {"copy", "sync", "eject", "revive", "failed"}
    BY <1>11, WriteErrorOutcome DEF CopyChunk, CopyFails, ReadFails, Sync, SyncFails
  <2> QED BY <1>4, <1>5, <2>1, <2>2, <2>3 DEF Returned
<1>12. CASE Revive
  BY <1>t, <1>1, <1>12 DEF Revive, Returned, DiskInv, Reviving
<1>13. CASE ReviveFails
  BY <1>t, <1>13, <1>i
  DEF ReviveFails, Promise!Next, Promise!GiveUp, Returned, DarkInv, Steps, TypeOK
<1>14. CASE UnmountRevived
  BY <1>1, <1>14 DEF UnmountRevived, Unmount, Returned
<1>15. CASE SwitchToTarget
  BY <1>t, <1>u, <1>15, <1>i
  DEF SwitchToTarget, GiveCard, Promise!Next, Promise!GiveCard, Returned,
      HandingOver, DarkInv, Steps
<1>16. CASE SwitchToTargetFails
  BY <1>t, <1>16, <1>i
  DEF SwitchToTargetFails, GiveCard, Promise!Next, Promise!GiveUp, Returned,
      DarkInv, Steps, TypeOK
<1>17. CASE PowerOn
  BY <1>t, <1>u, <1>17, <1>i
  DEF PowerOn, Promise!Next, Promise!Boot, Returned, HandingOver, DiskInv
<1>18. CASE PowerOnFails
  BY <1>t, <1>u, <1>18, <1>i
  DEF PowerOnFails, Promise!Next, Promise!GiveUp, Returned, HandingOver, DiskInv, TypeOK
<1>19. CASE WriteBack
  <2>1. pc # "ok" /\ mux = "host" /\ (HasPower => board = "off")
    BY <1>t, <1>19 DEF WriteBack, DiskInv, DarkInv, HandingOver
  <2> QED BY <1>4, <1>19, <2>1 DEF WriteBack
<1>20. CASE CancelSeen
  BY <1>3, <1>20 DEF CancelSeen, Returned
<1>21. CASE \/ WaitForBlockDevice("find", "check")
            \/ WaitForBlockDevice("refind", "reunmount")
            \/ CheckSizesAndUnmount \/ CheckFails
            \/ OpenImageAndDevice \/ CopyAtEnd \/ UnmountRevivedFails
            \/ UnmountBeforeSwitch \/ NothingToUnmount \/ UnmountBeforeSwitchFails
  BY <1>1, <1>3, <1>21
  DEF WaitForBlockDevice, FoundBlockDevice, PollAgain, NoBlockDevice,
      CheckSizesAndUnmount, Unmount, CheckFails, OpenImageAndDevice, CopyAtEnd,
      UnmountRevivedFails, UnmountBeforeSwitch, NothingToUnmount,
      UnmountBeforeSwitchFails, Returned
<1>22. CASE Cancel \/ DiskAppears \/ MountsLate \/ ReaderLost \/ UNCHANGED vars
  BY <1>2, <1>22 DEF Cancel, DiskAppears, MountsLate, ReaderLost, vars
<1> QED
  BY <1>6, <1>7, <1>8, <1>9, <1>10, <1>11, <1>12, <1>13, <1>14, <1>15, <1>16,
     <1>17, <1>18, <1>19, <1>20, <1>21, <1>22
  DEF Next, Program, Environment

\* FlashAndBoot implements what it promises its caller: it writes the card on
\* the host's side and with a dark board only, and powers up the board, or
\* answers with success, from a whole image on the target's side only.
THEOREM KeepsPromise ==
  ASSUME Durable, SwitchTakes PROVE Spec => PromiseKept
<1>1. CardInv /\ [Next]_vars => [Promise!Next]_(Promise!vars)
  BY PromiseStep
<1> QED
  BY <1>1, PromiseInit, CardInvariant, PTL DEF Spec, PromiseKept, Promise!Spec

---------------------------------------------------------------------------
(* Mounted volumes.                                                        *)

\* The steps from the unmount to the hand-over or the revive.
Bare == Writing \union {"revive", "eject", "switch"}

\* What is mounted is on the bus, with nothing of the image in the OS's cache;
\* and once a volume was unmounted, the disk never goes and comes back while
\* the call still writes to it or has it in hand.
MountInv ==
  ~LateMount =>
    /\ mounted => cached = {} /\ disk = "present"
    /\ pc \in Bare => ~mounted /\ disk # "absent"

LEMMA MountInit == Init => MountInv
BY DEF Init, MountInv, Bare, Writing

\* Every step keeps the volumes off where nothing is mounted late.
LEMMA MountNext ==
  ASSUME WorldInv, MountInv, [Next]_vars PROVE MountInv'
<1>r. Buffered' = Buffered /\ LateMount' = LateMount /\ CanRevive' = CanRevive
  BY RigStands
<1> USE <1>r
<1> USE DEF Go, call, reader, data, fixed, WorldInv, DiskInv, MountInv, Bare, Writing
<1>1. CASE Quiet
  BY <1>1
  DEF Quiet, CancelSeen, PowerOff, PowerOffFails, SwitchToHost,
      SwitchToHostFails, WaitForBlockDevice, FoundBlockDevice, PollAgain,
      NoBlockDevice, CheckSizesAndUnmount, Unmount, CheckFails, OpenImageAndDevice,
      CopyAtEnd, UnmountRevivedFails, UnmountBeforeSwitch, NothingToUnmount,
      UnmountBeforeSwitchFails, PowerOn, PowerOnFails, Cancel, DiskAppears,
      MountsLate
<1>2. CASE OpenFails \/ CopyChunk \/ CopyFails \/ ReadFails \/ Sync \/ SyncFails
  BY <1>2, WriteErrorOutcome
  DEF OpenFails, CopyChunk, CopyFails, ReadFails, Sync, SyncFails
<1>3. CASE Revive \/ ReviveFails \/ UnmountRevived
  BY <1>3 DEF Revive, ReviveFails, UnmountRevived, Unmount
<1>4. CASE SwitchToTarget \/ SwitchToTargetFails
  BY <1>4 DEF SwitchToTarget, SwitchToTargetFails, GiveCard
<1>5. CASE ReaderLost \/ WriteBack
  BY <1>5 DEF ReaderLost, WriteBack
<1>6. CASE UNCHANGED vars
  BY <1>6 DEF vars
<1> QED
  BY <1>1, <1>2, <1>3, <1>4, <1>5, <1>6 DEF Next, Program, Environment, Quiet

\* It holds of every state.
LEMMA MountInvariant == Spec => [](WorldInv /\ MountInv)
<1>1. WorldInv /\ MountInv /\ [Next]_vars => MountInv'
  BY MountNext
<1> QED
  BY <1>1, WorldInit, WorldNext, MountInit, PTL DEF Spec

\* Where nothing is mounted after the disk appeared, a card with a mounted
\* volume is never written raw, in the first write or after a revive.
THEOREM WritesNoMounted == Spec => RawWriteUnmounted
<1>1. ASSUME MountInv, Next, mounted, ~LateMount
      PROVE  good' = good /\ cached' \subseteq cached
  <2> USE <1>1 DEF Go, call, reader, data, fixed, MountInv, Bare, Writing
  <2>1. CASE Quiet
    BY <2>1
    DEF Quiet, CancelSeen, PowerOff, PowerOffFails, SwitchToHost,
        SwitchToHostFails, WaitForBlockDevice, FoundBlockDevice, PollAgain,
        NoBlockDevice, CheckSizesAndUnmount, Unmount, CheckFails, OpenImageAndDevice,
        CopyAtEnd, UnmountRevivedFails, UnmountBeforeSwitch, NothingToUnmount,
        UnmountBeforeSwitchFails, PowerOn, PowerOnFails, Cancel, DiskAppears,
        MountsLate
  <2>2. CASE OpenFails \/ CopyChunk \/ CopyFails \/ ReadFails \/ Sync \/ SyncFails
    BY <2>2 DEF OpenFails, CopyChunk, CopyFails, ReadFails, Sync, SyncFails
  <2>3. CASE Revive \/ ReviveFails \/ UnmountRevived
    BY <2>3 DEF Revive, ReviveFails, UnmountRevived
  <2>4. CASE SwitchToTarget \/ SwitchToTargetFails
    BY <2>4 DEF SwitchToTarget, SwitchToTargetFails
  <2>5. CASE ReaderLost \/ WriteBack
    BY <2>5 DEF ReaderLost, WriteBack
  <2> QED
    BY <2>1, <2>2, <2>3, <2>4, <2>5 DEF Next, Program, Environment, Quiet
<1>2. MountInv /\ [Next]_vars
        => [mounted /\ ~LateMount => good' = good /\ cached' \subseteq cached]_vars
  BY <1>1
<1> QED
  BY <1>2, MountInvariant, PTL DEF Spec, RawWriteUnmounted

---------------------------------------------------------------------------
(* Progress.                                                               *)

\* Every step of the call is a step forward.
LEMMA ProgramCloser ==
  ASSUME TypeOK, Program PROVE Closer
<1> USE DEF Go, call, Closer
<1>1. CASE CancelSeen
  BY <1>1 DEF CancelSeen, Rank
<1>2. CASE PowerOff \/ PowerOffFails
  BY <1>2 DEF PowerOff, PowerOffFails, Rank
<1>3. CASE SwitchToHost \/ SwitchToHostFails
  BY <1>3 DEF SwitchToHost, SwitchToHostFails, Rank
<1>4. CASE \/ WaitForBlockDevice("find", "check")
           \/ WaitForBlockDevice("refind", "reunmount")
  <2>1. CASE PollAgain("find") \/ PollAgain("refind")
    BY <2>1 DEF PollAgain, TypeOK
  <2>2. CASE FoundBlockDevice("find", "check") \/ FoundBlockDevice("refind", "reunmount")
    BY <2>2 DEF FoundBlockDevice, Rank
  <2>3. CASE NoBlockDevice("find") \/ NoBlockDevice("refind")
    BY <2>3 DEF NoBlockDevice, Rank
  <2> QED BY <1>4, <2>1, <2>2, <2>3 DEF WaitForBlockDevice
<1>5. CASE CheckSizesAndUnmount \/ CheckFails \/ OpenImageAndDevice \/ CopyAtEnd
  BY <1>5 DEF CheckSizesAndUnmount, CheckFails, OpenImageAndDevice, CopyAtEnd, Rank
<1>6. CASE OpenFails \/ CopyFails \/ ReadFails \/ SyncFails
  <2>1. /\ pc \in {"open", "copy", "sync"} /\ attempt' = attempt
        /\ pc' \in {"revive", "failed"}
    BY <1>6 DEF OpenFails, CopyFails, ReadFails, SyncFails, WriteError
  <2> QED BY <2>1 DEF Rank
<1>7. CASE CopyChunk
  <2>1. /\ pc = "copy" /\ pc' \in {"sync", "copy"}
        /\ NextChunk > 0 /\ written' = written + NextChunk
        /\ attempt' = attempt /\ polls' = polls
    BY <1>7 DEF CopyChunk
  <2>2. NextChunk \in Nat
    BY FlashAssumption DEF NextChunk, ChunkSize, TypeOK
  <2>3. written' > written
    BY <2>1, <2>2 DEF TypeOK
  <2>4. CASE pc' = "sync"
    BY <2>1, <2>4 DEF Rank
  <2> QED BY <2>1, <2>3, <2>4
<1>8. CASE Sync
  BY <1>8 DEF Sync, Rank
<1>9. CASE Revive \/ ReviveFails
  BY <1>9 DEF Revive, ReviveFails, Rank
<1>10. CASE UnmountRevived
  BY <1>10 DEF UnmountRevived, NextAttempt, TypeOK
<1>11. CASE UnmountRevivedFails
  BY <1>11 DEF UnmountRevivedFails, Rank
<1>12. CASE UnmountBeforeSwitch \/ NothingToUnmount \/ UnmountBeforeSwitchFails
  BY <1>12 DEF UnmountBeforeSwitch, NothingToUnmount, UnmountBeforeSwitchFails, Rank
<1>13. CASE SwitchToTarget \/ SwitchToTargetFails
  BY <1>13 DEF SwitchToTarget, SwitchToTargetFails, Rank
<1>14. CASE PowerOn \/ PowerOnFails
  BY <1>14 DEF PowerOn, PowerOnFails, Rank
<1> QED
  BY <1>1, <1>2, <1>3, <1>4, <1>5, <1>6, <1>7, <1>8, <1>9, <1>10, <1>11, <1>12, <1>13,
     <1>14 DEF Program

\* No step of FlashAndBoot is in vain: whatever fails, is lost, revived and
\* resumed, each brings the call closer to its return.
THEOREM BringsCloser == Spec => NoStepInVain
<1>1. TypeOK /\ [Next]_vars => [Program => Closer]_vars
  BY ProgramCloser
<1> QED
  BY <1>1, TypeCorrect, PTL DEF Spec, NoStepInVain
=============================================================================
