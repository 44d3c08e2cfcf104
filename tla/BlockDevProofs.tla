--------------------------- MODULE BlockDevProofs ---------------------------
(***************************************************************************)
(* Proofs about BlockDev, for every bench, platform and set of names that  *)
(* BlockDevAssumption admits.                                              *)
(***************************************************************************)
EXTENDS BlockDev, TLAPS, SequenceTheorems

---------------------------------------------------------------------------
(* Names and places.                                                       *)

LEMMA DigitsApart == "p" \notin Digits /\ "" \notin Digits
BY DEF Digits

LEMMA OneMore ==
  ASSUME NEW S, NEW s \in Seq(S), NEW a \in S
  PROVE  /\ s \o <<a>> \in Seq(S)
         /\ Len(s \o <<a>>) = Len(s) + 1
         /\ \A i \in 1..Len(s) : (s \o <<a>>)[i] = s[i]
         /\ (s \o <<a>>)[Len(s) + 1] = a
OBVIOUS

LEMMA TwoMore ==
  ASSUME NEW S, NEW s \in Seq(S), NEW a \in S, NEW b \in S
  PROVE  /\ Len(s \o <<a, b>>) = Len(s) + 2
         /\ \A i \in 1..Len(s) : (s \o <<a, b>>)[i] = s[i]
         /\ (s \o <<a, b>>)[Len(s) + 1] = a
         /\ (s \o <<a, b>>)[Len(s) + 2] = b
OBVIOUS

\* What the kernel's name of a partition looks like, token by token.
Shaped(s, m) ==
  /\ Len(s) = Len(m) + (IF EndsInDigit(m) THEN 2 ELSE 1)
  /\ \A i \in 1..Len(m) : s[i] = m[i]
  /\ s[Len(s)] \in Digits
  /\ EndsInDigit(m) => s[Len(m) + 1] = "p"

LEMMA SuffixShape ==
  ASSUME NEW m \in Seq(Tokens), NEW k \in Digits, NEW s,
         s = IF EndsInDigit(m) THEN m \o <<"p", k>> ELSE m \o <<k>>
  PROVE  Shaped(s, m)
<1>1. k \in Tokens /\ "p" \in Tokens
  BY DEF Tokens
<1>2. CASE EndsInDigit(m)
  <2>1. s = m \o <<"p", k>>
    BY <1>2
  <2>2. /\ Len(s) = Len(m) + 2
        /\ \A i \in 1..Len(m) : s[i] = m[i]
        /\ s[Len(m) + 1] = "p"
        /\ s[Len(m) + 2] = k
    BY <1>1, <2>1, TwoMore
  <2> QED BY <1>2, <2>2 DEF Shaped
<1>3. CASE ~EndsInDigit(m)
  <2>1. s = m \o <<k>>
    BY <1>3
  <2>2. /\ Len(s) = Len(m) + 1
        /\ \A i \in 1..Len(m) : s[i] = m[i]
        /\ s[Len(m) + 1] = k
    BY <1>1, <2>1, OneMore
  <2> QED BY <1>3, <2>2 DEF Shaped
<1> QED BY <1>2, <1>3

LEMMA NodeNameShape ==
  ASSUME NEW v \in Volumes, v.part # ""
  PROVE  Shaped(NodeName(v), v.disk)
<1>1. v.disk \in Seq(Tokens) /\ v.part \in Digits
  BY BlockDevAssumption DEF Volumes
<1>2. NodeName(v) = IF EndsInDigit(v.disk) THEN v.disk \o <<"p", v.part>> ELSE v.disk \o <<v.part>>
  BY DEF NodeName
<1> QED BY <1>1, <1>2, SuffixShape

LEMMA WholeDiskName == ASSUME NEW v \in Volumes, v.part = "" PROVE NodeName(v) = v.disk
BY DEF NodeName

\* isPartitionOf accepts every volume of the disk ...
LEMMA ShapedIsPartition ==
  ASSUME NEW m \in Seq(Tokens), NEW s, Shaped(s, m)
  PROVE  IsPartitionOf(m, s)
<1>1. "p" \in Tokens /\ Len(m) \in Nat
  BY DEF Tokens
<1>2. HasPrefix(s, m)
  BY <1>1 DEF HasPrefix, Shaped
<1>3. CASE EndsInDigit(m)
  <2>1. PICK q : q = m \o <<"p">>
    OBVIOUS
  <2>2. Len(q) = Len(m) + 1 /\ (\A i \in 1..Len(m) : q[i] = m[i]) /\ q[Len(m) + 1] = "p"
    BY <1>1, <2>1, OneMore
  <2>3. Len(s) = Len(m) + 2 /\ (\A i \in 1..Len(m) : s[i] = m[i]) /\ s[Len(m) + 1] = "p"
    BY <1>3 DEF Shaped
  <2>4. HasPrefix(s, q)
    BY <1>1, <2>2, <2>3 DEF HasPrefix
  <2>5. Numbered(s, Len(m) + 2)
    BY <1>1, <2>3 DEF Numbered, Shaped
  <2> QED BY <1>2, <1>3, <2>1, <2>4, <2>5 DEF IsPartitionOf
<1>4. CASE ~EndsInDigit(m)
  <2>1. Numbered(s, Len(m) + 1)
    BY <1>1, <1>4 DEF Numbered, Shaped
  <2> QED BY <1>2, <1>4, <2>1 DEF IsPartitionOf
<1> QED BY <1>3, <1>4

LEMMA OwnPartitions ==
  ASSUME NEW v \in Volumes
  PROVE  IsPartitionOf(v.disk, NodeName(v))
<1>1. v.disk \in Seq(Tokens)
  BY BlockDevAssumption DEF Volumes
<1>2. CASE v.part = ""
  BY <1>2, WholeDiskName DEF IsPartitionOf
<1>3. CASE v.part # ""
  BY <1>1, <1>3, NodeNameShape, ShapedIsPartition
<1> QED BY <1>2, <1>3

\* What isPartitionOf requires of a candidate that is not the disk itself.
LEMMA PartitionShape ==
  ASSUME NEW n \in Seq(Tokens), NEW s, s # n, IsPartitionOf(n, s)
  PROVE  /\ HasPrefix(s, n)
         /\ Len(n) < Len(s)
         /\ IF EndsInDigit(n) THEN s[Len(n) + 1] = "p" ELSE s[Len(n) + 1] \in Digits
<1>1. Len(n) \in Nat /\ "p" \in Tokens
  BY DEF Tokens
<1>2. HasPrefix(s, n)
  BY DEF IsPartitionOf
<1>3. CASE EndsInDigit(n)
  <2>1. PICK q : q = n \o <<"p">>
    OBVIOUS
  <2>2. Len(q) = Len(n) + 1 /\ q[Len(n) + 1] = "p"
    BY <1>1, <2>1, OneMore
  <2>3. HasPrefix(s, q) /\ Numbered(s, Len(n) + 2)
    BY <1>3, <2>1 DEF IsPartitionOf
  <2>4. Len(q) \in 1..Len(q)
    BY <1>1, <2>2
  <2>5. s[Len(n) + 1] = "p"
    BY <2>2, <2>3, <2>4 DEF HasPrefix
  <2>6. Len(n) + 2 <= Len(s)
    BY <2>3 DEF Numbered
  <2>7. Len(n) < Len(s)
    BY <1>1, <2>2, <2>3, <2>6 DEF HasPrefix
  <2> QED BY <1>2, <1>3, <2>5, <2>7
<1>4. CASE ~EndsInDigit(n)
  BY <1>1, <1>2, <1>4 DEF IsPartitionOf, Numbered, HasPrefix
<1> QED BY <1>3, <1>4

\* ... and no other disk's.
LEMMA NoOthersPartition ==
  ASSUME NEW n \in Names, NEW m \in Names, NEW s, Shaped(s, m) \/ s = m,
         IsPartitionOf(n, s), n # m
  PROVE  FALSE
<1>0. m \in Seq(Tokens) /\ n \in Seq(Tokens)
  BY BlockDevAssumption
<1>1. /\ m \in Seq(Tokens) /\ n \in Seq(Tokens)
      /\ Len(m) \in Nat /\ Len(n) \in Nat
  BY <1>0
<1>2. /\ HasPrefix(m, n) => IF EndsInDigit(n) THEN m[Len(n) + 1] # "p" ELSE m[Len(n) + 1] \notin Digits
      /\ HasPrefix(n, m) => IF EndsInDigit(m) THEN n[Len(m) + 1] # "p" ELSE n[Len(m) + 1] \notin Digits
  BY BlockDevAssumption DEF NamesApart
<1>3. CASE s = m
  BY <1>1, <1>2, <1>3, PartitionShape
<1>4. CASE Shaped(s, m)
  <2>1. s # n => /\ HasPrefix(s, n)
                 /\ Len(n) < Len(s)
                 /\ IF EndsInDigit(n) THEN s[Len(n) + 1] = "p" ELSE s[Len(n) + 1] \in Digits
    BY <1>1, PartitionShape
  <2>2. CASE s = n \/ Len(m) < Len(n)
    <3>1. Len(n) <= Len(s) /\ \A i \in 1..Len(n) : n[i] = s[i]
      BY <1>1, <2>1 DEF HasPrefix
    <3>2. Len(m) < Len(n)
      BY <1>1, <1>4, <2>2 DEF Shaped
    <3>3. HasPrefix(n, m)
      BY <1>1, <1>4, <3>1, <3>2 DEF HasPrefix, Shaped
    <3>4. n[Len(m) + 1] = s[Len(m) + 1]
      BY <1>1, <3>1, <3>2
    <3>5. IF EndsInDigit(m) THEN s[Len(m) + 1] = "p" ELSE s[Len(m) + 1] \in Digits
      BY <1>1, <1>4 DEF Shaped
    <3> QED BY <1>2, <3>3, <3>4, <3>5
  <2>3. CASE s # n /\ Len(n) <= Len(m)
    <3>1. HasPrefix(m, n)
      BY <1>1, <1>4, <2>1, <2>3 DEF HasPrefix, Shaped
    <3>2. Len(n) # Len(m)
      <4> SUFFICES ASSUME Len(n) = Len(m) PROVE n = m
        OBVIOUS
      <4> QED BY <1>1, <3>1, SeqEqual DEF HasPrefix
    <3>3. m[Len(n) + 1] = s[Len(n) + 1]
      BY <1>1, <1>4, <2>3, <3>2 DEF Shaped
    <3> QED BY <1>2, <2>1, <2>3, <3>1, <3>3
  <2> QED BY <1>1, <2>2, <2>3
<1> QED BY <1>3, <1>4

LEMMA OnlyOwnPartitions ==
  ASSUME NEW v \in Volumes, NEW n \in Names, IsPartitionOf(n, NodeName(v))
  PROVE  v.disk = n
<1>1. v.disk \in Names
  BY DEF Volumes
<1>2. Shaped(NodeName(v), v.disk) \/ NodeName(v) = v.disk
  BY NodeNameShape, WholeDiskName
<1> QED BY <1>1, <1>2, NoOthersPartition

\* Two ports have two location IDs.
LEMMA SmallPorts == \A x \in 1..15 : x % 16 = x
OBVIOUS

LEMMA SmallBuses == \A x \in 0..255 : x % 256 = x
OBVIOUS

Nibble(s, i) == IF i <= Len(s) THEN s[i] % 16 ELSE 0

LEMMA NibbleShows ==
  ASSUME NEW s \in Seq(1..15), NEW i \in 1..6
  PROVE  IF i <= Len(s) THEN i \in 1..Len(s) /\ s[i] \in 1..15 /\ Nibble(s, i) = s[i]
                        ELSE Nibble(s, i) = 0
<1>1. Len(s) \in Nat
  OBVIOUS
<1>2. CASE i <= Len(s)
  <2>1. i \in 1..Len(s)
    BY <1>1, <1>2
  <2>2. s[i] \in 1..15
    BY <2>1
  <2> QED BY <1>2, <2>1, <2>2, SmallPorts DEF Nibble
<1> QED BY <1>2 DEF Nibble

LEMMA NibblesApart ==
  ASSUME NEW s \in Seq(1..15), NEW t \in Seq(1..15), Len(s) <= 6, Len(t) <= 6,
         \A i \in 1..6 : Nibble(s, i) = Nibble(t, i)
  PROVE  s = t
<1>1. Len(s) \in 0..6 /\ Len(t) \in 0..6
  <2>1. Len(s) \in Nat /\ Len(t) \in Nat
    OBVIOUS
  <2>2. \A k \in Nat : k <= 6 => k \in 0..6
    OBVIOUS
  <2> QED BY <2>1, <2>2
<1>2. \A i \in 1..6 : i <= Len(s) <=> i <= Len(t)
  <2> SUFFICES ASSUME NEW i \in 1..6 PROVE i <= Len(s) <=> i <= Len(t)
    OBVIOUS
  <2>1. Nibble(s, i) = Nibble(t, i)
    OBVIOUS
  <2>2. i <= Len(s) => Nibble(s, i) \in 1..15
    BY NibbleShows
  <2>3. i <= Len(t) => Nibble(t, i) \in 1..15
    BY NibbleShows
  <2>4. (i > Len(s) => Nibble(s, i) = 0) /\ (i > Len(t) => Nibble(t, i) = 0)
    BY <1>1, NibbleShows
  <2>5. i <= Len(s) => i <= Len(t)
    BY <1>1, <2>1, <2>2, <2>4
  <2>6. i <= Len(t) => i <= Len(s)
    BY <1>1, <2>1, <2>3, <2>4
  <2> QED BY <2>5, <2>6
<1>3. Len(s) = Len(t)
  <2>1. \A k, l \in 0..6 : (\A i \in 1..6 : i <= k <=> i <= l) => k = l
    OBVIOUS
  <2> QED BY <1>1, <1>2, <2>1
<1>4. \A i \in 1..Len(s) : s[i] = t[i]
  <2> SUFFICES ASSUME NEW i \in 1..Len(s) PROVE s[i] = t[i]
    OBVIOUS
  <2>1. i \in 1..6 /\ i <= Len(s) /\ i <= Len(t)
    BY <1>1, <1>3
  <2> QED BY <2>1, NibbleShows
<1> QED BY <1>3, <1>4, SeqEqual

LEMMA LocationsApart ==
  ASSUME NEW p \in Places, NEW q \in Places, PackLocationID(p) = PackLocationID(q)
  PROVE  p = q
<1>1. /\ p \in [bus : 0..255, path : Seq(1..15)] /\ Len(p.path) <= 6
      /\ q \in [bus : 0..255, path : Seq(1..15)] /\ Len(q.path) <= 6
  BY BlockDevAssumption
<1>2. p.bus = q.bus
  <2>1. p.bus % 256 = q.bus % 256
    BY DEF PackLocationID
  <2>3. p.bus \in 0..255 /\ q.bus \in 0..255
    BY <1>1
  <2> QED BY <2>1, <2>3, SmallBuses
<1>3. \A i \in 1..6 : Nibble(p.path, i) = Nibble(q.path, i)
  <2>1. PackLocationID(p).ports = PackLocationID(q).ports
    OBVIOUS
  <2> SUFFICES ASSUME NEW i \in 1..6 PROVE Nibble(p.path, i) = Nibble(q.path, i)
    OBVIOUS
  <2>2. /\ PackLocationID(p).ports[i] = Nibble(p.path, i)
        /\ PackLocationID(q).ports[i] = Nibble(q.path, i)
    BY DEF PackLocationID, Nibble
  <2> QED BY <2>1, <2>2
<1>4. p.path \in Seq(1..15) /\ q.path \in Seq(1..15)
  BY <1>1
<1>5. p.path = q.path
  BY <1>1, <1>3, <1>4, NibblesApart
<1> QED BY <1>1, <1>2, <1>5

---------------------------------------------------------------------------
(* Types, and what each step knows of the lookup.                          *)

Holding == {"size", "unmount", "umounting", "open", "write", "printed"}

StepInv ==
  /\ pc \in Holding => lookup = "found" /\ path \in Names
  /\ pc \in {"find", "walk"} => lookup = "none"
  /\ pc \in {"walk", "umounting"} => os = "linux"
  /\ pc = "revive" => revives < WriteRetries

BaseInv == TypeOK /\ StepInv

LEMMA Constants ==
  /\ Platforms \subseteq {"darwin", "linux", "windows"}
  /\ Nobody \notin Devices /\ NoPath \notin Names /\ "" \in Parts
BY BlockDevAssumption

LEMMA Bounds == WriteRetries \in Nat /\ MaxEvents \in Nat
BY BlockDevAssumption

LEMMA BaseInit == Init => BaseInv
<1> SUFFICES ASSUME Init PROVE BaseInv
  OBVIOUS
<1>1. TypeOK
  <2>1. events \in 0..MaxEvents /\ revives \in 0..WriteRetries
    BY Bounds DEF Init
  <2>2. pc \in Steps /\ lookup \in Answers
    BY DEF Init, Steps, Answers
  <2> QED BY <2>1, <2>2 DEF Init, TypeOK
<1>2. StepInv
  BY DEF Init, StepInv, Holding
<1> QED BY <1>1, <1>2 DEF BaseInv

LEMMA MountsSubset ==
  ASSUME NEW S, mounts \subseteq Volumes
  PROVE  MountsWithout(S) \subseteq Volumes
BY DEF MountsWithout

LEMMA BaseBench == BaseInv /\ Bench => BaseInv'
<1> SUFFICES ASSUME TypeOK, StepInv, Bench PROVE TypeOK' /\ StepInv'
  BY DEF BaseInv
<1> USE DEF Event, Touches, fixed, found, umount, history
<1>1. /\ events < MaxEvents /\ events' = events + 1
      /\ UNCHANGED <<os, ref, job, pc, lookup, path, todo, errs, opened, revives>>
  BY DEF Bench, PlugIn, Unplug, DiskAppears, DiskGoes, Mount, UserUnmounts
<1>2. events' \in 0..MaxEvents
  <2>1. events \in 0..MaxEvents
    BY DEF TypeOK
  <2> QED BY <1>1, <2>1, Bounds
<1>3. plugged' \in [Places -> Devices \union {Nobody}]
  BY DEF Bench, PlugIn, Unplug, DiskAppears, DiskGoes, Mount, UserUnmounts, TypeOK
<1>4. bears' \in [Names -> Devices \union {Nobody}]
  BY DEF Bench, PlugIn, Unplug, DiskAppears, DiskGoes, Mount, UserUnmounts, TypeOK
<1>5. mounts' \subseteq Volumes
  <2>1. mounts \subseteq Volumes
    BY DEF TypeOK
  <2> QED BY <2>1 DEF Bench, PlugIn, Unplug, DiskAppears, DiskGoes, Mount, UserUnmounts, MountsWithout
<1>6. steady' \in BOOLEAN /\ late' \in BOOLEAN /\ fresh' \subseteq Points
  <2>1. \A v \in Volumes : v.at \in Points
    BY DEF Volumes
  <2> QED BY <2>1 DEF Bench, PlugIn, Unplug, DiskAppears, DiskGoes, Mount, UserUnmounts, TypeOK
<1> QED BY <1>1, <1>2, <1>3, <1>4, <1>5, <1>6 DEF TypeOK, StepInv

LEMMA AnswerTyped ==
  ASSUME BaseInv, NEW S \in SUBSET Names, Answer(S), pc \in {"find", "walk"}
  PROVE  /\ pc' \in Steps \union Ends
         /\ lookup' \in Answers
         /\ path' \in Names \union {NoPath}
         /\ late' \in BOOLEAN /\ fresh' \subseteq Points
         /\ pc' \in Holding => lookup' = "found" /\ path' \in Names
         /\ pc' \notin {"find", "walk", "umounting", "revive"}
<1>1. /\ job \in Jobs /\ path \in Names \union {NoPath}
      /\ revives \in Nat
  <2>1. revives \in 0..WriteRetries
    BY DEF BaseInv, TypeOK
  <2> QED BY <2>1, Bounds DEF BaseInv, TypeOK
<1>2. AfterFound \in {"size", "unmount", "printed"}
  BY <1>1 DEF AfterFound, Jobs, LettingGo
<1>3. AfterNotFound \in {"again", "away", "failed"} /\ AfterFindError \in {"away", "failed"}
  BY <1>1 DEF AfterNotFound, AfterFindError, Jobs, LettingGo
<1> QED
  BY <1>1, <1>2, <1>3 DEF Answer, TakesPath, Steps, Ends, Answers, Holding

LEMMA WholeDisksAreNames == WholeDisks \subseteq Names
<1> SUFFICES ASSUME NEW n \in WholeDisks PROVE n \in Names
  OBVIOUS
<1>1. PICK e \in Matching : n \in WholeDisksUnder(e)
  BY DEF WholeDisks
<1>2. PICK v \in e.media : v.disk = n
  BY <1>1 DEF WholeDisksUnder
<1>3. PICK p \in Occupied : e = Entry(p, {}) \/ e = Entry(p, MediaOf(plugged[p]))
  BY DEF Matching, Registry
<1>4. v \in MediaOf(plugged[p])
  BY <1>3 DEF Entry
<1> QED BY <1>4, <1>2 DEF MediaOf, DisksOf

LEMMA BaseFind == BaseInv /\ Find => BaseInv'
<1> SUFFICES ASSUME BaseInv, Find PROVE BaseInv'
  OBVIOUS
<1> USE DEF fixed, bench, found, umount, history
<1>1. CASE FindDarwin
  <2>1. WholeDisks \in SUBSET Names
    BY WholeDisksAreNames
  <2>2. Answer(WholeDisks) /\ pc = "find"
    BY <1>1 DEF FindDarwin
  <2> HIDE DEF fixed, bench, found, umount, history
  <2> QED BY <1>1, <2>1, <2>2, AnswerTyped
          DEF FindDarwin, BaseInv, TypeOK, StepInv, fixed, bench, umount
<1>2. CASE FindWindows
  <2>1. DrivesOfKind \in SUBSET Names
    BY DEF DrivesOfKind
  <2> QED BY <1>2, <2>1, AnswerTyped DEF FindWindows, BaseInv, TypeOK, StepInv
<1>3. CASE ReadIds
  BY <1>3 DEF ReadIds, BaseInv, TypeOK, StepInv, Steps, Ends, Answers, Holding, AfterNotFound, Jobs,
              LettingGo
<1>4. CASE WalkBlocks
  <2>1. DisksOf(plugged[ref.place]) \in SUBSET Names
    BY DEF DisksOf
  <2> QED BY <1>4, <2>1, AnswerTyped DEF WalkBlocks, BaseInv, TypeOK, StepInv
<1>5. CASE FindBreaks
  BY <1>5 DEF FindBreaks, BaseInv, TypeOK, StepInv, Steps, Ends, Answers, Holding, AfterFindError, Jobs,
              LettingGo
<1> QED BY <1>1, <1>2, <1>3, <1>4, <1>5 DEF Find

LEMMA BaseUnmount == BaseInv /\ Unmount => BaseInv'
<1> SUFFICES ASSUME BaseInv, Unmount PROVE BaseInv'
  OBVIOUS
<1> USE DEF BaseInv, TypeOK, StepInv, Steps, Ends, Answers, Holding, Go, AfterUnmount,
            fixed, bench, found, umount, history
<1>1. CASE UnmountDarwin
  BY <1>1 DEF UnmountDarwin
<1>2. CASE UnmountDarwinFails
  <2>1. mounts' \subseteq Volumes
    BY <1>2 DEF UnmountDarwinFails
  <2> QED BY <1>2, <2>1 DEF UnmountDarwinFails
<1>3. CASE UnmountWindows
  BY <1>3 DEF UnmountWindows
<1>4. CASE ReadMounts
  <2>1. todo' \subseteq Points
    BY <1>4 DEF ReadMounts, PointsOf, Volumes
  <2> QED BY <1>4, <2>1 DEF ReadMounts
<1>5. CASE UmountsDone
  BY <1>5 DEF UmountsDone
<1>6. ASSUME NEW p \in todo, Umount(p) PROVE BaseInv'
  BY <1>6 DEF Umount
<1> QED BY <1>1, <1>2, <1>3, <1>4, <1>5, <1>6 DEF Unmount

LEMMA BaseRest ==
  BaseInv /\ (PollAgain \/ Fails \/ Size \/ OpenRawDevice \/ Written \/ WriteLost \/ Revive) => BaseInv'
<1> SUFFICES ASSUME BaseInv,
                    PollAgain \/ Fails \/ Size \/ OpenRawDevice \/ Written \/ WriteLost \/ Revive
             PROVE  BaseInv'
  OBVIOUS
<1> USE DEF BaseInv, TypeOK, StepInv, Steps, Ends, Answers, Holding, Go,
            fixed, bench, found, umount, history
<1>1. CASE PollAgain
  BY <1>1 DEF PollAgain
<1>2. CASE Fails
  BY <1>2 DEF Fails
<1>3. CASE Size
  BY <1>3 DEF Size
<1>4. CASE OpenRawDevice
  BY <1>4 DEF OpenRawDevice
<1>5. CASE Written
  BY <1>5 DEF Written
<1>6. CASE WriteLost
  BY <1>6 DEF WriteLost
<1>7. CASE Revive
  <2>1. mounts' \subseteq Volumes
    BY <1>7, MountsSubset DEF Revive
  <2>2. revives' \in 0..WriteRetries
    <3>1. revives < WriteRetries
      BY <1>7 DEF Revive
    <3>2. revives \in 0..WriteRetries /\ revives' = revives + 1
      BY <1>7 DEF Revive
    <3> HIDE DEF BaseInv, TypeOK, StepInv
    <3> QED BY <3>1, <3>2, Bounds
  <2> QED BY <1>7, <2>1, <2>2 DEF Revive
<1> QED BY <1>1, <1>2, <1>3, <1>4, <1>5, <1>6, <1>7

LEMMA BaseStutter == BaseInv /\ UNCHANGED vars => BaseInv'
BY DEF BaseInv, TypeOK, StepInv, vars, fixed, bench, found, umount, history

LEMMA BaseNext == BaseInv /\ [Next]_vars => BaseInv'
BY BaseBench, BaseFind, BaseUnmount, BaseRest, BaseStutter DEF Next, Job

\* Every variable keeps its type.
THEOREM TypeCorrect == Spec => []TypeOK
<1>1. BaseInv => TypeOK
  BY DEF BaseInv
<1> QED BY BaseInit, BaseNext, <1>1, PTL DEF Spec

---------------------------------------------------------------------------
(* What Find answers.                                                      *)

\* Merging every matching entry of the registry gives the reader's disks.
LEMMA DarwinFindsOwn == TypeOK => WholeDisks = OwnDisks
<1> SUFFICES ASSUME TypeOK PROVE WholeDisks = OwnDisks
  OBVIOUS
<1>1. ref.place \in Places /\ plugged \in [Places -> Devices \union {Nobody}]
  BY DEF TypeOK
<1>2. ASSUME NEW n \in WholeDisks PROVE n \in OwnDisks
  <2>1. PICK e \in Matching : n \in WholeDisksUnder(e)
    BY <1>2 DEF WholeDisks
  <2>2. PICK v \in e.media : v.disk = n
    BY <2>1 DEF WholeDisksUnder
  <2>3. PICK p \in Occupied : e = Entry(p, {}) \/ e = Entry(p, MediaOf(plugged[p]))
    BY <2>1 DEF Matching, Registry
  <2>4. v \in MediaOf(plugged[p])
    BY <2>2, <2>3 DEF Entry
  <2>5. PackLocationID(p) = PackLocationID(ref.place) /\ KindOf[plugged[p]] = ref.kind
    BY <2>1, <2>3 DEF Matching, Entry
  <2>6. p \in Places /\ plugged[p] # Nobody
    BY DEF Occupied
  <2>7. p = ref.place
    BY <1>1, <2>5, <2>6, LocationsApart
  <2>8. n \in Names /\ bears[n] = plugged[p]
    BY <2>2, <2>4 DEF MediaOf, DisksOf
  <2> QED BY <2>5, <2>6, <2>7, <2>8 DEF OwnDisks
<1>3. ASSUME NEW n \in OwnDisks PROVE n \in WholeDisks
  <2>1. /\ n \in Names /\ bears[n] = plugged[ref.place]
        /\ plugged[ref.place] # Nobody /\ KindOf[plugged[ref.place]] = ref.kind
    BY <1>3 DEF OwnDisks
  <2> DEFINE e == Entry(ref.place, MediaOf(plugged[ref.place]))
             v == [disk |-> n, part |-> ""]
  <2>2. e \in Registry
    BY <1>1, <2>1 DEF Registry, Occupied
  <2>3. e \in Matching
    BY <2>1, <2>2 DEF Matching, Entry
  <2>4. v \in MediaOf(plugged[ref.place])
    BY <2>1, Constants DEF MediaOf, DisksOf
  <2>5. v \in e.media /\ v.part = "" /\ v.disk = n
    BY <2>4 DEF Entry
  <2>6. n \in WholeDisksUnder(e)
    BY <2>5 DEF WholeDisksUnder
  <2> QED BY <2>3, <2>6 DEF WholeDisks
<1> QED BY <1>2, <1>3

\* A Linux lookup that has read the ids knows whose disks it walks.
WalkInv ==
  pc = "walk" /\ steady =>
    plugged[ref.place] # Nobody /\ KindOf[plugged[ref.place]] = ref.kind

FindInv == BaseInv /\ FindsExactly /\ WalkInv

LEMMA FindInit == Init => FindInv
<1> SUFFICES ASSUME Init PROVE FindInv
  OBVIOUS
<1>1. FindsExactly /\ WalkInv
  BY DEF Init, FindsExactly, WalkInv
<1> QED BY <1>1, BaseInit DEF FindInv

\* While the reader and its disks are steady the bench cannot change what is its.
LEMMA OwnKept ==
  ASSUME TypeOK, Bench, steady'
  PROVE  /\ OwnDisks' = OwnDisks
         /\ plugged'[ref.place] = plugged[ref.place]
         /\ steady
<1> USE DEF Event, Touches, fixed
<1>1. /\ ref.place \in Places /\ ref' = ref
      /\ plugged \in [Places -> Devices \union {Nobody}]
      /\ bears \in [Names -> Devices \union {Nobody}]
  BY DEF TypeOK, Bench, PlugIn, Unplug, DiskAppears, DiskGoes, Mount, UserUnmounts
<1>2. steady /\ plugged'[ref.place] = plugged[ref.place]
  BY <1>1 DEF Bench, PlugIn, Unplug, DiskAppears, DiskGoes, Mount, UserUnmounts, history
<1>3. \A n \in Names : bears'[n] # bears[n] =>
        /\ bears[n] # plugged[ref.place] \/ plugged[ref.place] = Nobody
        /\ bears'[n] # plugged[ref.place] \/ plugged[ref.place] = Nobody
  <2> SUFFICES ASSUME NEW n \in Names, bears'[n] # bears[n], plugged[ref.place] # Nobody
               PROVE  bears[n] # plugged[ref.place] /\ bears'[n] # plugged[ref.place]
    OBVIOUS
  <2>1. ASSUME NEW p \in Places, Unplug(p)
        PROVE  bears[n] # plugged[ref.place] /\ bears'[n] # plugged[ref.place]
    BY <1>1, <1>2, <2>1 DEF Unplug
  <2>2. ASSUME NEW d \in Devices, NEW m \in Names, DiskAppears(d, m)
        PROVE  bears[n] # plugged[ref.place] /\ bears'[n] # plugged[ref.place]
    BY <1>1, <1>2, <2>2 DEF DiskAppears
  <2>3. ASSUME NEW m \in Names, DiskGoes(m)
        PROVE  bears[n] # plugged[ref.place] /\ bears'[n] # plugged[ref.place]
    BY <1>1, <1>2, <2>3 DEF DiskGoes
  <2> QED BY <2>1, <2>2, <2>3 DEF Bench, PlugIn, Mount, UserUnmounts
<1>4. ASSUME NEW n \in Names PROVE n \in OwnDisks <=> n \in OwnDisks'
  BY <1>1, <1>2, <1>3 DEF OwnDisks
<1>5. OwnDisks' \subseteq Names /\ OwnDisks \subseteq Names
  BY DEF OwnDisks
<1> QED BY <1>2, <1>4, <1>5

LEMMA BenchKeepsCall ==
  Bench => UNCHANGED <<os, ref, job, pc, lookup, path, todo, errs, opened, revives>>
BY DEF Bench, PlugIn, Unplug, DiskAppears, DiskGoes, Mount, UserUnmounts,
       fixed, found, umount, history

\* An answer about the reader's own disks is exact.
LEMMA AnswerExact ==
  ASSUME Answer(OwnDisks), OwnDisks' = OwnDisks
  PROVE  FindsExactly'
<1>1. OwnDisks \subseteq Names
  BY DEF OwnDisks
<1> QED BY <1>1 DEF Answer, FindsExactly, TakesPath

LEMMA OwnSame == UNCHANGED <<plugged, bears, ref>> => OwnDisks' = OwnDisks
BY DEF OwnDisks

LEMMA FindNext == FindInv /\ [Next]_vars => FindInv'
<1> SUFFICES ASSUME FindInv, [Next]_vars PROVE FindsExactly' /\ WalkInv'
  BY BaseNext DEF FindInv
<1>0. TypeOK /\ StepInv /\ FindsExactly /\ WalkInv
  BY DEF FindInv, BaseInv
<1> USE DEF fixed, bench, found, umount, history
<1>1. CASE Bench
  <2> SUFFICES ASSUME steady' PROVE FindsExactly' /\ WalkInv'
    BY DEF FindsExactly, WalkInv
  <2>1. OwnDisks' = OwnDisks /\ plugged'[ref.place] = plugged[ref.place] /\ steady
    BY <1>0, <1>1, OwnKept
  <2>2. UNCHANGED <<os, ref, pc, lookup, path>>
    BY <1>1, BenchKeepsCall
  <2> QED BY <1>0, <2>1, <2>2 DEF FindsExactly, WalkInv
<1>2. CASE FindDarwin
  <2>1. Answer(OwnDisks) /\ OwnDisks' = OwnDisks /\ pc = "find"
    BY <1>0, <1>2, DarwinFindsOwn, OwnSame DEF FindDarwin
  <2>2. pc' # "walk"
    BY <1>0, <2>1, AnswerTyped DEF FindInv, OwnDisks
  <2> QED BY <2>1, <2>2, AnswerExact DEF WalkInv
<1>3. CASE FindWindows
  <2>1. os' = "windows" /\ Answer(DrivesOfKind) /\ pc = "find"
    BY <1>3 DEF FindWindows
  <2>2. pc' # "walk"
    BY <2>1, AnswerTyped DEF FindInv, DrivesOfKind
  <2> QED BY <2>1, <2>2 DEF FindsExactly, WalkInv
<1>4. CASE ReadIds
  <2>1. OwnDisks' = OwnDisks /\ UNCHANGED <<plugged, ref>>
    BY <1>4, OwnSame DEF ReadIds
  <2>2. CASE plugged[ref.place] # Nobody /\ KindOf[plugged[ref.place]] = ref.kind
    BY <1>4, <2>1, <2>2 DEF ReadIds, FindsExactly, WalkInv
  <2>3. CASE ~(plugged[ref.place] # Nobody /\ KindOf[plugged[ref.place]] = ref.kind)
    <3>1. OwnDisks = {}
      BY <2>3 DEF OwnDisks
    <3>2. lookup' = "notfound" /\ pc' # "walk"
      BY <1>0, <1>4, <2>3 DEF ReadIds, AfterNotFound, TypeOK, Jobs, LettingGo
    <3> QED BY <2>1, <3>1, <3>2 DEF FindsExactly, WalkInv
  <2> QED BY <2>2, <2>3
<1>5. CASE WalkBlocks
  <2>1. Answer(DisksOf(plugged[ref.place])) /\ UNCHANGED <<plugged, bears, ref, steady>> /\ pc = "walk"
    BY <1>5 DEF WalkBlocks
  <2>2. pc' # "walk"
    BY <2>1, AnswerTyped DEF FindInv, DisksOf
  <2>3. CASE steady
    <3>1. DisksOf(plugged[ref.place]) = OwnDisks
      BY <1>0, <2>1, <2>3 DEF WalkInv, DisksOf, OwnDisks
    <3> QED BY <2>1, <2>2, <3>1, AnswerExact, OwnSame DEF WalkInv
  <2>4. CASE ~steady
    BY <2>1, <2>2, <2>4 DEF FindsExactly, WalkInv
  <2> QED BY <2>3, <2>4
<1>6. CASE FindBreaks
  BY <1>6 DEF FindBreaks, FindsExactly, WalkInv, AfterFindError, LettingGo
<1>7. CASE Revive
  BY <1>7 DEF Revive, FindsExactly, WalkInv
<1>8. CASE PollAgain
  BY <1>8 DEF PollAgain, FindsExactly, WalkInv, Go
<1>9. CASE Fails \/ Size \/ Unmount \/ OpenRawDevice \/ Written \/ WriteLost \/ UNCHANGED vars
  <2>1. UNCHANGED <<os, ref, plugged, bears, lookup, path, steady>>
    BY <1>9 DEF Fails, Size, Unmount, UnmountDarwin, UnmountDarwinFails, UnmountWindows,
                ReadMounts, UmountsDone, Umount, OpenRawDevice, Written, WriteLost, vars
  <2>2. pc' = "walk" => pc = "walk"
    BY <1>9 DEF Fails, Size, Unmount, UnmountDarwin, UnmountDarwinFails, UnmountWindows,
                ReadMounts, UmountsDone, Umount, OpenRawDevice, Written, WriteLost, vars,
                Go, AfterUnmount
  <2>3. OwnDisks' = OwnDisks
    BY <2>1, OwnSame
  <2> QED BY <1>0, <2>1, <2>2, <2>3 DEF FindsExactly, WalkInv
<1> QED BY <1>1, <1>2, <1>3, <1>4, <1>5, <1>6, <1>7, <1>8, <1>9 DEF Next, Job, Find

\* On macOS and Linux the lookup answers exactly, for every bench.
THEOREM FindIsExact == Spec => []FindsExactly
<1>1. FindInv => FindsExactly
  BY DEF FindInv
<1> QED BY FindInit, FindNext, <1>1, PTL DEF Spec

---------------------------------------------------------------------------
(* What is opened.                                                         *)

LEMMA FindLeadsTo ==
  ASSUME TypeOK, Find
  PROVE  pc' \notin {"umounting", "open", "write"} /\ ~(pc' = "away" /\ lookup' = "found")
BY DEF Find, FindDarwin, FindWindows, ReadIds, WalkBlocks, FindBreaks, Answer,
       AfterFound, AfterNotFound, AfterFindError, TypeOK, Jobs, LettingGo

OpenInv == pc = "write" /\ steady /\ os # "windows" => opened = plugged[ref.place]

LEMMA OpenNext == FindInv /\ OpenInv /\ [Next]_vars => OpenInv'
<1> SUFFICES ASSUME FindInv, OpenInv, [Next]_vars, pc' = "write", steady', os' # "windows"
             PROVE  opened' = plugged'[ref'.place]
  BY DEF OpenInv
<1>0. TypeOK /\ StepInv /\ FindsExactly
  BY DEF FindInv, BaseInv
<1> USE DEF fixed, bench, found, umount, history
<1>1. CASE Bench
  <2>1. plugged'[ref.place] = plugged[ref.place] /\ steady
    BY <1>0, <1>1, OwnKept
  <2> QED BY <1>1, <2>1, BenchKeepsCall DEF OpenInv
<1>2. CASE OpenRawDevice
  <2>1. /\ opened' = bears[path] /\ pc = "open"
        /\ UNCHANGED <<os, ref, plugged, bears, path, lookup, steady>>
    BY <1>2 DEF OpenRawDevice, Go
  <2>2. path \in OwnDisks
    BY <1>0, <2>1 DEF StepInv, Holding, FindsExactly
  <2> QED BY <2>1, <2>2 DEF OwnDisks
<1>3. CASE Find
  BY <1>0, <1>3, FindLeadsTo
<1>4. CASE PollAgain \/ Fails \/ Size \/ Unmount \/ Written \/ WriteLost \/ Revive
  BY <1>4 DEF PollAgain, Fails, Size, Unmount, UnmountDarwin, UnmountDarwinFails,
       UnmountWindows, ReadMounts, UmountsDone, Umount, Written, WriteLost, Revive,
       Go, AfterUnmount, StepInv
<1>5. CASE UNCHANGED vars
  BY <1>5 DEF OpenInv, vars
<1> QED BY <1>1, <1>2, <1>3, <1>4, <1>5 DEF Next, Job

\* What is opened for a raw write, first or resumed, is the disk of the reader
\* that the lookup was for, unless that reader was touched in between.
THEOREM OwnDiskOpened == Spec => []OpensItsOwn
<1>1. Init => OpenInv
  BY DEF Init, OpenInv
<1>2. FindInv /\ OpenInv => OpensItsOwn
  BY DEF FindInv, BaseInv, StepInv, Holding, FindsExactly, OpenInv, OpensItsOwn
<1> QED BY FindInit, FindNext, OpenNext, <1>1, <1>2, PTL DEF Spec

---------------------------------------------------------------------------
(* What is unmounted.                                                      *)

OnePerPoint == \A v, w \in mounts : v.at = w.at => v = w

\* The mountpoints still to be unmounted are the disk's own, or were mounted
\* on anew ...
TodoOwn == pc = "umounting" => \A v \in mounts : v.at \in todo => v.disk = path \/ v.at \in fresh

\* ... and none of the disk's is missing from them.
TodoAll ==
  pc = "umounting" /\ ~late /\ ~errs => \A v \in mounts : v.disk = path => v.at \in todo

Unmounted ==
  /\ pc \in {"open", "write"} \/ (pc = "away" /\ lookup = "found")
  /\ os # "windows" /\ ~late
  => \A v \in mounts : v.disk # path

MountInv == OnePerPoint /\ TodoOwn /\ TodoAll /\ Unmounted

LEMMA MountInit == Init => MountInv
BY DEF Init, MountInv, OnePerPoint, TodoOwn, TodoAll, Unmounted

\* The bench takes volumes away, or mounts one where nothing was.
LEMMA BenchMounts ==
  ASSUME TypeOK, Bench
  PROVE  \/ mounts' \subseteq mounts /\ UNCHANGED <<late, fresh>>
         \/ \E v \in Volumes :
              /\ mounts' = mounts \union {v}
              /\ \A w \in mounts : w.at # v.at
              /\ late' = (late \/ (Unmounting /\ v.disk = path))
              /\ fresh' = IF Unmounting THEN fresh \union {v.at} ELSE fresh
<1>1. CASE \E v \in Volumes : Mount(v)
  BY <1>1 DEF Mount
<1>2. CASE ~\E v \in Volumes : Mount(v)
  BY <1>2 DEF Bench, PlugIn, Unplug, DiskAppears, DiskGoes, UserUnmounts, MountsWithout, history
<1> QED BY <1>1, <1>2

LEMMA MountBench == BaseInv /\ MountInv /\ Bench => MountInv'
<1> SUFFICES ASSUME BaseInv, MountInv, Bench PROVE MountInv'
  OBVIOUS
<1>0. UNCHANGED <<os, pc, lookup, path, todo, errs>> /\ TypeOK
  BY BenchKeepsCall DEF BaseInv
<1>1. CASE mounts' \subseteq mounts /\ UNCHANGED <<late, fresh>>
  BY <1>0, <1>1 DEF MountInv, OnePerPoint, TodoOwn, TodoAll, Unmounted
<1>2. ASSUME NEW v \in Volumes,
             mounts' = mounts \union {v},
             \A w \in mounts : w.at # v.at,
             late' = (late \/ (Unmounting /\ v.disk = path)),
             fresh' = IF Unmounting THEN fresh \union {v.at} ELSE fresh
      PROVE  MountInv'
  <2>1. OnePerPoint'
    BY <1>2 DEF MountInv, OnePerPoint
  <2>2. TodoOwn'
    BY <1>0, <1>2 DEF MountInv, TodoOwn, Unmounting
  <2>3. TodoAll'
    BY <1>0, <1>2 DEF MountInv, TodoAll, Unmounting
  <2>4. Unmounted'
    BY <1>0, <1>2 DEF MountInv, Unmounted, Unmounting
  <2> QED BY <2>1, <2>2, <2>3, <2>4 DEF MountInv
<1> QED BY <1>0, <1>1, <1>2, BenchMounts

LEMMA MountJob == BaseInv /\ MountInv /\ Job => MountInv'
<1> SUFFICES ASSUME BaseInv, MountInv, Job PROVE MountInv'
  OBVIOUS
<1>0. TypeOK /\ StepInv /\ mounts \subseteq Volumes
  BY DEF BaseInv, TypeOK
<1> USE DEF fixed, bench, found, umount, history, Go
<1>1. CASE Find
  <2>1. UNCHANGED mounts
    BY <1>1 DEF Find, FindDarwin, FindWindows, ReadIds, WalkBlocks, FindBreaks
  <2>2. pc' \notin {"umounting", "open", "write"} /\ ~(pc' = "away" /\ lookup' = "found")
    BY <1>0, <1>1, FindLeadsTo
  <2> QED BY <2>1, <2>2 DEF MountInv, OnePerPoint, TodoOwn, TodoAll, Unmounted
<1>2. CASE UnmountDarwin
  BY <1>2 DEF UnmountDarwin, MountInv, OnePerPoint, TodoOwn, TodoAll, Unmounted, AfterUnmount
<1>3. CASE UnmountDarwinFails
  <2>1. mounts' \subseteq mounts /\ pc' = "failed"
    BY <1>3 DEF UnmountDarwinFails
  <2> QED BY <2>1 DEF MountInv, OnePerPoint, TodoOwn, TodoAll, Unmounted
<1>4. CASE UnmountWindows
  BY <1>4 DEF UnmountWindows, MountInv, OnePerPoint, TodoOwn, TodoAll, Unmounted, AfterUnmount
<1>5. CASE ReadMounts
  <2>1. /\ pc = "unmount" /\ pc' = "umounting" /\ todo' = PointsOf(path)
        /\ UNCHANGED <<mounts, path>>
    BY <1>5 DEF ReadMounts
  <2>2. path \in Names
    BY <1>0, <2>1 DEF StepInv, Holding
  <2>3. ASSUME NEW v \in mounts, v.at \in todo' PROVE v.disk = path
    <3>1. PICK w \in mounts : w.at = v.at /\ IsPartitionOf(path, NodeName(w))
      BY <2>1, <2>3 DEF PointsOf
    <3>2. w.disk = path
      BY <1>0, <2>2, <3>1, OnlyOwnPartitions
    <3> QED BY <3>1, <3>2 DEF MountInv, OnePerPoint
  <2>4. ASSUME NEW v \in mounts, v.disk = path PROVE v.at \in todo'
    <3>1. IsPartitionOf(path, NodeName(v))
      BY <1>0, <2>4, OwnPartitions
    <3> QED BY <2>1, <3>1 DEF PointsOf
  <2> QED BY <2>1, <2>3, <2>4 DEF MountInv, OnePerPoint, TodoOwn, TodoAll, Unmounted
<1>6. ASSUME NEW p \in todo, Umount(p) PROVE MountInv'
  <2>1. /\ pc = "umounting" /\ todo' = todo \ {p}
        /\ UNCHANGED <<os, pc, path, lookup, late, fresh>>
    BY <1>6 DEF Umount
  <2>2. CASE mounts' = {v \in mounts : v.at # p} /\ UNCHANGED errs
    BY <2>1, <2>2 DEF MountInv, OnePerPoint, TodoOwn, TodoAll, Unmounted
  <2>3. CASE errs' = TRUE /\ UNCHANGED mounts
    BY <2>1, <2>3 DEF MountInv, OnePerPoint, TodoOwn, TodoAll, Unmounted
  <2> QED BY <1>6, <2>2, <2>3 DEF Umount
<1>7. CASE UmountsDone
  BY <1>7 DEF UmountsDone, MountInv, OnePerPoint, TodoOwn, TodoAll, Unmounted, AfterUnmount
<1>8. CASE Revive
  <2>1. mounts' \subseteq mounts /\ pc' = "find"
    BY <1>8 DEF Revive, MountsWithout
  <2> QED BY <2>1 DEF MountInv, OnePerPoint, TodoOwn, TodoAll, Unmounted
<1>9. CASE PollAgain \/ Fails \/ Size \/ OpenRawDevice \/ Written \/ WriteLost
  BY <1>9 DEF PollAgain, Fails, Size, OpenRawDevice, Written, WriteLost,
       MountInv, OnePerPoint, TodoOwn, TodoAll, Unmounted
<1> QED BY <1>1, <1>2, <1>3, <1>4, <1>5, <1>6, <1>7, <1>8, <1>9 DEF Job, Unmount

LEMMA MountNext == BaseInv /\ MountInv /\ [Next]_vars => MountInv'
<1>1. ASSUME MountInv, UNCHANGED vars PROVE MountInv'
  BY <1>1 DEF vars, fixed, bench, found, umount, history,
              MountInv, OnePerPoint, TodoOwn, TodoAll, Unmounted
<1> QED BY <1>1, MountBench, MountJob DEF Next

\* Nothing of the disk's is mounted when its raw write begins or is resumed, but
\* for what was mounted after the unmount.
THEOREM UnmountedIsWritten == Spec => []WritesUnmounted
<1>1. MountInv => WritesUnmounted
  BY DEF MountInv, Unmounted, WritesUnmounted, Mounted
<1> QED BY BaseInit, BaseNext, MountInit, MountNext, <1>1, PTL DEF Spec

\* What SetMode(ModeTarget) and Revive let go of they have unmounted.
THEOREM NothingYanked == Spec => []YanksNothing
<1>1. FindInv /\ MountInv => YanksNothing
  BY DEF FindInv, FindsExactly, MountInv, Unmounted, YanksNothing, Mounted
<1> QED BY FindInit, FindNext, BaseInit, BaseNext, MountInit, MountNext, <1>1, PTL DEF Spec, FindInv

\* No step of the program takes away another disk's volume.
THEOREM OthersStayMounted == Spec => UnmountsItsOwn
<1> DEFINE P == pc' # pc \/ todo' # todo =>
                  \A v \in mounts \ mounts' : v.disk = path \/ v.at \in fresh \/ pc = "revive"
<1>1. ASSUME MountInv, Next PROVE P
  <2> SUFFICES ASSUME pc' # pc \/ todo' # todo, NEW v \in mounts \ mounts', pc # "revive"
               PROVE  v.disk = path \/ v.at \in fresh
    OBVIOUS
  <2> USE DEF fixed, bench, found, umount, history, Go
  <2>1. CASE Bench
    BY <2>1, BenchKeepsCall
  <2>2. CASE UnmountDarwin \/ UnmountDarwinFails
    BY <2>2 DEF UnmountDarwin, UnmountDarwinFails
  <2>3. ASSUME NEW p \in todo, Umount(p) PROVE v.disk = path \/ v.at \in fresh
    <3>1. pc = "umounting" /\ mounts' = {w \in mounts : w.at # p}
      BY <2>3 DEF Umount
    <3> QED BY <1>1, <3>1 DEF MountInv, TodoOwn
  <2>4. CASE Find
    BY <2>4 DEF Find, FindDarwin, FindWindows, ReadIds, WalkBlocks, FindBreaks
  <2>5. CASE \/ PollAgain \/ Fails \/ Size \/ UnmountWindows \/ ReadMounts \/ UmountsDone
             \/ OpenRawDevice \/ Written \/ WriteLost \/ Revive
    BY <2>5 DEF PollAgain, Fails, Size, UnmountWindows, ReadMounts, UmountsDone,
         OpenRawDevice, Written, WriteLost, Revive
  <2> QED BY <1>1, <2>1, <2>2, <2>3, <2>4, <2>5 DEF Next, Job, Unmount
<1>2. MountInv /\ [Next]_vars => [P]_vars
  BY <1>1
<1> QED BY <1>2, BaseInit, BaseNext, MountInit, MountNext, PTL DEF Spec, UnmountsItsOwn
=============================================================================
