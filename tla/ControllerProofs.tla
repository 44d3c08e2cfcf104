--------------------------- MODULE ControllerProofs ---------------------------
(***************************************************************************)
(* What a switch of an SDWire3's card keeps to, on every set of platforms  *)
(* and however lookups and opens behave.                                   *)
(***************************************************************************)
EXTENDS Controller, TLAPS

\* Which calls reach which steps, on which platform, and what the steps before
\* have left for them.
PlaceInv ==
  /\ platform \in {"hub", "ftdi"} => usb \in {"absent", "configured"}
  /\ platform = "ftdi" => pc \in Answers \union {"unmount", "bits"} /\ call # "revive"
  /\ pc = "bits" => platform = "ftdi"
  /\ pc = "unmount" => call = "target"
  /\ pc \in {"read", "suspend", "suspending", "resume", "settle", "await"}
       => platform # "hub" /\ call # "revive" /\ ~handle
  /\ pc \in {"suspend", "suspending"} => call = "target"
  /\ pc \in {"resume", "settle"} => call = "host"
  /\ pc \in {"suspending", "settle"} => platform = "darwin" /\ ~toSuspend
  /\ pc = "off" => platform = "hub" /\ call = "target"
  /\ pc \in {"on", "wait"} => platform = "hub" /\ call = "host"
  /\ pc \in {"cycle", "dark", "reon", "rewait"}
       => call = "revive" \/ (platform = "hub" /\ call = "host")
  /\ pc \in {"off", "on", "wait", "cycle", "dark", "reon", "rewait"} => hasPort
  /\ pc = "dark" => ~powered
  /\ pc \in {"wait", "cycle"} /\ call = "host" => powered

\* What has a sound call succeed: while it works the reader stays on the bus, or
\* is on its way to where it should be.
CalmInv ==
  /\ sound => calm
  /\ calm => ~stranger
  /\ sound /\ call # "revive" /\ platform # "hub"
       /\ pc \in {"unmount", "close", "read", "suspend", "suspending", "resume", "settle",
                 "bits"}
       => usb # "absent"
  /\ sound /\ pc = "suspending" => usb = "unconfigured"
  /\ sound /\ pc = "await" /\ call = "target" => usb = "suspended" \/ Suspending
  /\ sound /\ pc = "await" /\ call = "host" => usb = "configured" \/ Enumerating
  /\ sound /\ pc = "reon" => call # "host"
  /\ sound /\ pc = "rewait" /\ call = "host" => powered /\ ~latched
  /\ CalmSwitches

\* What was mounted before the call is unmounted, or safe, before the steps that
\* take the reader from under it.
YankInv ==
  /\ call = "target" /\ pc \in {"close", "read", "suspend", "suspending", "off", "bits"}
       => mounted # "before"
  /\ call = "host" /\ pc \in {"resume", "settle", "cycle", "dark", "reon", "rewait"}
       => mounted # "before"

Inv == TypeOK /\ PlaceInv
SoundInv == Inv /\ CalmInv

\* Before its first call a controller satisfies the invariant.
LEMMA InvInit == Init => SoundInv
BY ControllerAssumption DEF Init, SoundInv, Inv, TypeOK, PlaceInv, CalmInv,
   CalmSwitches, Disk, States, Calls, Steps, Answers

\* A step of the call that only lets go of the reader keeps the types.
LEMMA LetsGo ==
  ASSUME TypeOK, pc' \in Steps \union Answers, handle' = FALSE,
         UNCHANGED <<platform, hasPort, bits, usb, powered, latched, mounted, toSuspend,
                     stranger, calm, call, sound>>
  PROVE  TypeOK'
BY DEF TypeOK, Disk

\* So does the loss of the reader.
LEMMA AbsentTyped ==
  ASSUME TypeOK,
         UNCHANGED <<platform, hasPort, bits, powered, calm, pc, call, sound, handle>>,
         SuspendOver,
         usb' = "absent", latched' = TRUE, mounted' = "no", stranger' = FALSE
  PROVE  TypeOK'
BY DEF TypeOK, States, SuspendOver

\* A call that is over is in no step's place ...
LEMMA OverPlace ==
  ASSUME PlaceInv, UNCHANGED <<platform, usb, call>>, pc' \in Answers
  PROVE  PlaceInv'
BY DEF PlaceInv, Answers

\* ... and one whose reader goes stays in its own.
LEMMA AbsentPlace ==
  ASSUME TypeOK, PlaceInv, UNCHANGED <<platform, hasPort, powered, pc, call, handle>>,
         usb' = "absent", SuspendOver
  PROVE  PlaceInv'
BY DEF TypeOK, PlaceInv, SuspendOver

\* The state is read by calls of SetMode that suspend, with the handle closed.
LEMMA ReadPlace ==
  ASSUME PlaceInv, UNCHANGED <<platform, usb, call>>, pc = "close", pc' = "read",
         handle' = FALSE, call # "revive", platform # "hub"
  PROVE  PlaceInv'
BY DEF PlaceInv, Answers

\* A resume that fails leaves the reader where it was, or awake.
LEMMA ResumeFailsInv == ASSUME Inv, ResumeFails PROVE Inv'
<1>1. /\ pc \in {"resume", "settle"} /\ pc' = "failed"
      /\ usb' = usb \/ (usb = "suspended" /\ usb' = "unconfigured")
      /\ UNCHANGED <<platform, hasPort, bits, powered, latched, mounted, stranger, calm,
                     call, sound, handle>>
  BY DEF ResumeFails, fixed, asked
<1>2. toSuspend' \in BOOLEAN /\ (toSuspend' => toSuspend)
  <2>1. toSuspend \in BOOLEAN
    BY DEF Inv, TypeOK
  <2>2. SuspendOver \/ toSuspend' = toSuspend
    BY DEF ResumeFails
  <2>3. CASE toSuspend' = toSuspend
    BY <2>1, <2>3
  <2>4. CASE SuspendOver /\ platform = "linux"
    BY <2>1, <2>4 DEF SuspendOver
  <2>5. CASE SuspendOver /\ platform # "linux"
    BY <2>5 DEF SuspendOver
  <2> QED BY <2>2, <2>3, <2>4, <2>5
<1>3. TypeOK'
  BY <1>1, <1>2 DEF Inv, TypeOK, States, Answers, Disk
<1>4. PlaceInv'
  BY <1>1 DEF Inv, PlaceInv, Answers
<1> QED BY <1>3, <1>4 DEF Inv

\* A reader that is brought back is about to be suspended no more.
LEMMA ResumedInv == ASSUME Inv, Resumed PROVE Inv'
<1>1. /\ usb \in {"suspended", "unconfigured"} /\ usb' \in {"configured", "unconfigured"}
      /\ mounted' \in {"no", "after"} /\ (mounted' = "after" => usb' = "configured")
      /\ UNCHANGED <<platform, hasPort, bits, powered, latched, stranger, calm, pc, call, sound, handle>>
  BY DEF Resumed, fixed, asked
<1>2. toSuspend' \in BOOLEAN /\ (toSuspend' => platform = "linux")
  <2>1. CASE platform = "linux"  BY <2>1 DEF Resumed, SuspendOver, Inv, TypeOK
  <2>2. CASE platform # "linux"  BY <2>2 DEF Resumed, SuspendOver
  <2> QED BY <2>1, <2>2
<1>3. platform \notin {"hub", "ftdi"}  BY <1>1 DEF Inv, PlaceInv
<1>4. TypeOK'  BY <1>1, <1>2, <1>3 DEF Inv, TypeOK, States, Disk
<1>5. PlaceInv'  BY <1>1, <1>2, <1>3 DEF Inv, PlaceInv, Answers
<1> QED BY <1>4, <1>5 DEF Inv

\* Every step keeps types and places.
LEMMA InvNext == Inv /\ [Next]_vars => Inv'
<1> SUFFICES ASSUME Inv, [Next]_vars PROVE Inv'
  OBVIOUS
<1> USE DEF Inv, TypeOK, PlaceInv, Disk, First, SuspendOver, vars, fixed, outside, reader, asked, States, Calls,
        Steps, Answers
<1>1. CASE \E c \in Calls : Ask(c)
  BY <1>1 DEF Ask, Answers
<1>2. CASE Unmount
  BY <1>2 DEF Unmount, Go
<1>3. CASE UnmountFails
  BY <1>3 DEF UnmountFails, Fails, Go
<1>4. CASE NothingToUnmount
  BY <1>4 DEF NothingToUnmount, Go
<1>5. CASE NoPort
  BY <1>5 DEF NoPort, Go
<1>6. CASE CloseHandle
  <2>1. /\ UNCHANGED <<platform, hasPort, bits, usb, powered, latched, mounted, toSuspend,
                       stranger, calm, call, sound>>
        /\ handle' = FALSE
        /\ call = "revive" \/ platform = "hub" => hasPort
        /\ pc' = AfterClose
    BY <1>6 DEF CloseHandle, Go, PortNeeded
  <2>2. CASE call = "revive"
    <3>1. pc' = "cycle"
      BY <2>1, <2>2 DEF AfterClose
    <3>2. TypeOK'
      BY <2>1, <3>1, LetsGo
    <3>3. PlaceInv'
      BY <2>1, <2>2, <3>1
    <3> QED BY <3>2, <3>3
  <2>3. CASE call = "target" /\ platform = "hub"
    <3>1. pc' = "off"
      BY <2>1, <2>3 DEF AfterClose
    <3>2. TypeOK'
      BY <2>1, <3>1, LetsGo
    <3>3. PlaceInv'
      BY <2>1, <2>3, <3>1
    <3> QED BY <3>2, <3>3
  <2>4. CASE call = "host" /\ platform = "hub"
    <3>1. pc' = "on"
      BY <2>1, <2>4 DEF AfterClose
    <3>2. TypeOK'
      BY <2>1, <3>1, LetsGo
    <3>3. PlaceInv'
      BY <2>1, <2>4, <3>1
    <3> QED BY <3>2, <3>3
  <2>5. CASE call # "revive" /\ platform # "hub"
    <3>1. pc' = "read"
      BY <2>1, <2>5 DEF AfterClose
    <3>2. TypeOK'
      BY <2>1, <3>1, LetsGo
    <3>3. PlaceInv'
      BY <1>6, <2>1, <2>5, <3>1, ReadPlace DEF CloseHandle, Go
    <3> QED BY <3>2, <3>3
  <2> QED BY <2>2, <2>3, <2>4, <2>5
<1>7. CASE CloseHandleFails
  BY <1>7 DEF CloseHandleFails, Fails, Go
<1>8. CASE ReadState
  BY <1>8 DEF ReadState, Wanted
<1>9. CASE DarwinUnconfigure
  BY <1>9 DEF DarwinUnconfigure, Go
<1>10. CASE DarwinSuspend
  BY <1>10 DEF DarwinSuspend, Go
<1>11. CASE LinuxSuspend
  BY <1>11 DEF LinuxSuspend, Go
<1>12. CASE SuspendFails
  <2>1. TypeOK'
    <3>1. toSuspend' = toSuspend \/ (platform = "linux" /\ toSuspend' \in BOOLEAN)
      BY <1>12 DEF SuspendFails
    <3>2. usb' \in {usb, "unconfigured"} /\ (usb' # usb => usb = "configured")
      BY <1>12 DEF SuspendFails
    <3>3. mounted' = IF usb' = "configured" THEN mounted ELSE "no"
      BY <1>12 DEF SuspendFails
    <3>4. /\ pc' = "failed"
          /\ UNCHANGED <<fixed, bits, powered, latched, stranger, calm, asked, handle>>
      BY <1>12 DEF SuspendFails
    <3> QED BY <3>1, <3>2, <3>3, <3>4
  <2>2. PlaceInv'
    BY <1>12 DEF SuspendFails
  <2> QED BY <2>1, <2>2
<1>13. CASE DarwinWake
  BY <1>13 DEF DarwinWake, Go
<1>14. CASE DarwinReEnumerate
  BY <1>14 DEF DarwinReEnumerate, Go
<1>15. CASE LinuxResume
  BY <1>15 DEF LinuxResume, Go
<1>16. CASE ResumeFails
  BY <1>16, ResumeFailsInv
<1>17. CASE Await
  BY <1>17 DEF Await, Go, Wanted
<1>18. CASE AwaitTimesOut
  BY <1>18 DEF AwaitTimesOut, Go, Wanted
<1>19. CASE PowerOff
  BY <1>19 DEF PowerOff, Go, Dark
<1>20. CASE PowerOn
  BY <1>20 DEF PowerOn, Go, Power
<1>21. CASE PowerFails
  <2>1. CASE UNCHANGED <<reader, outside>>
    BY <1>21, <2>1 DEF PowerFails
  <2>2. CASE Dark
    BY <1>21, <2>2 DEF PowerFails, Dark
  <2>3. CASE Power(TRUE)
    BY <1>21, <2>3 DEF PowerFails, Power
  <2> QED BY <1>21, <2>1, <2>2, <2>3 DEF PowerFails
<1>22. CASE ReaderBack
  <2>1. TypeOK'
    BY <1>22 DEF ReaderBack
  <2>2. PlaceInv'
    BY <1>22 DEF ReaderBack
  <2> QED BY <2>1, <2>2
<1>23. CASE NotBack
  BY <1>23 DEF NotBack, SecondChance
<1>24. CASE CyclePowered
  BY <1>24 DEF CyclePowered, Go, Dark
<1>25. CASE CycleUnpowered
  BY <1>25 DEF CycleUnpowered, Go
<1>26. CASE RestorePower
  <2>1. CASE Go("dark", "rewait") /\ Power(FALSE)
    BY <1>26, <2>1 DEF RestorePower, Go, Power
  <2>2. CASE Go("reon", "rewait") /\ Power(TRUE)
    <3>1. TypeOK'
      BY <1>26, <2>2 DEF RestorePower, Go, Power
    <3>2. PlaceInv'
      BY <1>26, <2>2 DEF RestorePower, Go, Power
    <3> QED BY <3>1, <3>2
  <2> QED BY <1>26, <2>1, <2>2 DEF RestorePower
<1>27. CASE ProcessEnds
  <2>1. /\ UNCHANGED <<platform, hasPort, bits, usb, powered, latched, mounted, toSuspend,
                       stranger, calm, call, sound>>
        /\ pc' = "none" /\ handle' = FALSE
    BY <1>27 DEF ProcessEnds
  <2>2. TypeOK'
    BY <2>1, LetsGo
  <2>3. PlaceInv'
    BY <2>1, OverPlace
  <2> QED BY <2>2, <2>3
<1>28. CASE KernelSuspends
  BY <1>28 DEF KernelSuspends, Suspending
<1>29. CASE Enumerates
  BY <1>29 DEF Enumerates, Enumerating
<1>30. CASE ReaderCrashes
  <2>1. /\ UNCHANGED <<platform, hasPort, bits, powered, calm, pc, call, sound, handle>>
        /\ usb' = "absent" /\ latched' = TRUE /\ mounted' = "no" /\ stranger' = FALSE
        /\ SuspendOver
    BY <1>30 DEF ReaderCrashes
  <2>2. TypeOK'
    BY <2>1, AbsentTyped
  <2>3. PlaceInv'
    BY <2>1, AbsentPlace
  <2> QED BY <2>2, <2>3
<1>31. CASE Resumed
  BY <1>31, ResumedInv
<1>32. CASE StrangerOpens
  BY <1>32 DEF StrangerOpens
<1>33. CASE StrangerCloses
  <2>1. UNCHANGED <<platform, hasPort, bits, usb, powered, latched, mounted, toSuspend,
                    calm, pc, call, sound, handle>>
    BY <1>33 DEF StrangerCloses
  <2>2. stranger' \in BOOLEAN
    BY <1>33 DEF StrangerCloses
  <2> QED BY <2>1, <2>2
<1>34. CASE CalmsDown
  <2>1. UNCHANGED <<platform, hasPort, bits, usb, powered, latched, mounted, toSuspend,
                    pc, call, sound, handle>>
    BY <1>34 DEF CalmsDown
  <2>2. calm' \in BOOLEAN /\ stranger' \in BOOLEAN
    BY <1>34 DEF CalmsDown
  <2> QED BY <2>1, <2>2
<1>35. CASE UNCHANGED vars
  BY <1>35
<1>36. CASE SetBits
  BY <1>36 DEF SetBits, CardMoves, Go
<1>37. CASE SetBitsFails
  BY <1>37 DEF SetBitsFails, CardMoves, Go
<1>38. CASE SwitchedElsewhere
  BY <1>38 DEF SwitchedElsewhere, CardMoves
<1>39. CASE OpensReader
  BY <1>39 DEF OpensReader
<1> QED
  BY <1>1, <1>2, <1>3, <1>4, <1>5, <1>6, <1>7, <1>8, <1>9, <1>10, <1>11,
     <1>12, <1>13, <1>14, <1>15, <1>16, <1>17, <1>18, <1>19, <1>20, <1>21,
     <1>22, <1>23, <1>24, <1>25, <1>26, <1>27, <1>28, <1>29, <1>30, <1>31,
     <1>32, <1>33, <1>34, <1>35, <1>36, <1>37, <1>38, <1>39
  DEF Next, SetModeOrRevive, Work, Environment

\* Every step keeps a sound call sound, where readers on the bus can be opened.
LEMMA SoundNext ==
  ASSUME ~OpenMayErr
  PROVE  SoundInv /\ [Next]_vars => SoundInv'
<1> SUFFICES ASSUME SoundInv, [Next]_vars PROVE CalmInv'
  BY InvNext DEF SoundInv
<1> USE DEF SoundInv, Inv, TypeOK, PlaceInv, Disk, First, CalmInv, CalmSwitches, PortNeeded,
        Suspending, Enumerating, SuspendOver, vars, fixed, outside, reader, asked, States, Calls,
        Steps, Answers
<1>1. CASE \E c \in Calls : Ask(c)
  BY <1>1 DEF Ask, Answers
<1>2. CASE Unmount
  BY <1>2 DEF Unmount, Go
<1>3. CASE UnmountFails
  BY <1>3 DEF UnmountFails, Fails, Go
<1>4. CASE NothingToUnmount
  BY <1>4 DEF NothingToUnmount, Go
<1>5. CASE NoPort
  BY <1>5 DEF NoPort, Go
<1>6. CASE CloseHandle
  <2> USE <1>6 DEF CloseHandle, Go, PortNeeded
  <2>1. CASE call = "revive"
    BY <2>1 DEF AfterClose
  <2>2. CASE call = "target" /\ platform = "hub"
    <3>1. pc' = "off"
      BY <2>2 DEF AfterClose
    <3> QED BY <2>2, <3>1
  <2>3. CASE call = "host" /\ platform = "hub"
    <3>1. pc' = "on"
      BY <2>3 DEF AfterClose
    <3> QED BY <2>3, <3>1
  <2>4. CASE call # "revive" /\ platform # "hub"
    <3>1. pc' = "read"
      BY <2>4 DEF AfterClose
    <3> QED BY <2>4, <3>1
  <2> QED BY <2>1, <2>2, <2>3, <2>4
<1>7. CASE CloseHandleFails
  BY <1>7 DEF CloseHandleFails, Fails, Go
<1>8. CASE ReadState
  BY <1>8 DEF ReadState, Wanted
<1>9. CASE DarwinUnconfigure
  BY <1>9 DEF DarwinUnconfigure, Go
<1>10. CASE DarwinSuspend
  BY <1>10 DEF DarwinSuspend, Go
<1>11. CASE LinuxSuspend
  BY <1>11 DEF LinuxSuspend, Go
<1>12. CASE SuspendFails
  BY <1>12 DEF SuspendFails
<1>13. CASE DarwinWake
  BY <1>13 DEF DarwinWake, Go
<1>14. CASE DarwinReEnumerate
  BY <1>14 DEF DarwinReEnumerate, Go
<1>15. CASE LinuxResume
  BY <1>15 DEF LinuxResume, Go
<1>16. CASE ResumeFails
  BY <1>16 DEF ResumeFails
<1>17. CASE Await
  BY <1>17 DEF Await, Go, Wanted
<1>18. CASE AwaitTimesOut
  BY <1>18 DEF AwaitTimesOut, Go, Wanted, Settling
<1>19. CASE PowerOff
  BY <1>19 DEF PowerOff, Go, Dark
<1>20. CASE PowerOn
  BY <1>20 DEF PowerOn, Go, Power
<1>21. CASE PowerFails
  <2>1. /\ pc \in {"off", "on", "cycle", "dark", "reon"} /\ pc' = "failed" /\ ~calm
        /\ UNCHANGED <<platform, hasPort, asked>> /\ calm' = calm
    BY <1>21, Zenon DEF PowerFails, Dark, Power
  <2> QED BY <2>1
<1>22. CASE ReaderBack
  BY <1>22 DEF ReaderBack
<1>23. CASE NotBack
  BY <1>23 DEF NotBack, SecondChance, Settling
<1>24. CASE CyclePowered
  BY <1>24 DEF CyclePowered, Go, Dark
<1>25. CASE CycleUnpowered
  BY <1>25 DEF CycleUnpowered, Go
<1>26. CASE RestorePower
  <2>1. CASE Go("dark", "rewait") /\ Power(FALSE)
    BY <1>26, <2>1 DEF RestorePower, Go, Power
  <2>2. CASE Go("reon", "rewait") /\ Power(TRUE)
    BY <1>26, <2>2 DEF RestorePower, Go, Power
  <2> QED BY <1>26, <2>1, <2>2 DEF RestorePower
<1>27. CASE ProcessEnds
  BY <1>27 DEF ProcessEnds
<1>28. CASE KernelSuspends
  BY <1>28 DEF KernelSuspends, Suspending
<1>29. CASE Enumerates
  BY <1>29 DEF Enumerates, Enumerating
<1>30. CASE ReaderCrashes
  BY <1>30 DEF ReaderCrashes
<1>31. CASE Resumed
  BY <1>31 DEF Resumed
<1>32. CASE StrangerOpens
  BY <1>32 DEF StrangerOpens
<1>33. CASE StrangerCloses
  BY <1>33 DEF StrangerCloses
<1>34. CASE CalmsDown
  BY <1>34 DEF CalmsDown
<1>35. CASE UNCHANGED vars
  BY <1>35
<1>36. CASE SetBits
  BY <1>36 DEF SetBits, CardMoves, Go
<1>37. CASE SetBitsFails
  BY <1>37 DEF SetBitsFails, CardMoves, Go
<1>38. CASE SwitchedElsewhere
  BY <1>38 DEF SwitchedElsewhere, CardMoves
<1>39. CASE OpensReader
  BY <1>39 DEF OpensReader
<1> QED
  BY <1>1, <1>2, <1>3, <1>4, <1>5, <1>6, <1>7, <1>8, <1>9, <1>10, <1>11,
     <1>12, <1>13, <1>14, <1>15, <1>16, <1>17, <1>18, <1>19, <1>20, <1>21,
     <1>22, <1>23, <1>24, <1>25, <1>26, <1>27, <1>28, <1>29, <1>30, <1>31,
     <1>32, <1>33, <1>34, <1>35, <1>36, <1>37, <1>38, <1>39
  DEF Next, SetModeOrRevive, Work, Environment

\* Every variable keeps its type, a dark port has nothing on it, only a configured
\* reader has volumes, and no controller holds a suspended reader open.
THEOREM TypeCorrect == Spec => []TypeOK
<1>1. Inv => TypeOK
  BY DEF Inv
<1>2. Init => Inv
  BY InvInit DEF SoundInv
<1> QED BY <1>1, <1>2, InvNext, PTL DEF Spec

\* Where the readers on the bus can be opened, a call of SetMode made in the calm
\* on a reader that is on the bus fails for want of a resolved hub port only.
THEOREM CalmCallsSwitch ==
  ASSUME ~OpenMayErr
  PROVE  Spec => []CalmSwitches
<1>1. SoundInv => CalmSwitches
  BY DEF SoundInv, CalmInv
<1> QED BY <1>1, InvInit, SoundNext, PTL DEF Spec

\* A step that answers nil to SetMode leaves the card where it was asked to be.
LEMMA MovedStep ==
  Inv /\ [Next]_vars /\ pc # "ok" /\ pc' = "ok" /\ call # "revive" => Card' = call
<1> SUFFICES ASSUME Inv, Next, pc # "ok", pc' = "ok", call # "revive"
             PROVE  Card' = call
  BY DEF vars
<1> USE DEF Inv, TypeOK, PlaceInv, Card, States, Calls, fixed, reader
<1>1. ReadState \/ Await \/ PowerOff \/ ReaderBack \/ SetBits
  BY DEF Next, SetModeOrRevive, Work, Environment, Ask, Unmount, UnmountFails, Fails,
         NothingToUnmount, NoPort, CloseHandle, AfterClose, CloseHandleFails,
         DarwinUnconfigure, DarwinSuspend, LinuxSuspend, SuspendFails, DarwinWake,
         DarwinReEnumerate, LinuxResume, ResumeFails, AwaitTimesOut, PowerOn,
         PowerFails, NotBack, SecondChance, CyclePowered, CycleUnpowered,
         RestorePower, ProcessEnds, KernelSuspends, Enumerates, ReaderCrashes,
         Resumed, SetBitsFails, SwitchedElsewhere, OpensReader, StrangerOpens, StrangerCloses,
         CalmsDown, First, Go, asked
<1>2. CASE ReadState \/ Await
  <2>1. pc \in {"read", "await"} /\ usb = Wanted
    BY <1>2 DEF ReadState, Await, Go
  <2>2. platform # "ftdi" /\ powered' = powered /\ usb' = usb /\ platform' = platform
    BY <1>2, <2>1 DEF ReadState, Await, Answers
  <2> QED BY <2>1, <2>2 DEF Wanted
<1>4. CASE PowerOff
  BY <1>4 DEF PowerOff, Go, Dark
<1>5. CASE ReaderBack
  BY <1>5 DEF ReaderBack
<1>6. CASE SetBits
  BY <1>6 DEF SetBits, CardMoves, Go
<1> QED BY <1>1, <1>2, <1>4, <1>5, <1>6

\* When SetMode answers nil the card is where it was asked to be, whatever the
\* rest of the world does meanwhile.
THEOREM TellsTheTruth == Spec => MovedWhenTold
<1>1. Init => Inv
  BY InvInit DEF SoundInv
<1>2. Inv /\ [Next]_vars
        => [pc # "ok" /\ pc' = "ok" /\ call # "revive" => Card' = call]_vars
  BY MovedStep
<1> QED BY <1>1, <1>2, InvNext, PTL DEF Spec, MovedWhenTold

\* Every step keeps the volumes of before the call out of harm's way, where disks
\* that are there can be found and readers on the bus can be opened.
LEMMA YankNext ==
  ASSUME ~FindMayErr, ~OpenMayErr
  PROVE  Inv /\ YankInv /\ [Next]_vars => YankInv'
<1> SUFFICES ASSUME Inv, YankInv, [Next]_vars PROVE YankInv'
  OBVIOUS
<1> USE DEF Inv, TypeOK, PlaceInv, Disk, First, YankInv, vars, fixed, outside, reader, asked, States,
        Calls, Steps, Answers
<1>1. CASE \E c \in Calls : Ask(c)
  BY <1>1 DEF Ask
<1>2. CASE Unmount \/ UnmountFails \/ NothingToUnmount
  BY <1>2 DEF Unmount, UnmountFails, NothingToUnmount, Fails, Go
<1>3. CASE NoPort \/ CloseHandle \/ CloseHandleFails
  BY <1>3 DEF NoPort, CloseHandle, CloseHandleFails, AfterClose, Fails, Go
<1>4. CASE ReadState
  BY <1>4 DEF ReadState, Wanted
<1>5. CASE DarwinUnconfigure \/ DarwinSuspend \/ LinuxSuspend \/ SuspendFails
  BY <1>5 DEF DarwinUnconfigure, DarwinSuspend, LinuxSuspend, SuspendFails, Go
<1>6. CASE DarwinWake \/ DarwinReEnumerate \/ LinuxResume \/ ResumeFails
  BY <1>6 DEF DarwinWake, DarwinReEnumerate, LinuxResume, ResumeFails, Go
<1>7. CASE Await \/ AwaitTimesOut
  BY <1>7 DEF Await, AwaitTimesOut, Go
<1>8. CASE PowerOff \/ PowerOn \/ PowerFails
  BY <1>8 DEF PowerOff, PowerOn, PowerFails, Dark, Power, Go
<1>9. CASE ReaderBack \/ NotBack \/ OpensReader
  BY <1>9 DEF ReaderBack, NotBack, SecondChance, OpensReader
<1>10. CASE CyclePowered \/ CycleUnpowered \/ RestorePower
  BY <1>10 DEF CyclePowered, CycleUnpowered, RestorePower, Dark, Power, Go
<1>11. CASE ProcessEnds
  BY <1>11 DEF ProcessEnds
<1>12. CASE KernelSuspends \/ Enumerates \/ ReaderCrashes \/ Resumed
  BY <1>12 DEF KernelSuspends, Enumerates, ReaderCrashes, Resumed
<1>13. CASE StrangerOpens \/ StrangerCloses \/ CalmsDown \/ UNCHANGED vars
  BY <1>13 DEF StrangerOpens, StrangerCloses, CalmsDown
<1>14. CASE SetBits \/ SetBitsFails \/ SwitchedElsewhere
  BY <1>14 DEF SetBits, SetBitsFails, SwitchedElsewhere, CardMoves, Go
<1> QED
  BY <1>1, <1>2, <1>3, <1>4, <1>5, <1>6, <1>7, <1>8, <1>9, <1>10, <1>11, <1>12,
     <1>13, <1>14 DEF Next, SetModeOrRevive, Work, Environment

\* Only an unmount or a crash takes the volumes of before the call away.
LEMMA YankStep ==
  Inv /\ YankInv /\ [Next]_vars /\ mounted = "before" /\ mounted' = "no"
    /\ call # "revive" => pc = "unmount" \/ latched'
<1> SUFFICES ASSUME Inv, YankInv, Next, mounted = "before", mounted' = "no",
                    call # "revive", pc # "unmount"
             PROVE  latched'
  BY DEF vars, reader
<1> USE DEF Inv, TypeOK, PlaceInv, Disk, YankInv, fixed, outside, reader, asked, Calls, Go
<1>1. DarwinUnconfigure \/ DarwinSuspend \/ LinuxSuspend \/ SuspendFails
        \/ DarwinReEnumerate \/ LinuxResume \/ PowerOff \/ PowerFails \/ CyclePowered
        \/ Enumerates \/ ReaderCrashes \/ Resumed
        \/ SetBits \/ SetBitsFails
  BY DEF Next, SetModeOrRevive, Work, Environment, Ask, Unmount, UnmountFails, Fails,
         NothingToUnmount, NoPort, CloseHandle, CloseHandleFails, ReadState,
         DarwinWake, ResumeFails, Await, AwaitTimesOut, PowerOn, Power,
         ReaderBack, NotBack, CycleUnpowered, RestorePower, ProcessEnds,
         KernelSuspends, SwitchedElsewhere, OpensReader, StrangerOpens, StrangerCloses,
         CalmsDown
<1>2. CASE DarwinUnconfigure \/ DarwinSuspend \/ LinuxSuspend \/ SuspendFails
  BY <1>2 DEF DarwinUnconfigure, DarwinSuspend, LinuxSuspend, SuspendFails
<1>3. CASE DarwinReEnumerate \/ LinuxResume
  BY <1>3 DEF DarwinReEnumerate, LinuxResume
<1>4. CASE PowerOff \/ PowerFails \/ CyclePowered
  BY <1>4 DEF PowerOff, PowerFails, CyclePowered, Dark, Power
<1>5. CASE Enumerates \/ ReaderCrashes \/ Resumed
  BY <1>5 DEF Enumerates, Enumerating, ReaderCrashes, Resumed
<1>6. CASE SetBits \/ SetBitsFails
  BY <1>6 DEF SetBits, SetBitsFails, CardMoves
<1> QED BY <1>1, <1>2, <1>3, <1>4, <1>5, <1>6

\* Where disks that are there can be found and readers on the bus can be opened,
\* SetMode takes away no volume that was mounted before it without unmounting it.
THEOREM NothingYanked ==
  ASSUME ~FindMayErr, ~OpenMayErr
  PROVE  Spec => NotYanked
<1>1. Init => Inv /\ YankInv
  BY InvInit DEF SoundInv, Init, YankInv
<1>2. Inv /\ YankInv /\ [Next]_vars
        => [mounted = "before" /\ mounted' = "no" /\ call # "revive"
              => pc = "unmount" \/ latched']_vars
  BY YankStep
<1> QED BY <1>1, <1>2, InvNext, YankNext, PTL DEF Spec, NotYanked
---------------------------------------------------------------------------
(* Progress.                                                               *)

\* Whatever the reader and the world around it do, a call never goes back to a step:
\* a reader that stays away is power-cycled and waited for once, and given up.
THEOREM GoesForward == Spec => NoStepTwice
<1>1. ASSUME TypeOK, Work PROVE Rank[pc'] > Rank[pc]
  <2> USE <1>1 DEF Go, Fails, First
  <2>1. CASE Unmount \/ UnmountFails \/ NothingToUnmount
    BY <2>1 DEF Unmount, UnmountFails, NothingToUnmount, Rank
  <2>2. CASE CloseHandle
    <3>1. pc = "close" /\ pc' = AfterClose
      BY <2>2 DEF CloseHandle
    <3>2. CASE call = "revive"
      BY <3>1, <3>2 DEF AfterClose, Rank
    <3>3. CASE call = "target" /\ platform = "hub"
      BY <3>1, <3>3 DEF AfterClose, Rank
    <3>4. CASE call = "host" /\ platform = "hub"
      BY <3>1, <3>4 DEF AfterClose, Rank
    <3>5. CASE call # "revive" /\ platform # "hub"
      BY <3>1, <3>5 DEF AfterClose, Rank
    <3> QED BY <3>2, <3>3, <3>4, <3>5 DEF TypeOK, Calls
  <2>3. CASE NoPort \/ CloseHandleFails
    BY <2>3 DEF NoPort, CloseHandleFails, Rank
  <2>4. CASE ReadState \/ DarwinUnconfigure \/ DarwinSuspend \/ LinuxSuspend \/ SuspendFails
    <3>1. CASE ReadState \/ DarwinUnconfigure \/ DarwinSuspend \/ LinuxSuspend
      BY <3>1 DEF ReadState, DarwinUnconfigure, DarwinSuspend, LinuxSuspend, Rank
    <3>2. CASE SuspendFails
      <4>1. pc \in {"suspend", "suspending"} /\ pc' = "failed"
        BY <3>2 DEF SuspendFails
      <4> QED BY <4>1 DEF Rank
    <3> QED BY <2>4, <3>1, <3>2
  <2>5. CASE DarwinWake \/ DarwinReEnumerate \/ LinuxResume \/ ResumeFails
    BY <2>5 DEF DarwinWake, DarwinReEnumerate, LinuxResume, ResumeFails, Rank
  <2>6. CASE Await \/ AwaitTimesOut
    BY <2>6 DEF Await, AwaitTimesOut, Rank
  <2>7. CASE PowerOff \/ PowerOn \/ PowerFails
    BY <2>7 DEF PowerOff, PowerOn, PowerFails, Dark, Power, Rank
  <2>8. CASE ReaderBack \/ NotBack
    BY <2>8 DEF ReaderBack, NotBack, SecondChance, Rank
  <2>9. CASE CyclePowered \/ CycleUnpowered
    BY <2>9 DEF CyclePowered, CycleUnpowered, Dark, Rank
  <2>10. CASE RestorePower
    <3>1. pc \in {"dark", "reon"} /\ pc' = "rewait"
      BY <2>10, Zenon DEF RestorePower
    <3> QED BY <3>1 DEF Rank
  <2>11. CASE SetBits \/ SetBitsFails
    BY <2>11 DEF SetBits, SetBitsFails, Rank
  <2> QED
    BY <2>1, <2>2, <2>3, <2>4, <2>5, <2>6, <2>7, <2>8, <2>9, <2>10, <2>11 DEF Work
<1>2. TypeOK /\ [Next]_vars => [Work => Rank[pc'] > Rank[pc]]_vars
  BY <1>1
<1> QED BY <1>2, TypeCorrect, PTL DEF Spec, NoStepTwice
=============================================================================
