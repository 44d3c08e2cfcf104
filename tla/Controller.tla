----------------------------- MODULE Controller -----------------------------
(***************************************************************************)
(* How an SDWire3's card is moved: SDWire.SetMode (sdwire.go), the         *)
(* sdwire3Controller behind it (controller_sdwire3.go), the suspend and    *)
(* resume of usbsuspend on macOS and Linux, and the hub-port power it      *)
(* falls back on elsewhere and revives with (fallback.go); and how an      *)
(* SDWireC's is (controller_sdwirec.go).  Calls are made                   *)
(* one after the other by processes that may be killed between any two     *)
(* steps; the reader, the OS and other programs do as they like around it. *)
(*                                                                         *)
(* Timeouts have no clock: while the world is calm, they are long enough   *)
(* for what the OS is about to do.                                         *)
(***************************************************************************)
EXTENDS Naturals

CONSTANTS
  Platforms,   \* how readers are switched: as an SDWire3 on "darwin", on "linux"
               \* or by its "hub" (Windows), or as an SDWireC by its "ftdi" chip
  FindMayErr,  \* BOOLEAN: blockdev.Find may err though the disk is there
  OpenMayErr   \* BOOLEAN: a reader on the bus may refuse to be opened

ASSUME ControllerAssumption ==
  /\ Platforms \subseteq {"darwin", "linux", "hub", "ftdi"}
  /\ FindMayErr \in BOOLEAN
  /\ OpenMayErr \in BOOLEAN

VARIABLES
  platform,    \* how readers are switched here; never changes
  hasPort,     \* the upstream hub port was resolved and opened; never changes
  usb,         \* usbsuspend.State of the reader
  powered,     \* its hub port has power
  latched,     \* it has latched up, and only a long power cut helps it
  mounted,     \* its card's volumes: not mounted, or since before or after the call began
  bits,        \* SDWireC: the side that its CBUS pins select
  toSuspend,   \* the OS is to suspend it once nothing holds it awake: on Linux
               \* for as long as autosuspend is on, on macOS once when asked
  stranger,    \* another program has it open
  calm,        \* from now on nothing fails that need not fail
  pc,          \* the next step of the call, or its outcome
  call,        \* SetMode's mode, or "revive"
  sound,       \* history: the call began in the calm, on a reader on the bus
  handle       \* sdwire3Controller.device is open

fixed   == <<platform, hasPort>>
outside == <<toSuspend, stranger, calm>>
reader  == <<usb, powered, latched, mounted>>
asked   == <<call, sound>>
vars    == <<fixed, bits, reader, outside, pc, asked, handle>>

States == {"absent", "suspended", "configured", "unconfigured"}
Calls  == {"target", "host", "revive"}
Steps  == {"unmount", "close", "read", "suspend", "suspending", "resume",
           "settle", "await", "bits", "off", "on", "wait", "cycle", "dark", "reon", "rewait"}
Answers == {"none", "ok", "failed"}

\* "The card is with the target exactly while the reader is USB-suspended - or
\* unpowered", and with the host when it is configured; an SDWireC's is where its
\* pins say.
Card ==
  IF platform = "ftdi" THEN bits
  ELSE IF usb = "suspended" \/ ~powered THEN "target"
  ELSE IF usb = "configured" THEN "host" ELSE "neither"

\* The card is the host's disk.
Disk == usb = "configured" /\ (platform = "ftdi" => bits = "host")

\* The state that awaitState waits for.
Wanted == IF call = "target" THEN "suspended" ELSE "configured"

\* resolveErr matters to Revive, and to SetMode where suspend is unsupported.
PortNeeded == call = "revive" \/ platform = "hub"

\* The OS is about to suspend or to enumerate the reader.
Suspending ==
  toSuspend /\ usb = "unconfigured" /\ ~handle /\ ~stranger
Enumerating == powered /\ ~latched /\ usb = "absent"
Settling == Suspending \/ Enumerating

\* A suspend that macOS was asked for is over, or called off.
SuspendOver == toSuspend' = IF platform = "linux" THEN toSuspend ELSE FALSE

---------------------------------------------------------------------------
Init ==
  /\ platform \in Platforms
  /\ hasPort \in BOOLEAN
  /\ usb \in IF platform \in {"hub", "ftdi"} THEN {"absent", "configured"} ELSE States
  /\ powered \in BOOLEAN
  /\ latched \in BOOLEAN
  /\ ~powered \/ latched => usb = "absent"
  /\ bits \in IF platform = "ftdi" THEN {"target", "host"} ELSE {"host"}
  /\ mounted \in IF Disk THEN {"no", "before"} ELSE {"no"}
  /\ toSuspend \in IF platform = "linux" \/ (platform = "darwin" /\ usb = "unconfigured")
                     THEN BOOLEAN ELSE {FALSE}
  /\ stranger = FALSE
  /\ calm = FALSE
  /\ pc = "none"
  /\ call = "host"
  /\ sound = FALSE
  /\ handle = FALSE

Go(from, to) == pc = from /\ pc' = to

\* A call fails where it need not.
Fails(from) == Go(from, "failed") /\ ~calm

\* What a controller does first.
First == IF platform = "ftdi" THEN "bits" ELSE "close"

\* newSDWire3Controller: a process has found the reader and opened it, which wakes
\* it; where suspend is supported, only one that it has revived from the cache.
\* The handle is kept also when the hub port cannot be resolved.
OpensReader ==
  /\ pc = "none"
  /\ platform # "ftdi" /\ usb # "absent"
  /\ usb' = IF usb = "suspended" THEN "unconfigured" ELSE usb
  /\ handle' = TRUE
  /\ UNCHANGED <<fixed, bits, powered, latched, mounted, outside, pc, asked>>

\* A call is made; an SDWireC cannot be revived.
Ask(c) ==
  /\ pc \in Answers
  /\ platform = "ftdi" => c # "revive"
  /\ pc' = IF c = "target" THEN "unmount" ELSE First
  /\ call' = c
  /\ sound' = (calm /\ (usb # "absent" \/ platform = "hub"))
  /\ mounted' = IF mounted = "no" THEN "no" ELSE "before"
  /\ UNCHANGED <<fixed, bits, usb, powered, latched, outside, handle>>

---------------------------------------------------------------------------
(* SDWire.SetMode(ModeTarget): volumes are unmounted first.                *)

Unmount ==
  /\ Go("unmount", First)
  /\ Disk
  /\ mounted' = "no"
  /\ UNCHANGED <<fixed, bits, usb, powered, latched, outside, asked, handle>>

UnmountFails ==
  /\ Fails("unmount")
  /\ Disk
  /\ UNCHANGED <<fixed, bits, reader, outside, asked, handle>>

\* On any error of Find's the switch proceeds.
NothingToUnmount ==
  /\ Go("unmount", First)
  /\ ~Disk \/ FindMayErr
  /\ UNCHANGED <<fixed, bits, reader, outside, asked, handle>>

---------------------------------------------------------------------------
(* What every call on an SDWire3 begins with.                              *)

NoPort ==
  /\ Go("close", "failed")
  /\ PortNeeded /\ ~hasPort
  /\ UNCHANGED <<fixed, bits, reader, outside, asked, handle>>

AfterClose ==
  CASE call = "revive"                        -> "cycle"
    [] call = "target" /\ platform = "hub"    -> "off"
    [] call = "host" /\ platform = "hub"      -> "on"
    [] call # "revive" /\ platform # "hub"    -> "read"

KeepHandle ==
  /\ Go("close", AfterClose)
  /\ PortNeeded => hasPort
  /\ UNCHANGED <<fixed, bits, reader, outside, asked, handle>>

\* "An open handle keeps the reader awake": it is closed before anything else.
CloseHandle ==
  /\ Go("close", AfterClose)
  /\ PortNeeded => hasPort
  /\ handle' = FALSE
  /\ UNCHANGED <<fixed, bits, reader, outside, asked>>

\* Only a power-off cares about the error of Close.
CloseHandleFails ==
  /\ Fails("close")
  /\ platform = "hub" /\ call = "target" /\ hasPort /\ handle
  /\ UNCHANGED <<fixed, bits, reader, outside, asked, handle>>

---------------------------------------------------------------------------
(* setModeBySuspend.                                                       *)

StateUnread ==
  /\ pc = "read"
  /\ pc' = IF call = "target" THEN "suspend" ELSE "resume"
  /\ UNCHANGED <<fixed, bits, reader, outside, asked, handle>>

\* A reader that is where it should be is left alone.
ReadState ==
  /\ pc = "read"
  /\ pc' = IF usb = Wanted THEN "ok" ELSE IF call = "target" THEN "suspend" ELSE "resume"
  /\ UNCHANGED <<fixed, bits, reader, outside, asked, handle>>

\* macOS, first half: the reader is opened and unconfigured, which tears down
\* the driver that would veto the suspend.
DarwinUnconfigure ==
  /\ Go("suspend", "suspending")
  /\ platform = "darwin"
  /\ usb # "absent"
  /\ usb' = "unconfigured"
  /\ mounted' = "no"
  /\ SuspendOver
  /\ UNCHANGED <<fixed, bits, powered, latched, stranger, calm, asked, handle>>

\* Without the veto of a driver that has been loaded again.
DarwinSuspendForced ==
  /\ Go("suspending", "await")
  /\ usb # "absent"
  /\ toSuspend' = TRUE
  /\ UNCHANGED <<fixed, bits, reader, stranger, calm, asked, handle>>

\* macOS, second half: a suspend is accepted, on one of eight attempts.  It has
\* not settled when the call that asked for it returns.
DarwinSuspend ==
  /\ Go("suspending", "await")
  /\ usb = "unconfigured"
  /\ toSuspend' = TRUE
  /\ UNCHANGED <<fixed, bits, reader, stranger, calm, asked, handle>>

\* Linux: autosuspend is enabled and a bound driver detached.  The kernel does
\* the rest once nobody has the reader open.
LinuxSuspend ==
  /\ Go("suspend", "await")
  /\ platform = "linux"
  /\ usb # "absent"
  /\ toSuspend' = TRUE
  /\ usb' = IF usb = "configured" THEN "unconfigured" ELSE usb
  /\ mounted' = "no"
  /\ UNCHANGED <<fixed, bits, powered, latched, stranger, calm, asked, handle>>

\* Either half fails, half done perhaps: on Linux autosuspend may stay enabled,
\* on both the reader unconfigured.  The driver of one that has come back vetoes.
SuspendFails ==
  /\ pc \in {"suspend", "suspending"}
  /\ pc' = "failed"
  /\ calm => usb = "absent" \/ (pc = "suspending" /\ usb = "configured")
  /\ usb' \in IF usb = "configured" /\ pc = "suspend" THEN {usb, "unconfigured"} ELSE {usb}
  /\ mounted' = IF usb' = "configured" THEN mounted ELSE "no"
  /\ toSuspend' \in IF platform = "linux" THEN {toSuspend, TRUE} ELSE {toSuspend}
  /\ UNCHANGED <<fixed, bits, powered, latched, stranger, calm, asked, handle>>

\* macOS: the reader is woken, given time to bring its card up ...
DarwinWake ==
  /\ Go("resume", "settle")
  /\ platform = "darwin"
  /\ usb # "absent"
  /\ usb' = IF usb = "suspended" THEN "unconfigured" ELSE usb
  /\ SuspendOver
  /\ UNCHANGED <<fixed, bits, powered, latched, mounted, stranger, calm, asked, handle>>

\* ... and re-enumerated.
DarwinReEnumerate ==
  /\ Go("settle", "await")
  /\ usb # "absent"
  /\ usb' = "absent"
  /\ mounted' = "no"
  /\ UNCHANGED <<fixed, bits, powered, latched, outside, asked, handle>>

\* Linux: opening its node wakes the reader, its driver is attached again, and
\* the reader is reset.  The OS may mount its volumes.
LinuxResume ==
  /\ Go("resume", "await")
  /\ platform = "linux"
  /\ usb # "absent"
  /\ usb' = "configured"
  /\ mounted' \in IF usb = "configured" THEN {mounted, "no"} ELSE {"no", "after"}
  /\ UNCHANGED <<fixed, bits, powered, latched, outside, asked, handle>>

ResumeFails ==
  /\ pc \in {"resume", "settle"}
  /\ pc' = "failed"
  /\ usb # "absent" => ~calm
  /\ usb' \in IF usb = "suspended" THEN {usb, "unconfigured"} ELSE {usb}
  /\ SuspendOver \/ toSuspend' = toSuspend
  /\ UNCHANGED <<fixed, bits, powered, latched, mounted, stranger, calm, asked, handle>>

AwaitSkipped ==
  /\ Go("await", "ok")
  /\ UNCHANGED <<fixed, bits, reader, outside, asked, handle>>

\* awaitState sees the state it wants ...
Await ==
  /\ Go("await", "ok")
  /\ usb = Wanted
  /\ UNCHANGED <<fixed, bits, reader, outside, asked, handle>>

\* ... or its deadline passes.
AwaitTimesOut ==
  /\ Go("await", "failed")
  /\ usb # Wanted
  /\ calm => ~Settling
  /\ UNCHANGED <<fixed, bits, reader, outside, asked, handle>>

---------------------------------------------------------------------------
(* SetMode by hub-port power, and Revive.                                  *)

\* The port goes dark, and with it whatever was on it.
Dark ==
  /\ powered' = FALSE
  /\ usb' = "absent"
  /\ mounted' = "no"
  /\ stranger' = FALSE
  /\ SuspendOver
  /\ UNCHANGED <<latched, calm>>

\* The port has power (again).  A dark time that may have been brief may leave
\* the reader latched up.
Power(brief) ==
  /\ powered' = TRUE
  /\ latched' \in IF powered THEN {latched} ELSE IF brief THEN BOOLEAN ELSE {FALSE}
  /\ UNCHANGED <<usb, mounted, outside>>

PowerOff ==
  /\ Go("off", "ok")
  /\ Dark
  /\ UNCHANGED <<fixed, bits, asked, handle>>

PowerOn ==
  /\ Go("on", "wait")
  /\ Power(TRUE)
  /\ UNCHANGED <<fixed, bits, asked, handle>>

\* SetPower fails; its request may have had its effect.
PowerFails ==
  /\ pc \in {"off", "on", "cycle", "dark", "reon"}
  /\ pc' = "failed"
  /\ ~calm
  /\ \/ UNCHANGED <<reader, outside>>
     \/ pc \in {"off", "cycle"} /\ Dark
     \/ pc \in {"on", "dark", "reon"} /\ Power(TRUE)
  /\ UNCHANGED <<fixed, bits, asked, handle>>

\* waitForSDWireViaPort: the reader is back and opened, which wakes it.
ReaderBack ==
  /\ pc \in {"wait", "rewait"}
  /\ pc' = "ok"
  /\ usb # "absent"
  /\ usb' = IF usb = "suspended" THEN "unconfigured" ELSE usb
  /\ handle' = TRUE
  /\ UNCHANGED <<fixed, bits, powered, latched, mounted, outside, asked>>

OneChance == pc' = "failed"

EndlessChances == pc' = "cycle"

\* SetMode(ModeHost) gives the reader one full power cycle before it gives up.
SecondChance == pc' = IF pc = "wait" THEN "cycle" ELSE "failed"

NotBack ==
  /\ pc \in {"wait", "rewait"}
  /\ usb # "absent" => OpenMayErr
  /\ calm => ~Settling
  /\ SecondChance
  /\ UNCHANGED <<fixed, bits, reader, outside, asked, handle>>

\* revivePortPower: a powered port goes dark for readerRevivePause; one that is
\* not, or whose status cannot be read, is switched on at once.
CyclePowered ==
  /\ Go("cycle", "dark")
  /\ powered
  /\ Dark
  /\ UNCHANGED <<fixed, bits, asked, handle>>

CycleUnpowered ==
  /\ Go("cycle", "reon")
  /\ powered => ~calm
  /\ UNCHANGED <<fixed, bits, reader, outside, asked, handle>>

RestorePower ==
  /\ \/ Go("dark", "rewait") /\ Power(FALSE)
     \/ Go("reon", "rewait") /\ Power(TRUE)
  /\ UNCHANGED <<fixed, bits, asked, handle>>

---------------------------------------------------------------------------
(* sdwireCController: SetMode in one control transfer.                     *)

\* What becomes of the volumes when the pins are set: the OS may mount those of a
\* card that comes to the host.
CardMoves(side) ==
  /\ bits' = side
  /\ mounted' \in IF side = "target" THEN {"no"}
                  ELSE IF bits = "host" THEN {mounted} ELSE {"no", "after"}
  /\ UNCHANGED <<fixed, usb, powered, latched, outside, asked, handle>>

SetBits ==
  /\ Go("bits", "ok")
  /\ usb # "absent"
  /\ CardMoves(call)

\* The transfer fails; it may have had its effect.
SetBitsFails ==
  /\ Go("bits", "failed")
  /\ usb # "absent" => ~calm
  /\ \/ UNCHANGED <<fixed, bits, reader, outside, asked, handle>>
     \/ usb # "absent" /\ CardMoves(call)

---------------------------------------------------------------------------
(* Around the calls.                                                       *)

\* The process ends, with Close or by being killed at any step.
ProcessEnds ==
  /\ pc' = "none"
  /\ handle' = FALSE
  /\ UNCHANGED <<fixed, bits, reader, outside, asked>>

KernelSuspends ==
  /\ Suspending
  /\ usb' = "suspended"
  /\ SuspendOver
  /\ UNCHANGED <<fixed, bits, powered, latched, mounted, stranger, calm, pc, asked, handle>>

\* A reader enumerates; an SDWireC's pins may be as they come.
Enumerates ==
  /\ Enumerating
  /\ usb' = "configured"
  /\ bits' \in IF platform = "ftdi" THEN {"target", "host"} ELSE {bits}
  /\ mounted' \in IF bits' = "host" THEN {"no", "after"} ELSE {"no"}
  /\ UNCHANGED <<fixed, powered, latched, outside, pc, asked, handle>>

\* The reader crashes, and the OS tears it off the bus.
ReaderCrashes ==
  /\ ~calm
  /\ usb # "absent"
  /\ usb' = "absent"
  /\ latched' = TRUE
  /\ mounted' = "no"
  /\ stranger' = FALSE
  /\ SuspendOver
  /\ UNCHANGED <<fixed, bits, powered, calm, pc, asked, handle>>

\* The computer wakes from sleep, or another process switches the card back.
Resumed ==
  /\ ~calm
  /\ usb \in {"suspended", "unconfigured"}
  /\ usb' \in {"configured", "unconfigured"}
  /\ mounted' \in IF usb' = "configured" THEN {"no", "after"} ELSE {"no"}
  /\ SuspendOver
  /\ UNCHANGED <<fixed, bits, powered, latched, stranger, calm, pc, asked, handle>>

\* Another process switches an SDWireC, whose volumes it unmounts first.
SwitchedElsewhere ==
  /\ ~calm
  /\ platform = "ftdi" /\ usb # "absent" /\ mounted = "no"
  /\ \E side \in {"target", "host"} : CardMoves(side)
  /\ UNCHANGED pc

\* Another program opens the reader, which wakes it, or closes it again.
StrangerOpens ==
  /\ ~calm
  /\ usb # "absent"
  /\ stranger' = TRUE
  /\ usb' = IF usb = "suspended" THEN "unconfigured" ELSE usb
  /\ UNCHANGED <<fixed, bits, powered, latched, mounted, toSuspend, calm, pc, asked, handle>>

StrangerCloses ==
  /\ stranger
  /\ stranger' = FALSE
  /\ UNCHANGED <<fixed, bits, reader, toSuspend, calm, pc, asked, handle>>

\* From here on the rest of the world keeps still.
CalmsDown ==
  /\ ~calm
  /\ calm' = TRUE
  /\ stranger' = FALSE
  /\ UNCHANGED <<fixed, bits, reader, toSuspend, pc, asked, handle>>

---------------------------------------------------------------------------
Work ==
  \/ Unmount \/ UnmountFails \/ NothingToUnmount
  \/ NoPort \/ CloseHandle \/ CloseHandleFails
  \/ ReadState \/ DarwinUnconfigure \/ DarwinSuspend \/ LinuxSuspend \/ SuspendFails
  \/ DarwinWake \/ DarwinReEnumerate \/ LinuxResume \/ ResumeFails
  \/ Await \/ AwaitTimesOut
  \/ PowerOff \/ PowerOn \/ PowerFails
  \/ ReaderBack \/ NotBack \/ CyclePowered \/ CycleUnpowered \/ RestorePower
  \/ SetBits \/ SetBitsFails

SetModeOrRevive == Work \/ OpensReader \/ ProcessEnds \/ \E c \in Calls : Ask(c)

Environment ==
  \/ KernelSuspends \/ Enumerates \/ ReaderCrashes \/ Resumed \/ SwitchedElsewhere
  \/ StrangerOpens \/ StrangerCloses \/ CalmsDown

Next == SetModeOrRevive \/ Environment

Spec == Init /\ [][Next]_vars

\* A process that is not killed runs on, and every wait of its has a deadline; the
\* OS ends what it has begun.
Fairness == WF_vars(Work) /\ WF_vars(KernelSuspends \/ Enumerates)

FairSpec == Spec /\ Fairness

---------------------------------------------------------------------------
(* Properties.                                                             *)

\* Every variable keeps its type; a port without power has nothing on it, only a
\* card that is the host's disk has mounted volumes, a controller holds no reader open
\* that is suspended, as it would have kept it awake, and macOS is only about to
\* suspend a reader that was unconfigured for it.
TypeOK ==
  /\ platform \in Platforms
  /\ hasPort \in BOOLEAN
  /\ usb \in States
  /\ powered \in BOOLEAN
  /\ latched \in BOOLEAN
  /\ mounted \in {"no", "before", "after"}
  /\ bits \in {"target", "host"}
  /\ toSuspend \in BOOLEAN
  /\ stranger \in BOOLEAN
  /\ calm \in BOOLEAN
  /\ pc \in Steps \union Answers
  /\ call \in Calls
  /\ sound \in BOOLEAN
  /\ handle \in BOOLEAN
  /\ ~powered \/ latched => usb = "absent"
  /\ mounted # "no" => Disk
  /\ handle => usb # "suspended"
  /\ toSuspend /\ platform # "linux" => platform = "darwin" /\ usb = "unconfigured"

\* "Neither a suspend nor a re-enumeration has settled when the call that
\* started it returns": when SetMode answers nil, the card is where it was asked
\* to be, whoever else opens, wakes or switches the reader.
MovedWhenTold ==
  [][pc # "ok" /\ pc' = "ok" /\ call # "revive" => Card' = call]_vars

\* A call made in the calm on a reader that is on the bus succeeds, whatever
\* earlier calls, killed at any step, have left behind: a reader unconfigured, a
\* handle open, a port dark, a reader latched up by a power cut too brief.
CalmSwitches ==
  pc = "failed" /\ sound /\ call # "revive" => PortNeeded /\ ~hasPort

\* "An actual failed unmount aborts the switch rather than yanking a mounted
\* filesystem away": SetMode unmounts what was mounted before it, or leaves it be.
NotYanked ==
  [][mounted = "before" /\ mounted' = "no" /\ call # "revive"
       => pc = "unmount" \/ latched']_vars

\* The order of a call's steps, the second chance's after those of the first.
Rank ==
  [unmount |-> 1, close |-> 2, bits |-> 3, read |-> 3, suspend |-> 4, suspending |-> 5,
   resume |-> 4, settle |-> 5, await |-> 6, off |-> 3, on |-> 3, wait |-> 4, cycle |-> 5,
   dark |-> 6, reon |-> 6, rewait |-> 7, ok |-> 8, failed |-> 8]

\* "Give it one full power-cycle before giving up": a call never goes back to a step,
\* not even to the wait it has had, so that it answers within seven of its own.
NoStepTwice == [][Work => Rank[pc'] > Rank[pc]]_vars

\* Every call returns, or its process is killed: power cycles and waits are not
\* repeated for as long as a reader fails to come back.
CallsReturn == pc \notin Answers ~> pc \in Answers
=============================================================================
