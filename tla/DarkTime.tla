------------------------------ MODULE DarkTime ------------------------------
(***************************************************************************)
(* How long the target board is dark: PowerCycle and TargetPower of        *)
(* power.go, the power half of FlashAndBoot (flash.go) and `sdwire power`  *)
(* (cmd/sdwire/power.go), over the Meross plug and its client.             *)
(***************************************************************************)
EXTENDS Meross

CONSTANTS
  MinOffs,     \* minimum dark times that callers ask for; zero for none given
  DefaultMin,  \* DefaultMinDarkTime
  Callers      \* who powers the board: "cycle" (PowerCycle), "flash", "on", "off"

ASSUME DarkTimeAssumption ==
  /\ MinOffs \subseteq Nat
  /\ DefaultMin \in Nat
  /\ Callers \subseteq {"cycle", "flash", "on", "off"}

VARIABLES
  pc,      \* the next step of the call
  caller,  \* who is calling
  asked,   \* the minimum dark time it was given
  askedAt, \* powerOffAt: when FlashAndBoot, or PowerCycle, called to cut power
  wakeAt   \* when the sleep may end

call == <<caller, asked, askedAt>>
vars == <<meross, pc, call, wakeAt>>

Steps == {"idle", "cutting", "working", "sleeping", "closing", "ok", "failed"}

\* PowerCycle's "values <= 0 fall back to DefaultMinDarkTime".
OrDefault(minOff) == IF minOff = 0 THEN DefaultMin ELSE minOff

BackwardSleep == now - OrDefault(asked)

MeasuredSleep == now + OrDefault(asked) - (now - askedAt)

\* PowerCycle sleeps the whole minimum, from when the cut was acknowledged.
WholeSleep == now + OrDefault(asked)

\* FlashAndBoot sleeps what is left of the minimum since it asked for the cut.
TopUp == now + asked - (now - askedAt)

---------------------------------------------------------------------------
Init ==
  /\ MerossInit
  /\ pc = "idle"
  /\ caller \in Callers
  /\ asked \in MinOffs
  /\ askedAt = 0
  /\ wakeAt = 0

\* The call begins: from here on, whoever else switches the relay meddles.
Begins ==
  /\ meddled' = FALSE
  /\ askedAt' = now
  /\ UNCHANGED <<now, plug, strays, caller, asked, wakeAt>>

CutPower ==
  /\ pc = "idle" /\ caller # "on"
  /\ pc' = "cutting"
  /\ Send("off")
  /\ Begins

\* `sdwire power on`.
PowerUp ==
  /\ pc = "idle" /\ caller = "on"
  /\ pc' = "closing"
  /\ Send("on")
  /\ Begins

\* The cut is acknowledged.
CutAcknowledged ==
  /\ pc = "cutting"
  /\ Acknowledged
  /\ \/ caller = "off" /\ pc' = "ok" /\ UNCHANGED wakeAt
     \/ caller = "cycle" /\ pc' = "sleeping" /\ wakeAt' = WholeSleep
     \/ caller = "flash" /\ pc' = "working" /\ UNCHANGED wakeAt
  /\ UNCHANGED call

\* FlashAndBoot's steps 2 to 5 are done, after any time at all.
WorkDone ==
  /\ pc = "working"
  /\ pc' = "sleeping"
  /\ wakeAt' = TopUp
  /\ UNCHANGED <<meross, call>>

\* A sleep lasts until wakeAt at least; a sleep of nothing is none.
Wake ==
  /\ pc = "sleeping"
  /\ now >= wakeAt
  /\ pc' = "closing"
  /\ Send("on")
  /\ UNCHANGED <<now, plug, strays, meddled, call, wakeAt>>

PowerAcknowledged ==
  /\ pc = "closing"
  /\ Acknowledged
  /\ pc' = "ok"
  /\ UNCHANGED <<call, wakeAt>>

\* The cut or the power-up fails; no more is asked of the plug.
PowerFails ==
  /\ pc \in {"cutting", "closing"}
  /\ SetPowerFails
  /\ pc' = "failed"
  /\ UNCHANGED <<call, wakeAt>>

\* A step of the flash fails, or a request cannot be built.
Fail ==
  /\ pc \in {"idle", "working", "sleeping"}
  /\ pc = "sleeping" => now >= wakeAt
  /\ pc' = "failed"
  /\ UNCHANGED <<meross, call, wakeAt>>

\* The caller has its answer and starts over.
Again ==
  /\ pc \in {"ok", "failed"}
  /\ pc' = "idle"
  /\ caller' \in Callers
  /\ asked' \in MinOffs
  /\ askedAt' = 0
  /\ wakeAt' = 0
  /\ UNCHANGED meross

Step ==
  \/ CutPower \/ PowerUp \/ CutAcknowledged \/ WorkDone \/ Wake
  \/ PowerAcknowledged \/ PowerFails \/ Fail \/ Again

Next == Step \/ ((Plug \/ Tick) /\ UNCHANGED <<pc, call, wakeAt>>)

Spec == Init /\ [][Next]_vars

---------------------------------------------------------------------------
(* Properties.                                                             *)

\* Every variable keeps its type, and no stamp lies in the future.
TypeOK ==
  /\ MerossTypeOK
  /\ pc \in Steps
  /\ caller \in Callers
  /\ asked \in MinOffs
  /\ askedAt \in 0..now
  /\ wakeAt \in Nat

PoweredUp == relay = "off" /\ relay' = "on"

\* "A guaranteed dark time": a board that PowerCycle powers up has had no power
\* for the minimum time asked for, or for the default when none was, however long
\* the relay took to open and whatever earlier calls left behind; FlashAndBoot's
\* for that less the time the plug was given to answer.  The button, and requests that earlier calls gave
\* up on, are beyond the caller's control.
DarkLongEnough ==
  [][PoweredUp /\ ~meddled' =>
       /\ caller = "cycle" => now - cutAt >= IF asked = 0 THEN DefaultMin ELSE asked
       /\ caller = "flash" => now - cutAt >= asked - Timeout]_vars

\* "The relay must never be assumed to have switched unless SetPower returns
\* nil": where the calls go on, or are over with nil, the relay is what was last
\* asked of it, through refusals, lost answers and answers of errors.
NilMeansSwitched ==
  pc \in {"working", "sleeping", "ok"} /\ ~meddled => relay = onoff

\* FlashAndBoot "tops up the dark time begun in step 1 to at least the configured
\* minimum": it powers up no board that has been dark for less.
FlashTopsUp == [][PoweredUp /\ ~meddled' => now - cutAt >= asked]_vars
=============================================================================
