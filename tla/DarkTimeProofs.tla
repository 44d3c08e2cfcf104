--------------------------- MODULE DarkTimeProofs ---------------------------
(***************************************************************************)
(* The board's dark time, and what SetPower's answers tell, for every      *)
(* minimum, timeout, clock and plug.                                       *)
(***************************************************************************)
EXTENDS DarkTime, TLAPS

\* The dark time that a caller of PowerCycle means to keep.
Minimum == OrDefault(asked)

\* A request is in progress while SetPower is waited for, and asks for what the
\* call is about to be acknowledged.
CallInv ==
  /\ pc \in {"cutting", "closing"} <=> request # "none"
  /\ pc \in {"cutting", "working", "sleeping"} => onoff = "off"
  /\ pc = "closing" => onoff = "on"
  /\ pc \in {"working", "sleeping"} => caller \in {"cycle", "flash"}
  /\ pc = "working" => caller = "flash"

\* The relay is as acknowledged.
RelayInv ==
  /\ request = "executed" /\ ~meddled => relay = onoff
  /\ pc \in {"working", "sleeping", "ok"} /\ ~meddled => relay = onoff

\* The relay opened within the timeout of the cut being asked for, and what is
\* left to sleep brings the dark time to the minimum.
DarkInv ==
  /\ pc = "cutting" => sentAt = askedAt /\ now <= askedAt + Timeout
  /\ pc \in {"working", "sleeping"} /\ ~meddled => cutAt <= askedAt + Timeout
  /\ pc = "sleeping" /\ ~meddled /\ caller = "cycle" => cutAt + Minimum <= wakeAt
  /\ pc = "sleeping" /\ caller = "flash" => wakeAt = askedAt + asked
  /\ pc = "closing" /\ ~meddled /\ relay = "off" /\ caller = "cycle"
       => cutAt + Minimum <= now
  /\ pc = "closing" /\ ~meddled /\ relay = "off" /\ caller = "flash"
       => cutAt + asked <= now + Timeout

Inv == TypeOK /\ CallInv /\ RelayInv /\ DarkInv

\* The minimum is a duration.
LEMMA MinimumNat == TypeOK => asked \in Nat /\ Minimum \in Nat /\ Minimum >= asked
BY DarkTimeAssumption DEF TypeOK, Minimum, OrDefault

\* A caller that has not begun satisfies the invariant.
LEMMA InvInit == Init => Inv
<1> SUFFICES ASSUME Init PROVE Inv
  OBVIOUS
<1> USE DarkTimeAssumption, MerossAssumption DEF Init, MerossInit
<1>1. strays \in [Switches -> 0..MaxStrays]
  OBVIOUS
<1>2. meddled \in BOOLEAN
  OBVIOUS
<1>3. TypeOK
  BY <1>1, <1>2 DEF TypeOK, MerossTypeOK, Steps, Switches, Requests
<1>4. CallInv /\ RelayInv /\ DarkInv
  BY DEF CallInv, RelayInv, DarkInv
<1> QED BY <1>3, <1>4 DEF Inv

\* What every step of the caller leaves of the types.
LEMMA TypeNext == TypeOK /\ DarkInv /\ [Next]_vars => TypeOK'
<1> SUFFICES ASSUME TypeOK, DarkInv, [Next]_vars PROVE TypeOK'
  OBVIOUS
<1> USE DarkTimeAssumption, MerossAssumption
    DEF TypeOK, MerossTypeOK, Steps, Requests, call, plug, meross, client
<1>m. asked \in Nat /\ Minimum \in Nat /\ Minimum >= asked
  BY MinimumNat
<1>s. "on" \in Switches /\ "off" \in Switches
  BY DEF Switches
<1>1. CASE CutPower \/ PowerUp
  <2>1. meddled' \in BOOLEAN
    BY <1>1 DEF CutPower, PowerUp, Begins
  <2> QED BY <1>1, <1>s, <2>1 DEF CutPower, PowerUp, Send, Begins
<1>3. CASE CutAcknowledged
  BY <1>3, <1>m DEF CutAcknowledged, Acknowledged, CallEnds, WholeSleep, Minimum
<1>4. CASE WorkDone
  BY <1>4, <1>m DEF WorkDone, TopUp
<1>5. CASE Wake
  BY <1>5, <1>s DEF Wake, Send
<1>6. CASE PowerAcknowledged
  BY <1>6 DEF PowerAcknowledged, Acknowledged, CallEnds
<1>7. CASE PowerFails
  <2>1. strays' \in [Switches -> 0..MaxStrays]
    BY <1>7 DEF PowerFails, SetPowerFails, Rejected, TransportFails
  <2> QED BY <1>7, <2>1 DEF PowerFails, SetPowerFails, Rejected, TransportFails, CallEnds
<1>8. CASE Fail
  BY <1>8 DEF Fail
<1>9. CASE Again
  BY <1>9 DEF Again
<1>10. CASE Plug /\ UNCHANGED <<pc, call, wakeAt>>
  <2>1. CASE PlugExecutes
    BY <2>1, <1>10 DEF PlugExecutes, Switch
  <2>2. CASE PlugRefuses \/ RequestLost
    BY <2>2, <1>10 DEF PlugRefuses, RequestLost
  <2>3. CASE ButtonPressed
    BY <2>3, <1>10 DEF ButtonPressed, Switch
  <2>4. ASSUME NEW v \in Switches, StrayExecuted(v) PROVE TypeOK'
    <3>1. strays' \in [Switches -> 0..MaxStrays]
      BY <2>4 DEF StrayExecuted
    <3> QED BY <2>4, <3>1, <1>10 DEF StrayExecuted, Switch
  <2> QED BY <2>1, <2>2, <2>3, <2>4, <1>10 DEF Plug
<1>11. CASE Tick /\ UNCHANGED <<pc, call, wakeAt>>
  BY <1>11 DEF Tick
<1>12. CASE UNCHANGED vars
  BY <1>12 DEF vars
<1> QED
  BY <1>1, <1>3, <1>4, <1>5, <1>6, <1>7, <1>8, <1>9, <1>10, <1>11, <1>12
  DEF Next, Step

\* An acknowledged request is one that the plug has executed.
LEMMA AcknowledgedExecuted == Acknowledged => request = "executed"
BY DEF Acknowledged, MayAnswer, Accepts

\* Every step of the plug and the clock keeps the invariant.
LEMMA PlugKeeps ==
  Inv /\ (Plug \/ Tick) /\ UNCHANGED <<pc, call, wakeAt>>
    => CallInv' /\ RelayInv' /\ DarkInv'
<1> SUFFICES ASSUME Inv, UNCHANGED <<pc, call, wakeAt>>, Plug \/ Tick
             PROVE  CallInv' /\ RelayInv' /\ DarkInv'
  OBVIOUS
<1> USE DarkTimeAssumption, MerossAssumption
    DEF Inv, TypeOK, MerossTypeOK, CallInv, RelayInv, DarkInv, call, plug, client
<1>m. asked \in Nat /\ Minimum \in Nat /\ Minimum' = Minimum
  BY MinimumNat DEF Minimum, OrDefault
<1>1. CASE PlugExecutes
  BY <1>1, <1>m DEF PlugExecutes, Switch
<1>2. CASE PlugRefuses \/ RequestLost
  BY <1>2, <1>m DEF PlugRefuses, RequestLost
<1>3. CASE ButtonPressed
  BY <1>3, <1>m DEF ButtonPressed, Switch
<1>4. ASSUME NEW v \in Switches, StrayExecuted(v)
      PROVE  CallInv' /\ RelayInv' /\ DarkInv'
  BY <1>4, <1>m DEF StrayExecuted, Switch
<1>5. CASE Tick
  BY <1>5, <1>m DEF Tick
<1> QED BY <1>1, <1>2, <1>3, <1>4, <1>5 DEF Plug

\* Every step of the caller keeps it.
LEMMA StepKeeps == Inv /\ Step => CallInv' /\ RelayInv' /\ DarkInv'
<1> SUFFICES ASSUME Inv, Step PROVE CallInv' /\ RelayInv' /\ DarkInv'
  OBVIOUS
<1> USE DarkTimeAssumption, MerossAssumption
    DEF Inv, TypeOK, MerossTypeOK, CallInv, RelayInv, DarkInv, call, plug, client, meross
<1>m. asked \in Nat /\ Minimum \in Nat
  BY MinimumNat
<1>k. UNCHANGED asked => Minimum' = Minimum
  BY DEF Minimum, OrDefault
<1>1. CASE CutPower
  BY <1>1, <1>m, <1>k DEF CutPower, Send, Begins
<1>2. CASE PowerUp
  BY <1>2, <1>m, <1>k DEF PowerUp, Send, Begins
<1>3. CASE CutAcknowledged
  BY <1>3, <1>m, <1>k, AcknowledgedExecuted
  DEF CutAcknowledged, Acknowledged, CallEnds, WholeSleep, Minimum
<1>4. CASE WorkDone
  BY <1>4, <1>m, <1>k DEF WorkDone, TopUp
<1>5. CASE Wake
  BY <1>5, <1>m, <1>k DEF Wake, Send
<1>6. CASE PowerAcknowledged
  BY <1>6, <1>m, <1>k, AcknowledgedExecuted DEF PowerAcknowledged, Acknowledged, CallEnds
<1>7. CASE PowerFails
  BY <1>7, <1>m, <1>k DEF PowerFails, SetPowerFails, Rejected, TransportFails, CallEnds
<1>8. CASE Fail
  BY <1>8, <1>m, <1>k DEF Fail
<1>9. CASE Again
  BY <1>9 DEF Again
<1> QED BY <1>1, <1>2, <1>3, <1>4, <1>5, <1>6, <1>7, <1>8, <1>9 DEF Step

\* Every step keeps the invariant.
LEMMA InvNext == Inv /\ [Next]_vars => Inv'
<1> SUFFICES ASSUME Inv, [Next]_vars PROVE Inv'
  OBVIOUS
<1>1. TypeOK'
  BY TypeNext DEF Inv
<1>2. CASE Step
  BY <1>1, <1>2, StepKeeps DEF Inv
<1>3. CASE (Plug \/ Tick) /\ UNCHANGED <<pc, call, wakeAt>>
  BY <1>1, <1>3, PlugKeeps DEF Inv
<1>4. CASE UNCHANGED vars
  BY <1>1, <1>4
  DEF vars, meross, plug, client, call, Inv, CallInv, RelayInv, DarkInv, Minimum, OrDefault
<1> QED BY <1>2, <1>3, <1>4 DEF Next

\* The relay is closed by the call's own request only when that is executed, which
\* the caller sends when its dark time is over.
LEMMA DarkStep ==
  Inv /\ [Next]_vars /\ PoweredUp /\ ~meddled' =>
    /\ caller = "cycle" => now - cutAt >= Minimum
    /\ caller = "flash" => now - cutAt >= asked - Timeout
<1> SUFFICES ASSUME Inv, Next, PoweredUp, ~meddled'
             PROVE  /\ caller = "cycle" => now - cutAt >= Minimum
                    /\ caller = "flash" => now - cutAt >= asked - Timeout
  BY DEF PoweredUp, vars, meross, plug
<1>1. ~Step
  BY DEF PoweredUp, Step, CutPower, PowerUp, Begins, CutAcknowledged, Acknowledged,
         CallEnds, WorkDone, Wake, PowerAcknowledged, PowerFails, SetPowerFails,
         Rejected, TransportFails, Fail, Again, meross, plug
<1>2. PlugExecutes
  BY <1>1 DEF PoweredUp, Next, Plug, Tick, PlugRefuses, RequestLost, ButtonPressed,
              StrayExecuted, plug
<1>3. onoff = "on" /\ request = "flying" /\ meddled' = meddled
  BY <1>2 DEF PlugExecutes, Switch, PoweredUp
<1>4. pc = "closing"
  BY <1>3 DEF Inv, CallInv
<1> QED
  BY <1>3, <1>4, MinimumNat, MerossAssumption
  DEF Inv, TypeOK, MerossTypeOK, DarkInv, PoweredUp

\* Every variable of the clock, the plug, its client and the call keeps its type.
THEOREM TypeCorrect == Spec => []TypeOK
<1>1. Inv => TypeOK
  BY DEF Inv
<1> QED BY <1>1, InvInit, InvNext, PTL DEF Spec

\* Where SetPower has returned nil, the relay is as it was asked to be, unless
\* somebody else switched it: no answer but that of a request executed is taken
\* for an acknowledgement.
THEOREM NilIsSwitched == Spec => []NilMeansSwitched
<1>1. Inv => NilMeansSwitched
  BY DEF Inv, RelayInv, NilMeansSwitched
<1> QED BY <1>1, InvInit, InvNext, PTL DEF Spec

\* PowerCycle never powers a board up before its minimum dark time, the default
\* when it was given none, and FlashAndBoot by no more than the plug's timeout
\* before it.
THEOREM StaysDark == Spec => DarkLongEnough
<1>1. Inv /\ [Next]_vars
        => [PoweredUp /\ ~meddled' =>
              /\ caller = "cycle" => now - cutAt >= IF asked = 0 THEN DefaultMin ELSE asked
              /\ caller = "flash" => now - cutAt >= asked - Timeout]_vars
  BY DarkStep DEF Minimum, OrDefault
<1> QED BY <1>1, InvInit, InvNext, PTL DEF Spec, DarkLongEnough
=============================================================================
