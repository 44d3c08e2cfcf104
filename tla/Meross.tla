------------------------------- MODULE Meross -------------------------------
(***************************************************************************)
(* SetPower of the Meross client (power/meross): one request to the plug   *)
(* that switches the target board's mains, its answer, and what the caller *)
(* is told.  A request may be lost, refused, executed with its answer lost *)
(* or unreadable, or be abandoned by a client that timed out and executed  *)
(* by the plug after all, when other requests have followed it.  Anybody   *)
(* may switch the plug by its button.                                      *)
(*                                                                         *)
(* The actions are the client's and the plug's; who calls SetPower, and    *)
(* when, is for the modules that extend this one.  Time is counted in      *)
(* ticks.                                                                  *)
(***************************************************************************)
EXTENDS Integers

CONSTANTS
  Timeout,    \* WithTimeout, or DefaultTimeout
  MaxStrays,  \* bound: abandoned requests of either kind that the plug still has
  MaxPresses, \* bound: times the plug is switched by its button
  MaxTime     \* bound: ticks

ASSUME MerossAssumption ==
  /\ Timeout \in Nat
  /\ MaxStrays \in Nat
  /\ MaxPresses \in Nat
  /\ MaxTime \in Nat

VARIABLES
  now,      \* the clock
  relay,    \* the board's supply: "on" or "off"
  cutAt,    \* history: when the relay last opened
  presses,  \* how often the button was pressed
  request,  \* the request in progress, "none" if there is none
  onoff,    \* what it asks for
  sentAt,   \* when it was sent, zero if there is none
  strays,   \* strays[v]: abandoned requests for v that the plug may yet execute
  meddled   \* history: the relay was switched by none of the present call's requests

plug   == <<relay, cutAt, presses>>
client == <<request, onoff, sentAt>>
meross == <<now, plug, client, strays, meddled>>

Switches == {"on", "off"}

Requests == {"none", "flying", "lost", "executed", "refused"}

MerossInit ==
  /\ now = 0
  /\ relay \in Switches
  /\ cutAt = 0
  /\ presses = 0
  /\ request = "none"
  /\ onoff = "off"
  /\ sentAt = 0
  /\ strays = [v \in Switches |-> 0]
  /\ meddled = FALSE

---------------------------------------------------------------------------
(* The plug.                                                               *)

Switch(v) ==
  /\ relay' = v
  /\ cutAt' = IF relay = "on" /\ v = "off" THEN now ELSE cutAt

PlugExecutes ==
  /\ request = "flying"
  /\ request' = "executed"
  /\ Switch(onoff)
  /\ UNCHANGED <<now, presses, onoff, sentAt, strays, meddled>>

\* A wrong signature, a channel it does not have.
PlugRefuses ==
  /\ request = "flying"
  /\ request' = "refused"
  /\ UNCHANGED <<now, plug, onoff, sentAt, strays, meddled>>

RequestLost ==
  /\ request = "flying"
  /\ request' = "lost"
  /\ UNCHANGED <<now, plug, onoff, sentAt, strays, meddled>>

\* An abandoned request is executed after all.
StrayExecuted(v) ==
  /\ strays[v] > 0
  /\ strays' = [strays EXCEPT ![v] = @ - 1]
  /\ Switch(v)
  /\ meddled' = TRUE
  /\ UNCHANGED <<now, presses, client>>

ButtonPressed ==
  /\ presses < MaxPresses
  /\ presses' = presses + 1
  /\ \E v \in Switches \ {relay} : Switch(v)
  /\ meddled' = TRUE
  /\ UNCHANGED <<now, client, strays>>

Plug ==
  \/ PlugExecutes \/ PlugRefuses \/ RequestLost \/ ButtonPressed
  \/ \E v \in Switches : StrayExecuted(v)

\* Time passes; a call is over when its timeout is.
Tick ==
  /\ now < MaxTime
  /\ request # "none" => now < sentAt + Timeout
  /\ now' = now + 1
  /\ UNCHANGED <<plug, client, strays, meddled>>

---------------------------------------------------------------------------
(* The client: SetPower and do.                                            *)

Send(v) ==
  /\ request = "none"
  /\ request' = "flying"
  /\ onoff' = v
  /\ sentAt' = now

Replies ==
  [status : {"200", "other"}, body : {"json", "garbled"}, method : {"SETACK", "ERROR"}]

\* What can come back: the plug acknowledges what it has executed.
MayAnswer(r) ==
  /\ request \in {"executed", "refused"}
  /\ r.method = "SETACK" => request = "executed"

AcceptsAnyJSON(r) == r.status = "200" /\ r.body = "json"

\* do: status 200, JSON that decodes, and the method's ACK.
Accepts(r) == r.status = "200" /\ r.body = "json" /\ r.method = "SETACK"

\* The call is over; its request is remembered for what it asked.
CallEnds ==
  /\ request' = "none"
  /\ sentAt' = 0
  /\ UNCHANGED <<now, plug, onoff, meddled>>

\* SetPower returns nil.
Acknowledged ==
  /\ \E r \in Replies : MayAnswer(r) /\ Accepts(r)
  /\ CallEnds
  /\ UNCHANGED strays

Rejected ==
  /\ \E r \in Replies : MayAnswer(r) /\ ~Accepts(r)
  /\ CallEnds
  /\ UNCHANGED strays

\* The connection fails, or the context's deadline passes; the plug may have
\* the request all the same.
TransportFails ==
  /\ request # "none"
  /\ CallEnds
  /\ \/ UNCHANGED strays
     \/ /\ request = "flying"
        /\ strays[onoff] < MaxStrays
        /\ strays' = [strays EXCEPT ![onoff] = @ + 1]

\* SetPower returns an error.
SetPowerFails == Rejected \/ TransportFails

---------------------------------------------------------------------------
MerossTypeOK ==
  /\ now \in Nat
  /\ relay \in Switches
  /\ cutAt \in 0..now
  /\ presses \in 0..MaxPresses
  /\ request \in Requests
  /\ onoff \in Switches
  /\ sentAt \in 0..now
  /\ strays \in [Switches -> 0..MaxStrays]
  /\ meddled \in BOOLEAN
=============================================================================
