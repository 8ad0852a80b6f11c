------------------------------ MODULE DeviceStore ------------------------------
(***************************************************************************)
(* What the write-back of service/device_service.py promises to those who  *)
(* use a Device, with no callers, requests or snapshots: two copies of     *)
(* each Device that part by one proposed change at a time, which is then   *)
(* either confirmed in the second copy as it was seen in the first, or     *)
(* withdrawn without a trace.  Nothing is promised of a Device that is     *)
(* lost: calls on it have overlapped, a request has timed out, or a        *)
(* refusal has gone unnoticed.                                             *)
(***************************************************************************)

CONSTANTS
  Device,     \* names of Devices
  Entry       \* what can stand under a name, "no Device" included

VARIABLES
  view,       \* what the service shows to the driver and the application
  held,       \* what Core Metadata holds
  lost        \* Devices about which nothing is promised any more

storeVars == <<view, held, lost>>

Kept == Device \ lost

Init ==
  /\ held \in [Device -> Entry]
  /\ view = held
  /\ lost = {}

\* A change of an unchanged Device becomes visible, whole.
Propose(d, e) ==
  /\ view[d] = held[d]
  /\ view' = [view EXCEPT ![d] = e]
  /\ UNCHANGED <<held, lost>>

\* What was seen is what is stored.
Confirm(d) ==
  /\ held' = [held EXCEPT ![d] = view[d]]
  /\ UNCHANGED <<view, lost>>

\* What was seen never happened.
Withdraw(d) ==
  /\ view' = [view EXCEPT ![d] = held[d]]
  /\ UNCHANGED <<held, lost>>

Lose(d) ==
  /\ lost' = lost \union {d}
  /\ UNCHANGED <<view, held>>

Stray(d, e, f) ==
  /\ view' = [view EXCEPT ![d] = e]
  /\ held' = [held EXCEPT ![d] = f]
  /\ UNCHANGED lost

Next ==
  \/ \E d \in Kept : Confirm(d) \/ Withdraw(d) \/ \E e \in Entry : Propose(d, e)
  \/ \E d \in Device : Lose(d)
  \/ \E d \in lost : \E e, f \in Entry : Stray(d, e, f)

Spec == Init /\ [][Next]_storeVars
=============================================================================
