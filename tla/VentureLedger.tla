--------------------------- MODULE VentureLedger ---------------------------
(***************************************************************************)
(* What the venture registry promises, with no request, no network and no  *)
(* read-then-write window: each venture is a register that is created at   *)
(* version 1, moves through versions one at a time under one owner, and    *)
(* stops for good when it is deleted.  Every state a venture has been in   *)
(* is kept, and only such a state can be announced on the bus.             *)
(***************************************************************************)
EXTENDS Naturals

CONSTANTS Ventures, Owners, Manifests, None

VARIABLES
  current,    \* [Ventures -> the present state of each venture]
  past,       \* every state any venture has been in since its creation
  announced   \* the states an event has been published for

vars == <<current, past, announced>>

Absent(v) == [ventureId |-> v, ownerId |-> None, status |-> "absent",
              version |-> 0, manifest |-> None]

Init ==
  /\ current = [v \in Ventures |-> Absent(v)]
  /\ past = {}
  /\ announced = {}

Advance(v, state) ==
  /\ current' = [current EXCEPT ![v] = state]
  /\ past' = past \union {state}
  /\ UNCHANGED announced

Create(v) ==
  /\ current[v].status = "absent"
  /\ \E o \in Owners, m \in Manifests :
       Advance(v, [ventureId |-> v, ownerId |-> o, status |-> "active",
                   version |-> 1, manifest |-> m])

Revision(state, status, manifest) ==
  [ventureId |-> state.ventureId, ownerId |-> state.ownerId, status |-> status,
   version |-> state.version + 1, manifest |-> manifest]

Rewrite(v) ==
  /\ current[v].status = "active"
  /\ \E m \in Manifests : Advance(v, Revision(current[v], "active", m))

Delete(v) ==
  /\ current[v].status = "active"
  /\ Advance(v, Revision(current[v], "deleted", current[v].manifest))

Announce ==
  /\ \E state \in past : announced' = announced \union {state}
  /\ UNCHANGED <<current, past>>

Next ==
  \/ \E v \in Ventures : Create(v) \/ Rewrite(v) \/ Delete(v)
  \/ Announce

Spec == Init /\ [][Next]_vars
============================================================================
