--------------------------- MODULE IdeaCatalogue ---------------------------
(***************************************************************************)
(* What the registry of ideas promises, with no file, no cell and no await *)
(* between a look at a record and its change: a set of ideas, at most one  *)
(* to a name, each made by one request and changed one step at a time.  A  *)
(* request that adds, removes or records something does so once, in the    *)
(* step in which it is settled, and one that is not settled did nothing.   *)
(***************************************************************************)
CONSTANTS Names, Requests, None

VARIABLES
  ideas,    \* the ideas there are
  settled   \* the operations that have had their effect: request, kind, name
            \* (edits are not counted)

vars == <<ideas, settled>>

Named(n) == {i \in ideas : i.name = n}

Settlers == {s.by : s \in settled}

Init ==
  /\ \A i, j \in ideas : i.name = j.name => i = j
  /\ \A i \in ideas : i.by = None /\ \A entry \in i.iterations : entry.by = None
  /\ settled = {}

Settle(r, op, n) ==
  /\ r \notin Settlers
  /\ settled' = settled \union {[by |-> r, op |-> op, name |-> n]}

\* A new idea has a free name and no snapshots; the timeline of a fork consists
\* of entries that were recorded before.
Add(r) ==
  \E op \in {"create", "fork"}, new \in ideas' :
    /\ Named(new.name) = {}
    /\ new.by = r /\ new.snapshots = {}
    /\ op = "create" => new.iterations = {}
    /\ \A entry \in new.iterations : entry.by \in Settlers \union {None}
    /\ ideas' = ideas \union {new}
    /\ Settle(r, op, new.name)

\* A removal leaves no idea of the name; there need not have been one.
Remove(r) ==
  \E n \in Names :
    /\ ideas' = ideas \ Named(n)
    /\ Settle(r, "delete", n)

Change(old, new) == ideas' = (ideas \ {old}) \union {new}

Edit ==
  /\ \E old \in ideas, new \in ideas' :
       /\ new = [old EXCEPT !.text = new.text]
       /\ Change(old, new)
  /\ UNCHANGED settled

RecordSnapshot(r) ==
  \E old \in ideas, new \in ideas' : \E shot \in new.snapshots :
    /\ shot.by = r
    /\ new = [old EXCEPT !.snapshots = @ \union {shot}]
    /\ Change(old, new)
    /\ Settle(r, "snapshot", old.name)

\* A build begins the timeline again; an improvement extends it.
Ship(r) ==
  \E old \in ideas, new \in ideas' : \E entry \in new.iterations :
    /\ entry.by = r
    /\ new = [old EXCEPT !.iterations = new.iterations]
    /\ Change(old, new)
    /\ \/ new.iterations = {entry} /\ Settle(r, "build", old.name)
       \/ new.iterations = old.iterations \union {entry} /\ Settle(r, "improve", old.name)

\* Whatever is done, is done by the request that is settled in the same step.
Next ==
  \/ \E r \in Requests \intersect (Settlers' \ Settlers) :
       Add(r) \/ Remove(r) \/ RecordSnapshot(r) \/ Ship(r)
  \/ Edit

Spec == Init /\ [][Next]_vars
============================================================================
