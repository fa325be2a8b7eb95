------------------------- MODULE AutoImproveProofs --------------------------
(***************************************************************************)
(* Proofs about AutoImprove, for any number of runs, toggles, looks and    *)
(* iterations.  Three invariants carry them: every copy of the timeline is *)
(* a line of versions that was shipped by now; a slot is a wake or a run,  *)
(* never both, and only finitely many are either; and a look that no other *)
(* one has overtaken holds a timeline no older than the registry's.        *)
(***************************************************************************)
EXTENDS AutoImprove, FiniteSetTheorems, TLAPS

Iteration == [v : Nat, at : Nat]

Run ==
  [pc : {"idle", "preamble", "work", "record", "decide", "schedule"}, self : BOOLEAN,
   kind : {"build", "improve"}, seen : Seq(Iteration)]

Toggle == [pc : {"idle", "set", "kick"}, auto : {"on", "off"}, base : Seq(Iteration)]

Look == [pc : {"idle", "read", "adopt"}, seen : Seq(Iteration), passed : BOOLEAN]

Typed ==
  /\ auto \in {"on", "off"} /\ ships \in 0..MaxShips /\ wakes \subseteq Runs
  /\ timeline \in Seq(Iteration) /\ registry \in Seq(Iteration)
  /\ run \in [Runs -> Run] /\ toggle \in [Toggles -> Toggle] /\ look \in [Looks -> Look]

\* IsLine, with the number of iterations shipped as a parameter.
LineBy(t, n) ==
  /\ \A i \in 1..Len(t) : t[i].v = i /\ t[i].at \in 1..n
  /\ \A i, j \in 1..Len(t) : i < j => t[i].at < t[j].at

Lines ==
  /\ LineBy(timeline, ships) /\ LineBy(registry, ships)
  /\ \A r \in Runs : LineBy(run[r].seen, ships)
  /\ \A t \in Toggles : LineBy(toggle[t].base, ships)
  /\ \A l \in Looks : LineBy(look[l].seen, ships)

\* The slots that are a wake or a run.
Active == wakes \cup {r \in Runs : run[r].pc # "idle"}

Slots == IsFiniteSet(Active) /\ \A r \in wakes : run[r].pc = "idle"

\* The newest iteration of the cell is the last one shipped.
Fresh ==
  /\ Newest(timeline) = ships
  /\ \A l \in Looks :
        look[l].pc = "adopt" /\ ~look[l].passed => Newest(registry) <= Newest(look[l].seen)

IInv == Typed /\ Lines /\ Slots /\ Fresh
-----------------------------------------------------------------------------
(* Lines of versions *)

LEMMA LineGrows ==
  ASSUME NEW t, NEW m \in Nat, NEW n \in Nat, m <= n, LineBy(t, m)
  PROVE  LineBy(t, n)
<1>1. 1..m \subseteq 1..n
  OBVIOUS
<1> QED BY <1>1 DEF LineBy

LEMMA EmptyLine == <<>> \in Seq(Iteration) /\ (\A n : LineBy(<<>>, n)) /\ Newest(<<>>) = 0
<1>1. <<>> \in Seq(Iteration) /\ Newest(<<>>) = 0
  BY DEF Newest
<1>2. 1..Len(<<>>) = {}
  OBVIOUS
<1> QED BY <1>1, <1>2 DEF LineBy

LEMMA NewestIs ==
  ASSUME NEW t \in Seq(Iteration), NEW n \in Nat, LineBy(t, n)
  PROVE  Newest(t) \in 0..n /\ (t # <<>> => Newest(t) = t[Len(t)].at)
<1>1. CASE t = <<>>
  BY <1>1 DEF Newest
<1>2. CASE t # <<>>
  <2>1. Len(t) \in 1..Len(t)
    BY <1>2
  <2>2. Newest(t) = t[Len(t)].at
    BY <1>2 DEF Newest, Last
  <2>3. t[Len(t)].at \in 1..n
    BY <2>1 DEF LineBy
  <2> QED BY <2>2, <2>3
<1> QED BY <1>1, <1>2

\* What a run ships is a line again, and its last entry is the newest.
LEMMA ShippedIsLine ==
  ASSUME NEW kind, NEW seen \in Seq(Iteration), NEW n \in Nat, LineBy(seen, n)
  PROVE  LET t == Shipped(kind, seen, n + 1) IN
         t \in Seq(Iteration) /\ LineBy(t, n + 1) /\ Newest(t) = n + 1
<1> DEFINE v == IF seen = <<>> THEN 1 ELSE Last(seen).v + 1
           entry(k) == [v |-> k, at |-> n + 1]
           t == Shipped(kind, seen, n + 1)
<1>1. CASE kind = "build"
  <2>1. t = <<entry(1)>>
    BY <1>1 DEF Shipped
  <2>2. entry(1) \in Iteration
    BY DEF Iteration
  <2> HIDE DEF t
  <2>3. t \in Seq(Iteration) /\ Len(t) = 1 /\ t # <<>> /\ t[1] = entry(1)
    BY <2>1, <2>2
  <2>4. LineBy(t, n + 1)
    BY <2>3 DEF LineBy
  <2>5. Newest(t) = n + 1
    BY <2>3 DEF Newest, Last
  <2> QED BY <2>3, <2>4, <2>5 DEF t
<1>2. CASE kind # "build"
  <2>1. t = Append(seen, entry(v))
    BY <1>2 DEF Shipped
  <2>2. Len(seen) \in Nat /\ v = Len(seen) + 1
    <3>1. CASE seen = <<>>
      BY <3>1
    <3>2. CASE seen # <<>>
      <4>1. Len(seen) \in 1..Len(seen) /\ Last(seen) = seen[Len(seen)]
        BY <3>2 DEF Last
      <4> QED BY <3>2, <4>1 DEF LineBy
    <3> QED BY <3>1, <3>2
  <2> HIDE DEF v
  <2>3. entry(v) \in Iteration /\ entry(v).v = v /\ entry(v).at = n + 1
    BY <2>2 DEF Iteration
  <2> HIDE DEF t, entry
  <2>4. /\ t \in Seq(Iteration) /\ t # <<>> /\ Len(t) = Len(seen) + 1
        /\ \A i \in 1..Len(seen) : t[i] = seen[i]
        /\ t[Len(seen) + 1] = entry(v)
    BY <2>1, <2>3
  <2>5. ASSUME NEW i \in 1..Len(t) PROVE t[i].v = i /\ t[i].at \in 1..(n + 1)
    <3>1. CASE i \in 1..Len(seen)
      <4>1. t[i] = seen[i] /\ seen[i].v = i /\ seen[i].at \in 1..n
        BY <2>4, <3>1 DEF LineBy
      <4> QED BY <4>1
    <3>2. CASE i = Len(seen) + 1
      BY <2>2, <2>3, <2>4, <3>2
    <3> QED BY <2>2, <2>4, <3>1, <3>2
  <2>6. ASSUME NEW i \in 1..Len(t), NEW j \in 1..Len(t), i < j PROVE t[i].at < t[j].at
    <3>1. i \in 1..Len(seen) /\ t[i] = seen[i] /\ seen[i].at \in 1..n
      BY <2>2, <2>4, <2>6 DEF LineBy
    <3>2. CASE j \in 1..Len(seen)
      BY <2>4, <2>6, <3>1, <3>2 DEF LineBy
    <3>3. CASE j = Len(seen) + 1
      BY <2>3, <2>4, <3>1, <3>3
    <3> QED BY <2>2, <2>4, <3>2, <3>3
  <2>7. Newest(t) = n + 1
    <3>1. Newest(t) = t[Len(seen) + 1].at
      BY <2>4 DEF Newest, Last
    <3> QED BY <2>3, <2>4, <3>1
  <2> QED BY <2>4, <2>5, <2>6, <2>7 DEF LineBy, t
<1> QED BY <1>1, <1>2
-----------------------------------------------------------------------------
(* The actions *)

LEMMA Records ==
  /\ NoRun \in Run /\ NoRun.pc = "idle" /\ NoRun.seen = <<>>
  /\ NoToggle \in Toggle /\ NoToggle.base = <<>>
  /\ NoLook \in Look /\ NoLook.pc = "idle" /\ NoLook.seen = <<>>
<1>1. <<>> \in Seq(Iteration)
  OBVIOUS
<1> QED BY <1>1 DEF NoRun, Run, NoToggle, Toggle, NoLook, Look

LEMMA InitIInv == Init => IInv
<1> SUFFICES ASSUME Init PROVE IInv
  OBVIOUS
<1>1. /\ auto = "off" /\ timeline = <<>> /\ ships = 0 /\ wakes = {} /\ registry = <<>>
      /\ run = [r \in Runs |-> NoRun] /\ toggle = [t \in Toggles |-> NoToggle]
      /\ look = [l \in Looks |-> NoLook]
  BY DEF Init
<1>2. Typed
  BY <1>1, Records, EmptyLine, AutoImproveAssumption DEF Typed
<1>3. Lines
  BY <1>1, Records, EmptyLine DEF Lines
<1>4. Slots
  <2>1. Active = {}
    BY <1>1, Records DEF Active
  <2> QED BY <1>1, <2>1, FS_EmptySet DEF Slots
<1>5. Fresh
  BY <1>1, Records, EmptyLine DEF Fresh
<1> QED BY <1>2, <1>3, <1>4, <1>5 DEF IInv

\* A step of one slot: what it leaves of the invariant, and of who is active.
LEMMA SlotStep ==
  ASSUME IInv, NEW r \in Runs, NEW k \in Run, run' = [run EXCEPT ![r] = k],
         LineBy(k.seen, ships'), ships' \in Nat, ships <= ships',
         wakes' \subseteq wakes \cup {r}, r \in wakes' => k.pc = "idle"
  PROVE  /\ run' \in [Runs -> Run] /\ wakes' \subseteq Runs /\ Slots'
         /\ \A s \in Runs : LineBy(run'[s].seen, ships')
         /\ Active' \subseteq Active \cup {r}
<1>1. /\ run \in [Runs -> Run] /\ wakes \subseteq Runs /\ ships \in Nat
      /\ IsFiniteSet(Active) /\ \A s \in wakes : run[s].pc = "idle"
      /\ \A s \in Runs : LineBy(run[s].seen, ships)
  BY AutoImproveAssumption DEF IInv, Typed, Lines, Slots
<1>2. /\ run' \in [Runs -> Run] /\ run'[r] = k
      /\ \A s \in Runs : s # r => run'[s] = run[s]
  BY <1>1
<1>3. Active' \subseteq Active \cup {r}
  BY <1>2 DEF Active
<1>4. Slots'
  <2>1. IsFiniteSet(Active')
    BY <1>1, <1>3, FS_AddElement, FS_Subset
  <2> QED BY <1>1, <1>2, <2>1 DEF Slots
<1>5. \A s \in Runs : LineBy(run'[s].seen, ships')
  BY <1>1, <1>2, LineGrows
<1> QED BY <1>1, <1>2, <1>3, <1>4, <1>5

\* The same, for a step that changes the slots alone.
LEMMA SlotAlone ==
  ASSUME IInv, NEW r \in Runs, NEW k \in Run, run' = [run EXCEPT ![r] = k],
         LineBy(k.seen, ships), wakes' \subseteq wakes \cup {r}, r \in wakes' => k.pc = "idle",
         UNCHANGED <<auto, timeline, ships, toggle, registry, look>>
  PROVE  IInv' /\ Active' \subseteq Active \cup {r}
<1>1. ships' \in Nat /\ ships <= ships' /\ LineBy(k.seen, ships')
  BY AutoImproveAssumption DEF IInv, Typed
<1>2. /\ run' \in [Runs -> Run] /\ wakes' \subseteq Runs /\ Slots'
      /\ \A s \in Runs : LineBy(run'[s].seen, ships')
      /\ Active' \subseteq Active \cup {r}
  BY <1>1, SlotStep
<1>3. Typed' /\ Lines' /\ Fresh'
  BY <1>2 DEF IInv, Typed, Lines, Fresh, Newest
<1> QED BY <1>2, <1>3 DEF IInv

LEMMA StartedIs ==
  ASSUME NEW r \in Runs, NEW kind \in {"build", "improve"}, NEW self \in BOOLEAN
  PROVE  \E k \in Run :
            /\ Started(r, kind, self) = [run EXCEPT ![r] = k] /\ k.seen = <<>>
            /\ ~self => ~k.self
            /\ k.pc = IF self THEN "preamble" ELSE "work"
<1> DEFINE k == [NoRun EXCEPT !.pc = IF self THEN "preamble" ELSE "work",
                              !.kind = kind, !.self = self]
<1>1. k \in Run /\ k.seen = <<>> /\ k.self = self /\ k.pc = (IF self THEN "preamble" ELSE "work")
  BY Records DEF Run
<1>2. Started(r, kind, self) = [run EXCEPT ![r] = k]
  BY DEF Started
<1> HIDE DEF k
<1> QED BY <1>1, <1>2

\* A run that no other run left behind begins.
Added == \E r \in Runs : run[r].pc = "idle" /\ run'[r].pc = "work" /\ ~run'[r].self

LEMMA StartsInFreeSlot ==
  ASSUME IInv, NEW r \in Free, NEW kind \in {"build", "improve"},
         run' = Started(r, kind, FALSE),
         UNCHANGED <<auto, timeline, ships, wakes, registry, look>>
  PROVE  /\ run' \in [Runs -> Run] /\ Slots' /\ Added
         /\ \A s \in Runs : LineBy(run'[s].seen, ships')
<1>1. /\ r \in Runs /\ run[r].pc = "idle" /\ r \notin wakes /\ run \in [Runs -> Run]
      /\ ships \in Nat /\ ships' = ships
  BY AutoImproveAssumption DEF Free, IInv, Typed
<1>2. PICK k \in Run : run' = [run EXCEPT ![r] = k] /\ k.seen = <<>> /\ ~k.self /\ k.pc = "work"
  <2>1. \A self \in BOOLEAN : \E k \in Run :
            /\ Started(r, kind, self) = [run EXCEPT ![r] = k] /\ k.seen = <<>>
            /\ ~self => ~k.self
            /\ k.pc = IF self THEN "preamble" ELSE "work"
    BY <1>1, StartedIs
  <2>2. \E k \in Run :
            /\ Started(r, kind, FALSE) = [run EXCEPT ![r] = k] /\ k.seen = <<>>
            /\ ~k.self /\ k.pc = "work"
    BY <2>1
  <2> QED BY <2>2
<1>3. /\ LineBy(k.seen, ships') /\ ships' \in Nat /\ ships <= ships'
      /\ wakes' \subseteq wakes \cup {r} /\ r \notin wakes'
  <2>1. LineBy(k.seen, ships')
    BY <1>2, EmptyLine
  <2> QED BY <1>1, <2>1
<1>4. run' \in [Runs -> Run] /\ Slots' /\ \A s \in Runs : LineBy(run'[s].seen, ships')
  BY <1>1, <1>2, <1>3, SlotStep
<1>5. Added
  BY <1>1, <1>2 DEF Added
<1> QED BY <1>4, <1>5

LEMMA InvokeIInv ==
  ASSUME IInv, NEW r \in Runs, NEW kind \in {"build", "improve"}, Invoke(r, kind)
  PROVE  IInv' /\ Added
<1>1. /\ r \in Free /\ run' = Started(r, kind, FALSE)
      /\ UNCHANGED <<auto, timeline, ships, wakes, toggle, registry, look>>
  BY DEF Invoke
<1>2. /\ run' \in [Runs -> Run] /\ Slots' /\ Added
      /\ \A s \in Runs : LineBy(run'[s].seen, ships')
  BY <1>1, StartsInFreeSlot
<1>3. Typed' /\ Lines' /\ Fresh'
  BY <1>1, <1>2 DEF IInv, Typed, Lines, Fresh, Newest
<1> QED BY <1>2, <1>3 DEF IInv

LEMMA WakeIInv ==
  ASSUME IInv, NEW r \in Runs, Wake(r)
  PROVE  IInv' /\ Active' \subseteq Active
<1>1. /\ r \in wakes /\ wakes' = wakes \ {r} /\ run' = Started(r, "improve", TRUE)
      /\ UNCHANGED <<auto, timeline, ships, toggle, registry, look>>
  BY DEF Wake
<1>2. PICK k \in Run : run' = [run EXCEPT ![r] = k] /\ k.seen = <<>>
  BY <1>1, StartedIs
<1>3. IInv' /\ Active' \subseteq Active \cup {r}
  BY <1>1, <1>2, EmptyLine, SlotAlone
<1> QED BY <1>1, <1>3 DEF Active

\* The steps of a run that touch nothing but its slot.
LEMMA RunIInv ==
  ASSUME IInv, NEW r \in Runs,
         Preamble(r) \/ ReadTimeline(r) \/ Decide(r) \/ Schedule(r) \/ Fail(r)
  PROVE  IInv' /\ Active' \subseteq Active
<1>1. /\ run \in [Runs -> Run] /\ run[r] \in Run /\ run[r].pc # "idle" /\ r \notin wakes
      /\ r \in Active /\ LineBy(run[r].seen, ships) /\ LineBy(timeline, ships)
      /\ timeline \in Seq(Iteration)
      /\ UNCHANGED <<auto, timeline, ships, toggle, registry, look>>
  BY DEF Preamble, ReadTimeline, Decide, Schedule, Fail, IInv, Typed, Lines, Slots, Active
<1>2. wakes' \subseteq wakes \cup {r}
  BY DEF Preamble, ReadTimeline, Decide, Schedule, Fail
<1>3. r \in wakes' => End(r)
  BY <1>1 DEF Preamble, ReadTimeline, Decide, Schedule, Fail
<1>4. \E k \in Run : /\ run' = [run EXCEPT ![r] = k] /\ LineBy(k.seen, ships)
                     /\ r \in wakes' => k.pc = "idle"
  <2>1. CASE End(r)
    <3>1. run' = [run EXCEPT ![r] = NoRun]
      BY <2>1 DEF End
    <3> QED BY <3>1, Records, EmptyLine
  <2>2. ASSUME NEW pc \in {"work", "schedule"}, run' = [run EXCEPT ![r].pc = pc], r \notin wakes'
        PROVE  \E k \in Run : run' = [run EXCEPT ![r] = k] /\ LineBy(k.seen, ships)
    <3> DEFINE k == [run[r] EXCEPT !.pc = pc]
    <3>1. run' = [run EXCEPT ![r] = k]
      BY <2>2
    <3>2. k \in Run /\ k.seen = run[r].seen
      BY <1>1 DEF Run
    <3> HIDE DEF k
    <3> QED BY <1>1, <3>1, <3>2
  <2>3. CASE ReadTimeline(r)
    <3> DEFINE k == [run[r] EXCEPT !.pc = "record", !.seen = timeline]
    <3>1. run' = [run EXCEPT ![r] = k] /\ wakes' = wakes
      BY <2>3 DEF ReadTimeline
    <3>2. k \in Run /\ k.seen = timeline
      BY <1>1 DEF Run
    <3> HIDE DEF k
    <3> QED BY <1>1, <3>1, <3>2
  <2>4. CASE Preamble(r) \/ Decide(r)
    <3>1. wakes' = wakes
      BY <2>4 DEF Preamble, Decide
    <3>2. \/ run' = [run EXCEPT ![r].pc = "work"] \/ run' = [run EXCEPT ![r].pc = "schedule"]
          \/ End(r)
      BY <2>4 DEF Preamble, Decide
    <3>3. r \notin wakes'
      BY <1>1, <3>1
    <3>4. CASE run' = [run EXCEPT ![r].pc = "work"]
      BY <2>2, <3>3, <3>4
    <3>5. CASE run' = [run EXCEPT ![r].pc = "schedule"]
      BY <2>2, <3>3, <3>5
    <3> QED BY <2>1, <3>2, <3>4, <3>5
  <2>5. CASE Schedule(r) \/ Fail(r)
    BY <2>1, <2>5 DEF Schedule, Fail
  <2> QED BY <2>3, <2>4, <2>5
<1>5. IInv' /\ Active' \subseteq Active \cup {r}
  BY <1>1, <1>2, <1>4, SlotAlone
<1> QED BY <1>1, <1>5

LEMMA RecordIInv ==
  ASSUME IInv, NEW r \in Runs, Record(r)
  PROVE  IInv' /\ Active' \subseteq Active
<1> DEFINE k == [run[r] EXCEPT !.pc = "decide", !.seen = <<>>]
<1>1. /\ run \in [Runs -> Run] /\ run[r] \in Run /\ run[r].pc = "record" /\ r \notin wakes
      /\ r \in Active /\ LineBy(run[r].seen, ships) /\ run[r].seen \in Seq(Iteration)
      /\ ships \in Nat /\ MaxShips \in Nat
      /\ UNCHANGED <<auto, wakes, toggle, registry, look>>
  BY AutoImproveAssumption DEF Record, IInv, Typed, Lines, Slots, Active, Run
<1>2. run' = [run EXCEPT ![r] = k]
  BY DEF Record
<1>3. k \in Run /\ k.seen = <<>>
  BY <1>1, EmptyLine DEF Run
<1> HIDE DEF k
<1>4. \/ UNCHANGED <<timeline, ships>>
      \/ /\ timeline' = Shipped(run[r].kind, run[r].seen, ships + 1)
         /\ ships' = ships + 1 /\ ships < MaxShips
  BY DEF Record
<1>5. CASE UNCHANGED <<timeline, ships>>
  <2>1. IInv' /\ Active' \subseteq Active \cup {r}
    BY <1>1, <1>2, <1>3, <1>5, EmptyLine, SlotAlone
  <2> QED BY <1>1, <2>1
<1>6. CASE timeline' = Shipped(run[r].kind, run[r].seen, ships + 1) /\ ships' = ships + 1
           /\ ships < MaxShips
  <2>1. ships' \in 0..MaxShips /\ ships' \in Nat /\ ships <= ships'
    BY <1>1, <1>6
  <2>2. timeline' \in Seq(Iteration) /\ LineBy(timeline', ships') /\ Newest(timeline') = ships'
    BY <1>1, <1>6, ShippedIsLine
  <2>3. LineBy(k.seen, ships') /\ wakes' \subseteq wakes \cup {r} /\ r \notin wakes'
    BY <1>1, <1>3, EmptyLine
  <2>4. /\ run' \in [Runs -> Run] /\ wakes' \subseteq Runs /\ Slots'
        /\ \A s \in Runs : LineBy(run'[s].seen, ships')
        /\ Active' \subseteq Active \cup {r}
    BY <1>2, <1>3, <2>1, <2>3, SlotStep
  <2>5. Typed'
    BY <1>1, <2>1, <2>2, <2>4 DEF IInv, Typed
  <2>6. Lines'
    <3>1. /\ LineBy(registry, ships) /\ \A t \in Toggles : LineBy(toggle[t].base, ships)
          /\ \A l \in Looks : LineBy(look[l].seen, ships)
      BY DEF IInv, Lines
    <3>2. /\ LineBy(registry, ships') /\ \A t \in Toggles : LineBy(toggle[t].base, ships')
          /\ \A l \in Looks : LineBy(look[l].seen, ships')
      BY <1>1, <2>1, <3>1, LineGrows
    <3> QED BY <1>1, <2>2, <2>4, <3>2 DEF Lines
  <2>7. Fresh'
    BY <1>1, <2>2 DEF IInv, Fresh, Newest
  <2> QED BY <1>1, <2>4, <2>5, <2>6, <2>7 DEF IInv
<1> QED BY <1>4, <1>5, <1>6

\* A request to the toggle's route: it answers, moves on, or begins with a copy.
LEMMA ToggleStep ==
  ASSUME IInv, NEW t \in Toggles, ToggleNext(t)
  PROVE  /\ toggle' \in [Toggles -> Toggle] /\ auto' \in {"on", "off"}
         /\ \A u \in Toggles : LineBy(toggle'[u].base, ships)
         /\ UNCHANGED <<timeline, ships, wakes, registry, look>>
<1>1. /\ toggle \in [Toggles -> Toggle] /\ toggle[t] \in Toggle /\ auto \in {"on", "off"}
      /\ toggle[t].auto \in {"on", "off"}
      /\ registry \in Seq(Iteration) /\ LineBy(registry, ships)
      /\ \A u \in Toggles : LineBy(toggle[u].base, ships)
  BY DEF IInv, Typed, Lines, Toggle
<1>2. \E k \in Toggle : toggle' = [toggle EXCEPT ![t] = k] /\ LineBy(k.base, ships)
  <2>1. CASE Answered(t)
    <3>1. toggle' = [toggle EXCEPT ![t] = NoToggle]
      BY <2>1 DEF Answered
    <3> QED BY <3>1, Records, EmptyLine
  <2>2. CASE toggle' = [toggle EXCEPT ![t].pc = "kick"]
    <3> DEFINE k == [toggle[t] EXCEPT !.pc = "kick"]
    <3>1. toggle' = [toggle EXCEPT ![t] = k]
      BY <2>2
    <3>2. k \in Toggle /\ k.base = toggle[t].base
      BY <1>1 DEF Toggle
    <3> HIDE DEF k
    <3> QED BY <1>1, <3>1, <3>2
  <2>3. ASSUME NEW value \in {"on", "off"}, BeginToggle(t, value)
        PROVE  \E k \in Toggle : toggle' = [toggle EXCEPT ![t] = k] /\ LineBy(k.base, ships)
    <3> DEFINE k == [pc |-> "set", auto |-> value, base |-> registry]
    <3>1. toggle' = [toggle EXCEPT ![t] = k]
      BY <2>3 DEF BeginToggle
    <3>2. k \in Toggle /\ k.base = registry
      BY <1>1 DEF Toggle
    <3> HIDE DEF k
    <3> QED BY <1>1, <3>1, <3>2
  <2> QED BY <2>1, <2>2, <2>3 DEF ToggleNext, SetToggle, Kick, ToggleFails
<1>3. toggle' \in [Toggles -> Toggle] /\ \A u \in Toggles : LineBy(toggle'[u].base, ships)
  <2>1. PICK k \in Toggle : toggle' = [toggle EXCEPT ![t] = k] /\ LineBy(k.base, ships)
    BY <1>2
  <2>2. toggle'[t] = k /\ \A u \in Toggles : u # t => toggle'[u] = toggle[u]
    BY <1>1, <2>1
  <2> QED BY <1>1, <2>1, <2>2
<1>4. auto' \in {"on", "off"} /\ UNCHANGED <<timeline, ships, wakes, registry, look>>
  BY <1>1 DEF ToggleNext, BeginToggle, SetToggle, Kick, ToggleFails
<1> QED BY <1>3, <1>4

LEMMA ToggleIInv ==
  ASSUME IInv, NEW t \in Toggles, ToggleNext(t)
  PROVE  IInv' /\ (Active' \subseteq Active \/ Added)
<1>1. /\ toggle' \in [Toggles -> Toggle] /\ auto' \in {"on", "off"}
      /\ \A u \in Toggles : LineBy(toggle'[u].base, ships)
      /\ UNCHANGED <<timeline, ships, wakes, registry, look>>
  BY ToggleStep
<1>2. /\ run' \in [Runs -> Run] /\ Slots' /\ (Active' \subseteq Active \/ Added)
      /\ \A s \in Runs : LineBy(run'[s].seen, ships)
  <2>1. CASE UNCHANGED run
    BY <1>1, <2>1 DEF IInv, Typed, Lines, Slots, Active
  <2>2. ASSUME NEW r \in Free, run' = Started(r, "improve", FALSE), UNCHANGED auto
        PROVE  run' \in [Runs -> Run] /\ Slots' /\ Added
               /\ \A s \in Runs : LineBy(run'[s].seen, ships)
    BY <1>1, <2>2, StartsInFreeSlot
  <2>3. \/ UNCHANGED run
        \/ UNCHANGED auto /\ \E r \in Free : run' = Started(r, "improve", FALSE)
    BY DEF ToggleNext, BeginToggle, SetToggle, Kick, ToggleFails
  <2> QED BY <2>1, <2>2, <2>3
<1>3. Typed' /\ Lines' /\ Fresh'
  BY <1>1, <1>2 DEF IInv, Typed, Lines, Fresh, Newest
<1> QED BY <1>2, <1>3 DEF IInv

\* A look begins, or reads the cell; nothing but the look changes.
LEMMA LookStep ==
  ASSUME IInv, NEW l \in Looks, BeginLook(l) \/ ReadCell(l)
  PROVE  IInv' /\ UNCHANGED <<wakes, run, registry>>
<1>1. /\ look \in [Looks -> Look] /\ look[l] \in Look
      /\ timeline \in Seq(Iteration) /\ LineBy(timeline, ships) /\ ships \in Nat
      /\ LineBy(registry, ships) /\ registry \in Seq(Iteration)
      /\ Newest(timeline) = ships /\ \A m \in Looks : LineBy(look[m].seen, ships)
      /\ UNCHANGED <<auto, timeline, ships, wakes, run, toggle, registry>>
  BY AutoImproveAssumption DEF IInv, Typed, Lines, Fresh, BeginLook, ReadCell
<1>2. Newest(registry) <= ships
  BY <1>1, NewestIs
<1>3. \E k \in Look : /\ look' = [look EXCEPT ![l] = k] /\ LineBy(k.seen, ships)
                      /\ k.pc = "adopt" => Newest(registry) <= Newest(k.seen)
  <2>1. CASE look' = [look EXCEPT ![l].pc = "read"]
    <3> DEFINE k == [look[l] EXCEPT !.pc = "read"]
    <3>1. look' = [look EXCEPT ![l] = k]
      BY <2>1
    <3>2. k \in Look /\ k.seen = look[l].seen /\ k.pc = "read"
      BY <1>1 DEF Look
    <3> HIDE DEF k
    <3> QED BY <1>1, <3>1, <3>2
  <2>2. CASE look' = [look EXCEPT ![l] = NoLook]
    BY <2>2, Records, EmptyLine
  <2>3. CASE look' = [look EXCEPT ![l].pc = "adopt", ![l].seen = timeline]
    <3> DEFINE k == [look[l] EXCEPT !.pc = "adopt", !.seen = timeline]
    <3>1. look' = [look EXCEPT ![l] = k]
      BY <2>3
    <3>2. k \in Look /\ k.seen = timeline
      BY <1>1 DEF Look
    <3> HIDE DEF k
    <3> QED BY <1>1, <1>2, <3>1, <3>2
  <2> QED BY <2>1, <2>2, <2>3 DEF BeginLook, ReadCell
<1>4. PICK k \in Look : /\ look' = [look EXCEPT ![l] = k] /\ LineBy(k.seen, ships)
                        /\ k.pc = "adopt" => Newest(registry) <= Newest(k.seen)
  BY <1>3
<1>5. /\ look' \in [Looks -> Look] /\ look'[l] = k
      /\ \A m \in Looks : m # l => look'[m] = look[m]
  BY <1>1, <1>4
<1>6. Typed' /\ Lines' /\ Slots'
  BY <1>1, <1>4, <1>5 DEF IInv, Typed, Lines, Slots, Active
<1>7. Fresh'
  <2>1. ASSUME NEW m \in Looks, look'[m].pc = "adopt", ~look'[m].passed
        PROVE  Newest(registry) <= Newest(look'[m].seen)
    BY <1>4, <1>5, <2>1 DEF IInv, Fresh
  <2>2. Newest(timeline') = ships' /\ registry' = registry
    BY <1>1
  <2> QED BY <2>1, <2>2 DEF Fresh, Newest
<1> QED BY <1>1, <1>6, <1>7 DEF IInv

\* Adopting leaves every other look overtaken.
LEMMA AdoptIInv ==
  ASSUME IInv, NEW l \in Looks, Adopt(l)
  PROVE  IInv' /\ UNCHANGED <<wakes, run>>
<1>1. /\ look \in [Looks -> Look] /\ look[l] \in Look
      /\ look[l].seen \in Seq(Iteration) /\ LineBy(look[l].seen, ships)
      /\ \A m \in Looks : LineBy(look[m].seen, ships)
      /\ registry' = look[l].seen
      /\ UNCHANGED <<auto, timeline, ships, wakes, run, toggle>>
  BY DEF IInv, Typed, Lines, Adopt, Look
<1>2. look' = [m \in Looks |->
         IF m = l \/ look[m].pc = "idle" THEN NoLook ELSE [look[m] EXCEPT !.passed = TRUE]]
  BY DEF Adopt
<1>3. ASSUME NEW m \in Looks
      PROVE  /\ look'[m] \in Look /\ LineBy(look'[m].seen, ships)
             /\ look'[m].pc = "adopt" => look'[m].passed
  <2>1. CASE m = l \/ look[m].pc = "idle"
    <3>1. look'[m] = NoLook
      BY <1>2, <2>1
    <3> QED BY <3>1, Records, EmptyLine
  <2>2. CASE ~(m = l \/ look[m].pc = "idle")
    <3> DEFINE k == [look[m] EXCEPT !.passed = TRUE]
    <3>1. look'[m] = k
      BY <1>2, <2>2
    <3>2. k \in Look /\ k.seen = look[m].seen /\ k.passed
      BY <1>1 DEF Look
    <3> HIDE DEF k
    <3> QED BY <1>1, <3>1, <3>2
  <2> QED BY <2>1, <2>2
<1>4. look' \in [Looks -> Look]
  BY <1>2, <1>3
<1>5. Typed' /\ Lines' /\ Slots'
  BY <1>1, <1>3, <1>4 DEF IInv, Typed, Lines, Slots, Active
<1>6. Fresh'
  BY <1>1, <1>3 DEF IInv, Fresh, Newest
<1> QED BY <1>1, <1>5, <1>6 DEF IInv

LEMMA StepIInv == ASSUME IInv, [Next]_vars PROVE IInv' /\ (Active' \subseteq Active \/ Added)
<1>1. ASSUME NEW r \in Runs, RunNext(r) PROVE IInv' /\ Active' \subseteq Active
  BY <1>1, WakeIInv, RunIInv, RecordIInv DEF RunNext
<1>2. ASSUME NEW r \in Runs, NEW kind \in {"build", "improve"}, Invoke(r, kind) PROVE IInv' /\ Added
  BY <1>2, InvokeIInv
<1>3. ASSUME NEW t \in Toggles, ToggleNext(t) PROVE IInv' /\ (Active' \subseteq Active \/ Added)
  BY <1>3, ToggleIInv
<1>4. ASSUME NEW l \in Looks, LookNext(l) PROVE IInv' /\ Active' \subseteq Active
  <2>1. IInv' /\ UNCHANGED <<wakes, run>>
    BY <1>4, LookStep, AdoptIInv DEF LookNext
  <2> QED BY <2>1 DEF Active
<1>5. CASE UNCHANGED vars
  <2>1. Typed' /\ Lines' /\ Slots' /\ Fresh' /\ Active' = Active
    BY <1>5 DEF vars, IInv, Typed, Lines, Slots, Fresh, Active, Newest
  <2> QED BY <2>1 DEF IInv
<1> QED BY <1>1, <1>2, <1>3, <1>4, <1>5 DEF Next
-----------------------------------------------------------------------------
(* The results *)

\* Every copy is a line, every slot one thing, every look not overtaken fresh.
THEOREM Invariance == Spec => []IInv
<1>1. IInv /\ [Next]_vars => IInv'
  BY StepIInv
<1> QED BY InitIInv, <1>1, PTL DEF Spec

\* TypeOK holds in every behaviour: however runs read, extend and replace the
\* timeline beside each other, it and its copies are lines of versions 1, 2, 3, ...
THEOREM TypeCorrect == Spec => []TypeOK
<1>1. IInv => TypeOK
  <2> SUFFICES ASSUME IInv PROVE TypeOK
    OBVIOUS
  <2>1. \A t : LineBy(t, ships) <=> IsLine(t)
    BY DEF LineBy, IsLine
  <2>2. /\ IsLine(timeline) /\ IsLine(registry) /\ \A r \in Runs : IsLine(run[r].seen)
        /\ \A t \in Toggles : IsLine(toggle[t].base)
        /\ \A l \in Looks : IsLine(look[l].seen)
    BY <2>1 DEF IInv, Lines
  <2>3. /\ auto \in {"on", "off"} /\ ships \in 0..MaxShips
        /\ wakes \subseteq Runs /\ \A r \in wakes : run[r].pc = "idle"
    BY DEF IInv, Typed, Slots
  <2>4. /\ \A r \in Runs : run[r] \in Run
        /\ \A t \in Toggles : toggle[t] \in Toggle
        /\ \A l \in Looks : look[l] \in Look
    BY DEF IInv, Typed
  <2>5. \A r \in Runs :
          /\ run[r].pc \in {"idle", "preamble", "work", "record", "decide", "schedule"}
          /\ run[r].self \in BOOLEAN /\ run[r].kind \in {"build", "improve"}
          /\ IsLine(run[r].seen)
    BY <2>2, <2>4 DEF Run
  <2>6. \A t \in Toggles :
          /\ toggle[t].pc \in {"idle", "set", "kick"} /\ toggle[t].auto \in {"on", "off"}
          /\ IsLine(toggle[t].base)
    BY <2>2, <2>4 DEF Toggle
  <2>7. \A l \in Looks :
          /\ look[l].pc \in {"idle", "read", "adopt"} /\ look[l].passed \in BOOLEAN
          /\ IsLine(look[l].seen)
    BY <2>2, <2>4 DEF Look
  <2>8. IsLine(timeline) /\ IsLine(registry)
    BY <2>2
  <2> QED BY <2>3, <2>5, <2>6, <2>7, <2>8, Zenon DEF TypeOK
<1> QED BY <1>1, Invariance, PTL

\* Sets that share nothing: no slot is counted twice.
LEMMA DisjointCount ==
  ASSUME NEW S, NEW T, IsFiniteSet(S \cup T), S \cap T = {}
  PROVE  Cardinality(S) + Cardinality(T) = Cardinality(S \cup T)
<1>1. IsFiniteSet(S) /\ IsFiniteSet(T)
  BY FS_Subset
<1>2. Cardinality(S \cup T) = Cardinality(S) + Cardinality(T) - Cardinality(S \cap T)
  BY <1>1, FS_Union
<1>3. Cardinality(S \cap T) = 0
  BY FS_EmptySet
<1>4. Cardinality(S) \in Nat /\ Cardinality(T) \in Nat
  BY <1>1, FS_CardinalityType
<1> QED BY <1>2, <1>3, <1>4

\* NobodyForksAChain: only a kick or a manual pass adds a run, in any interleaving
\* of runs, wakes and toggles.
THEOREM ChainsDoNotFork == Spec => NobodyForksAChain
<1> DEFINE Forked == Chains' > Chains =>
              \E r \in Runs : run[r].pc = "idle" /\ run'[r].pc = "work" /\ ~run'[r].self
<1>1. ASSUME IInv, [Next]_vars PROVE Forked
  <2>1. IInv' /\ (Active' \subseteq Active \/ Added)
    BY <1>1, StepIInv
  <2>2. Chains = Cardinality(Active) /\ IsFiniteSet(Active)
    <3> DEFINE busy == {r \in Runs : run[r].pc # "idle"}
    <3>1. IsFiniteSet(wakes \cup busy) /\ wakes \cap busy = {}
      BY <1>1 DEF IInv, Slots, Active
    <3> HIDE DEF busy
    <3>2. Cardinality(wakes) + Cardinality(busy) = Cardinality(wakes \cup busy)
      BY <3>1, DisjointCount
    <3> QED BY <3>1, <3>2 DEF Chains, Active, busy
  <2>3. Chains' = Cardinality(Active') /\ IsFiniteSet(Active')
    <3> DEFINE busy == {r \in Runs : run'[r].pc # "idle"}
    <3>1. IsFiniteSet(wakes' \cup busy) /\ wakes' \cap busy = {}
      BY <2>1 DEF IInv, Slots, Active
    <3> HIDE DEF busy
    <3>2. Cardinality(wakes') + Cardinality(busy) = Cardinality(wakes' \cup busy)
      BY <3>1, DisjointCount
    <3> QED BY <3>1, <3>2 DEF Chains, Active, busy
  <2>4. CASE Active' \subseteq Active
    <3>1. Cardinality(Active') <= Cardinality(Active)
      BY <2>2, <2>4, FS_Subset
    <3>2. Cardinality(Active) \in Nat /\ Cardinality(Active') \in Nat
      BY <2>2, <2>3, FS_CardinalityType
    <3> QED BY <2>2, <2>3, <3>1, <3>2
  <2>5. CASE Added
    BY <2>5 DEF Added
  <2> QED BY <2>1, <2>4, <2>5
<1>2. [Next]_vars /\ IInv => [Forked]_vars
  BY <1>1
<1> QED BY <1>2, Invariance, PTL DEF Spec, NobodyForksAChain

\* RegressionIsARace: the registry falls back to an older timeline only when the
\* look that adopts had begun before another one adopted.
THEOREM OnlyRacesRegress == Spec => RegressionIsARace
<1> DEFINE Raced == Newest(registry') < Newest(registry) =>
       \E l \in Looks : look[l].pc = "adopt" /\ look[l].passed /\ registry' = look[l].seen
<1>1. ASSUME IInv, [Next]_vars PROVE Raced
  <2>1. /\ registry \in Seq(Iteration) /\ LineBy(registry, ships) /\ ships \in Nat
        /\ \A l \in Looks : look[l] \in Look /\ LineBy(look[l].seen, ships)
    BY <1>1, AutoImproveAssumption DEF IInv, Typed, Lines
  <2>2. Newest(registry) \in Nat
    BY <2>1, NewestIs
  <2>3. CASE UNCHANGED registry
    BY <2>2, <2>3
  <2>4. ASSUME NEW l \in Looks, Adopt(l) PROVE Raced
    <3>1. look[l].pc = "adopt" /\ registry' = look[l].seen /\ look[l].seen \in Seq(Iteration)
      BY <2>1, <2>4 DEF Adopt, Look
    <3>2. CASE look[l].passed
      BY <3>1, <3>2
    <3>3. CASE ~look[l].passed
      <4>1. Newest(registry) <= Newest(look[l].seen) /\ Newest(look[l].seen) \in Nat
        BY <1>1, <2>1, <3>1, <3>3, NewestIs DEF IInv, Fresh
      <4> QED BY <2>2, <3>1, <4>1
    <3> QED BY <3>2, <3>3
  <2>5. UNCHANGED registry \/ \E l \in Looks : Adopt(l)
    BY <1>1 DEF Next, vars, RunNext, Wake, Preamble, ReadTimeline, Record, Decide, Schedule, Fail,
      Invoke, ToggleNext, BeginToggle, SetToggle, Kick, ToggleFails, LookNext, BeginLook, ReadCell
  <2> QED BY <2>3, <2>4, <2>5
<1>2. [Next]_vars /\ IInv => [Raced]_vars
  BY <1>1
<1> QED BY <1>2, Invariance, PTL DEF Spec, RegressionIsARace
=============================================================================
