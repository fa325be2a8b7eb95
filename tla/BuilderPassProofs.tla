------------------------- MODULE BuilderPassProofs -------------------------
(***************************************************************************)
(* What a pass tells the browser, whatever its periods, the size of the    *)
(* log and the other runs: first what holds whoever else writes the log    *)
(* (VerdictIsOwn), then what holds of a pass whose run is the only one     *)
(* that is going.                                                          *)
(***************************************************************************)
EXTENDS BuilderPass, FiniteSetTheorems, WellFoundedInduction, TLAPS

-----------------------------------------------------------------------------
(* Invariants that hold whoever writes the log                             *)

Finishing == {"ensure", "resolve", "stop", "start", "record", "sync", "finish"}

\* An entry is in the log, or in a run's copy of it, because its run recorded it.
Genuine(entries) ==
  \A i \in 1..Len(entries) : Recorded(entries[i].run, {entries[i].stage})

LogIsGenuine ==
  /\ Genuine(progress)
  /\ \A r \in Runs : copy[r] # None => Genuine(copy[r])

\* A pass goes on to its end on a terminal entry of its own run, or once the
\* end of a feed was seen; what it shows, and what it blames, its run recorded.
Honest(p) ==
  /\ (pc[p] \in Finishing \/ outcome[p] = "done") =>
       feedDoneAt[p] # None \/ Recorded(p, DoneStages)
  /\ outcome[p] = "AGENT_RUN_FAILED" => Recorded(p, {"error"})
  /\ \A i \in 1..Len(milestones[p]) : Recorded(p, {milestones[p][i]})

IInv == TypeOK /\ LogIsGenuine /\ \A p \in Passes : Honest(p)

-----------------------------------------------------------------------------
(* Invariants of a pass whose run is the only one that is going            *)

\* No other pass is under way, and the other runs of the agent ended before,
\* too long ago for one of them to be taken for the pass's own.
Alone(p) ==
  /\ Passes = {p} /\ OtherRuns = Prior
  /\ HostStamps => PriorAge + HostLag > MatchSkew

\* The log is what is left, after trimming, of older entries followed by those
\* of the run; the copy the run has taken of it is the log itself.
LogFollowsRun(p) ==
  LET W == Len(wrote[p])
      L == Len(progress) IN
  /\ copy[p] # None => copy[p] = progress
  /\ L < W => L = MaxEntries
  /\ \A i \in 1..L :
       IF i > L - W THEN progress[i] = [run |-> p, stage |-> wrote[p][W - (L - i)]]
       ELSE progress[i].run # p

\* Only the pass's own run starts, and only once it was fired.
OneRunGoes(p) ==
  /\ \A r \in Prior : state[r] = "ended" /\ startedAt[r] = -PriorAge - HostLag
  /\ started[p] = None => state[p] = "idle" /\ pc[p] \in {"route", "deploy", "snapshot", "closed"}
  /\ started[p] # None => pc[p] \notin {"route", "deploy", "snapshot"}
  /\ state[p] = "idle" => wrote[p] = <<>>
  /\ \A i \in 1..(Len(wrote[p]) - 1) : wrote[p][i] \notin TerminalStages

\* The feed followed is the own run's; a pass that has seen its end knows that
\* the run is over.
FeedIsOwn(p) ==
  /\ bound[p] \in {None, p} /\ after[p] <= IF bound[p] = None THEN 0 ELSE feed[p]
  /\ pc[p] = "page" => bound[p] # None
  /\ feedDone[p] => state[p] = "ended"
  /\ feedDoneAt[p] # None => feedDone[p]
  /\ activity[p] # {} => after[p] > 0

Looping == {"check", "kv", "feed", "page"}

\* What was shown was read; before the task is fired nothing is.
ShownIsRead(p) ==
  /\ pc[p] \in Looping /\ milestones[p] # <<>> => relayed[p] # 0
  /\ pc[p] \in {"route", "deploy", "snapshot"} => milestones[p] = <<>> /\ activity[p] = {}
  /\ relayed[p] # 0 => wrote[p] # <<>>
  /\ milestones[p] # <<>> => wrote[p] # <<>>
  /\ outcome[p] # "none" <=> pc[p] = "closed"

Silent(p) == outcome[p] = "AGENT_UNAVAILABLE" => milestones[p] = <<>> /\ activity[p] = {}

AInv(p) ==
  IInv /\ LogFollowsRun(p) /\ OneRunGoes(p) /\ FeedIsOwn(p) /\ ShownIsRead(p) /\ Silent(p)

\* What the pass still has to do decides what it knows of the app.
AppIsKnown(p) ==
  /\ pc[p] \in {"resolve", "record"} => service
  /\ pc[p] \in {"sync", "finish"} => (observed[p].live => service)
  /\ pc[p] = "finish" => fetched[p] = timeline

Matches(p) ==
  (outcome[p] = "done" /\ idea.exists) =>
    /\ idea.live => service /\ ~idea.error
    /\ timeline # 0 => idea.version = timeline

AppInv(p) == AInv(p) /\ AppIsKnown(p) /\ Matches(p)

\* While the log still holds all of the run's entries: what was relayed is
\* what was shown, and none of it was terminal; a feed seen to end is followed
\* by a reading of the log.
RelayKeepsUp(p) ==
  /\ Len(wrote[p]) <= MaxSteps
  /\ \E m \in 0..Len(wrote[p]) :
       /\ milestones[p] = Shown(SubSeq(wrote[p], 1, m))
       /\ pc[p] \notin Finishing \union {"closed"} /\ connected[p] => m = relayed[p]
  /\ pc[p] \notin Finishing \union {"closed"} =>
       /\ relayed[p] <= Len(wrote[p])
       /\ \A i \in 1..relayed[p] : wrote[p][i] \notin TerminalStages

EndIsRead(p) ==
  /\ feedDoneAt[p] # None /\ pc[p] \in {"feed", "page"} => ~Recorded(p, {"error"})
  /\ (pc[p] \in Finishing \/ outcome[p] = "done") => ~Recorded(p, {"error"})

RelayInv(p) == AInv(p) /\ RelayKeepsUp(p)

EndInv(p) == RelayInv(p) /\ EndIsRead(p)

-----------------------------------------------------------------------------
(* What the operators of the log return                                    *)

\* Induction over the natural numbers, with a set in the place of a predicate.
LEMMA UpFromZero ==
  ASSUME NEW S, 0 \in S, \A n \in Nat : n \in S => n + 1 \in S
  PROVE Nat \subseteq S
<1> SUFFICES ASSUME Nat \ S # {} PROVE FALSE
  OBVIOUS
<1> DEFINE T == Nat \ S
<1>1. PICK x \in T : \A y \in T : ~ (<<y, x>> \in OpToRel(<,Nat))
  <2>1. IsWellFoundedOn(OpToRel(<,Nat), Nat)
    BY NatLessThanWellFounded
  <2>2. T \subseteq Nat /\ T # {}
    OBVIOUS
  <2> HIDE DEF T
  <2> QED BY <2>1, <2>2, WFMin
<1>2. x # 0 /\ x - 1 \in Nat /\ x - 1 < x
  OBVIOUS
<1>3. x - 1 \in T
  BY <1>2
<1>4. <<x - 1, x>> \in OpToRel(<,Nat)
  BY <1>2 DEF OpToRel
<1> QED BY <1>1, <1>3, <1>4


\* The rule that Pick's function obeys: what is picked of the first n elements.
Picking(from, seq, keep, n) ==
  IF n = 0 THEN <<>>
  ELSE IF n \in keep THEN Append(from[n - 1], seq[n])
  ELSE from[n - 1]


\* What is known of it: it has elements at the positions
\* wanted, no more than n of them, and some if some are wanted.
Picked(from, T, keep, n) ==
  /\ from[n] \in Seq(T) /\ Len(from[n]) <= n
  /\ (\E i \in 1..n : i \in keep) => Len(from[n]) # 0

\* A function that obeys the rule exists, for sequences of any length.
LEMMA PickExists ==
  ASSUME NEW T, NEW U, NEW seq \in Seq(U), NEW keep, \A n \in 1..Len(seq) : n \in keep => seq[n] \in T
  PROVE  \E f : /\ f = [n \in 0..Len(seq) |-> f[n]]
                /\ \A n \in 0..Len(seq) : f[n] = Picking(f, seq, keep, n) /\ Picked(f, T, keep, n)
<1> DEFINE Known(k) == \E f : /\ f = [n \in 0..k |-> f[n]]
                              /\ \A n \in 0..k : f[n] = Picking(f, seq, keep, n) /\ Picked(f, T, keep, n)
           S == {k \in Nat : k <= Len(seq) => Known(k)}
<1>1. 0 \in S
  <2> DEFINE f == [n \in 0..0 |-> <<>>]
  <2>1. f[0] = <<>> /\ f = [n \in 0..0 |-> f[n]]
    OBVIOUS
  <2>2. Picked(f, T, keep, 0)
    BY <2>1 DEF Picked
  <2>3. f[0] = Picking(f, seq, keep, 0)
    BY <2>1 DEF Picking
  <2> HIDE DEF f
  <2>4. Known(0)
    BY <2>1, <2>2, <2>3
  <2> HIDE DEF Known
  <2> QED BY <2>4
<1>2. ASSUME NEW k \in Nat, Known(k), k + 1 <= Len(seq) PROVE Known(k + 1)
  <2>1. PICK f : /\ f = [n \in 0..k |-> f[n]]
                 /\ \A n \in 0..k : f[n] = Picking(f, seq, keep, n) /\ Picked(f, T, keep, n)
    BY <1>2
  <2>2. f[k] \in Seq(T) /\ Len(f[k]) <= k /\ ((\E i \in 1..k : i \in keep) => Len(f[k]) # 0)
    <3>1. k \in 0..k
      OBVIOUS
    <3> QED BY <2>1, <3>1 DEF Picked
  <2> DEFINE next == IF k + 1 \in keep THEN Append(f[k], seq[k + 1]) ELSE f[k]
  <2>3. /\ next \in Seq(T) /\ Len(next) <= k + 1
        /\ (\E i \in 1..(k + 1) : i \in keep) => Len(next) # 0
    <3>1. CASE k + 1 \in keep
      <4>1. seq[k + 1] \in T
        BY <1>2, <3>1
      <4>2. Append(f[k], seq[k + 1]) \in Seq(T) /\ Len(Append(f[k], seq[k + 1])) = Len(f[k]) + 1
        BY <2>2, <4>1
      <4>3. Len(f[k]) \in Nat
        BY <2>2
      <4> QED BY <2>2, <3>1, <4>2, <4>3
    <3>2. CASE k + 1 \notin keep
      <4>1. Len(f[k]) \in Nat
        BY <2>2
      <4>2. \A i \in 1..(k + 1) : i \in keep => i \in 1..k
        BY <3>2
      <4> QED BY <2>2, <3>2, <4>1, <4>2
    <3> QED BY <3>1, <3>2
  <2> HIDE DEF next
  <2> DEFINE g == [n \in 0..(k + 1) |-> IF n = k + 1 THEN next ELSE f[n]]
  <2>4. g[k + 1] = next /\ (\A n \in 0..k : g[n] = f[n]) /\ g = [n \in 0..(k + 1) |-> g[n]]
    BY DEF g
  <2> HIDE DEF g
  <2>5. ASSUME NEW n \in 0..(k + 1) PROVE g[n] = Picking(g, seq, keep, n) /\ Picked(g, T, keep, n)
    <3>1. CASE n = k + 1
      <4>1. n # 0 /\ n - 1 = k /\ k \in 0..k
        BY <3>1
      <4>2. Picked(g, T, keep, n)
        BY <2>3, <2>4, <3>1 DEF Picked
      <4>3. g[k] = f[k]
        BY <2>4, <4>1
      <4> QED BY <2>4, <3>1, <4>1, <4>2, <4>3 DEF Picking, next
    <3>2. CASE n # k + 1
      <4>1. n \in 0..k /\ (n # 0 => n - 1 \in 0..k)
        BY <3>2
      <4>2. Picked(g, T, keep, n)
        BY <2>1, <2>4, <4>1 DEF Picked
      <4> QED BY <2>1, <2>4, <4>1, <4>2 DEF Picking
    <3> QED BY <3>1, <3>2
  <2> QED BY <2>4, <2>5
<1>3. Nat \subseteq S
  <2>1. \A k \in Nat : k \in S => k + 1 \in S
    <3> HIDE DEF Known
    <3> QED BY <1>2
  <2> HIDE DEF S
  <2> QED BY <1>1, <2>1, UpFromZero
<1>4. Len(seq) \in S
  <2> HIDE DEF S
  <2> QED BY <1>3
<1> QED BY <1>4

\* Pick is the last value of one.
LEMMA PickRule ==
  ASSUME NEW U, NEW seq \in Seq(U), NEW keep
  PROVE  \E from : /\ \A n \in 0..Len(seq) : from[n] = Picking(from, seq, keep, n)
                   /\ Pick(seq, keep) = from[Len(seq)]
<1>1. PICK f : /\ f = [n \in 0..Len(seq) |-> f[n]]
               /\ \A n \in 0..Len(seq) : f[n] = Picking(f, seq, keep, n) /\ Picked(f, U, keep, n)
  <2>1. \A n \in 1..Len(seq) : n \in keep => seq[n] \in U
    OBVIOUS
  <2> QED BY <2>1, PickExists
<1> DEFINE from == CHOOSE g : g = [n \in 0..Len(seq) |->
                IF n = 0 THEN <<>>
                ELSE IF n \in keep THEN Append(g[n - 1], seq[n])
                ELSE g[n - 1]]
<1>2. f = [n \in 0..Len(seq) |-> IF n = 0 THEN <<>>
                ELSE IF n \in keep THEN Append(f[n - 1], seq[n])
                ELSE f[n - 1]]
  BY <1>1 DEF Picking
<1>3. from = [n \in 0..Len(seq) |-> IF n = 0 THEN <<>>
                ELSE IF n \in keep THEN Append(from[n - 1], seq[n])
                ELSE from[n - 1]]
  BY <1>2
<1>4. Pick(seq, keep) = from[Len(seq)]
  BY DEF Pick
<1> HIDE DEF from
<1>5. \A n \in 0..Len(seq) : from[n] = Picking(from, seq, keep, n)
  BY <1>3 DEF Picking
<1> QED BY <1>4, <1>5

\* ... and of every one: the rule has one solution.
LEMMA PickIs ==
  ASSUME NEW U, NEW seq \in Seq(U), NEW keep, NEW f,
         \A n \in 0..Len(seq) : f[n] = Picking(f, seq, keep, n)
  PROVE  Pick(seq, keep) = f[Len(seq)]
<1>1. PICK from : /\ \A n \in 0..Len(seq) : from[n] = Picking(from, seq, keep, n)
                  /\ Pick(seq, keep) = from[Len(seq)]
  BY PickRule
<1> DEFINE S == {n \in Nat : n <= Len(seq) => from[n] = f[n]}
<1>2. 0 \in S
  BY <1>1 DEF Picking
<1>3. \A n \in Nat : n \in S => n + 1 \in S
  <2>1. ASSUME NEW n \in Nat, from[n] = f[n], n + 1 <= Len(seq)
        PROVE  from[n + 1] = f[n + 1]
    <3>1. n + 1 \in 0..Len(seq) /\ n + 1 # 0 /\ (n + 1) - 1 = n
      BY <2>1
    <3> QED BY <1>1, <2>1, <3>1 DEF Picking
  <2>2. \A n \in Nat : n + 1 <= Len(seq) => n <= Len(seq)
    OBVIOUS
  <2> QED BY <2>1, <2>2
<1>4. Len(seq) \in S
  <2>1. Len(seq) \in Nat
    OBVIOUS
  <2> HIDE DEF S
  <2> QED BY <1>2, <1>3, <2>1, UpFromZero
<1> QED BY <1>1, <1>4

\* What is picked: elements wanted, no more than there are, some if there are.
LEMMA PickFacts ==
  ASSUME NEW T, NEW U, NEW seq \in Seq(U), NEW keep, \A n \in 1..Len(seq) : n \in keep => seq[n] \in T
  PROVE  /\ Pick(seq, keep) \in Seq(T) /\ Len(Pick(seq, keep)) <= Len(seq)
         /\ (\E i \in 1..Len(seq) : i \in keep) => Len(Pick(seq, keep)) # 0
<1>1. PICK f : \A n \in 0..Len(seq) : f[n] = Picking(f, seq, keep, n) /\ Picked(f, T, keep, n)
  BY PickExists
<1>2. Pick(seq, keep) = f[Len(seq)]
  BY <1>1, PickIs
<1>3. Len(seq) \in 0..Len(seq)
  OBVIOUS
<1> QED BY <1>1, <1>2, <1>3 DEF Picked

LEMMA AppendLast ==
  ASSUME NEW U, NEW s \in Seq(U), NEW t \in Seq(U), NEW e \in U
  PROVE  s \o Append(t, e) = Append(s \o t, e)
OBVIOUS

\* What is picked of two sequences on end is picked of each.
LEMMA PickConcat ==
  ASSUME NEW U, NEW a \in Seq(U), NEW b \in Seq(U), NEW keepA, NEW keepB, NEW keep,
         \A n \in 1..Len(a) : n \in keep <=> n \in keepA,
         \A n \in 1..Len(b) : Len(a) + n \in keep <=> n \in keepB
  PROVE  Pick(a \o b, keep) = Pick(a, keepA) \o Pick(b, keepB)
<1>1. PICK f : \A n \in 0..Len(a) : f[n] = Picking(f, a, keepA, n) /\ Picked(f, U, keepA, n)
  <2>1. \A n \in 1..Len(a) : n \in keepA => a[n] \in U
    OBVIOUS
  <2> QED BY <2>1, PickExists
<1>2. PICK g : \A n \in 0..Len(b) : g[n] = Picking(g, b, keepB, n) /\ Picked(g, U, keepB, n)
  <2>1. \A n \in 1..Len(b) : n \in keepB => b[n] \in U
    OBVIOUS
  <2> QED BY <2>1, PickExists
<1>3. Pick(a, keepA) = f[Len(a)] /\ Pick(b, keepB) = g[Len(b)]
  BY <1>1, <1>2, PickIs
<1> DEFINE A == Len(a)  B == Len(b)
           h == [n \in 0..(A + B) |-> IF n <= A THEN f[n] ELSE f[A] \o g[n - A]]
<1>4. A \in Nat /\ B \in Nat /\ a \o b \in Seq(U) /\ Len(a \o b) = A + B
  OBVIOUS
<1>5. /\ \A n \in 1..A : (a \o b)[n] = a[n]
      /\ \A n \in 1..B : (a \o b)[A + n] = b[n]
  OBVIOUS
<1>6. f[A] \in Seq(U) /\ g[0] = <<>> /\ \A n \in 0..B : g[n] \in Seq(U)
  BY <1>1, <1>2, <1>4 DEF Picked, Picking
<1> HIDE DEF A, B
<1>7. /\ \A n \in 0..A : h[n] = f[n]
      /\ \A n \in 0..B : \A i \in 0..(A + B) : i = A + n => h[i] = f[A] \o g[n]
  <2>1. \A n \in 0..A : h[n] = f[n]
    BY <1>4 DEF h
  <2>2. h[A] = f[A] /\ f[A] \o g[0] = f[A]
    BY <1>4, <1>6 DEF h
  <2>3. \A n \in 1..B : \A i \in 0..(A + B) : i = A + n => h[i] = f[A] \o g[n]
    <3> TAKE n \in 1..B
    <3> TAKE i \in 0..(A + B)
    <3>1. i = A + n => ~(i <= A) /\ i - A = n
      BY <1>4
    <3> QED BY <3>1 DEF h
  <2>4. \A n \in 0..B : n \in 1..B \/ (n = 0 /\ A + n = A)
    BY <1>4
  <2> QED BY <2>1, <2>2, <2>3, <2>4
<1> HIDE DEF h
<1>8. ASSUME NEW n \in 0..(A + B) PROVE h[n] = Picking(h, a \o b, keep, n)
  <2>1. CASE n \in 0..A
    <3>1. n # 0 => n - 1 \in 0..A /\ n \in 1..A
      BY <1>4, <2>1
    <3>2. f[n] = Picking(f, a, keepA, n)
      BY <1>1, <2>1 DEF A
    <3>3. n # 0 => (n \in keep <=> n \in keepA) /\ (a \o b)[n] = a[n] /\ h[n - 1] = f[n - 1]
      BY <1>5, <1>7, <3>1 DEF A
    <3> QED BY <1>7, <2>1, <3>2, <3>3 DEF Picking
  <2>2. CASE n \notin 0..A
    <3> DEFINE m == n - A
    <3>1. m \in 1..B /\ m - 1 \in 0..B /\ n = A + m /\ n - 1 = A + (m - 1) /\ n # 0 /\ m # 0
      BY <1>4, <2>2
    <3> HIDE DEF m
    <3>2. g[m] = IF m \in keepB THEN Append(g[m - 1], b[m]) ELSE g[m - 1]
      BY <1>2, <3>1, <1>4 DEF Picking, B
    <3>3. (n \in keep <=> m \in keepB) /\ (a \o b)[n] = b[m]
      BY <1>5, <3>1 DEF A, B
    <3>4. h[n] = f[A] \o g[m] /\ h[n - 1] = f[A] \o g[m - 1]
      <4>1. m \in 0..B /\ n - 1 \in 0..(A + B)
        BY <1>4, <3>1
      <4> QED BY <1>7, <3>1, <4>1
    <3>5. f[A] \o Append(g[m - 1], b[m]) = Append(f[A] \o g[m - 1], b[m])
      <4> DEFINE s == f[A]  t == g[m - 1]  e == b[m]
      <4>1. s \in Seq(U) /\ t \in Seq(U) /\ e \in U
        BY <1>6, <3>1 DEF B
      <4> HIDE DEF s, t, e
      <4>2. s \o Append(t, e) = Append(s \o t, e)
        BY <4>1, AppendLast
      <4> QED BY <4>2 DEF s, t, e
    <3> QED BY <3>1, <3>2, <3>3, <3>4, <3>5 DEF Picking
  <2> QED BY <2>1, <2>2
<1>9. Pick(a \o b, keep) = h[A + B]
  BY <1>4, <1>8, PickIs
<1>10. h[A + B] = f[A] \o g[B]
  <2>1. B \in 0..B /\ A + B \in 0..(A + B)
    BY <1>4
  <2> QED BY <1>7, <2>1
<1> QED BY <1>3, <1>9, <1>10 DEF A, B

\* What is wanted at the end of a sequence is picked as it stands.
LEMMA PickSuffix ==
  ASSUME NEW U, NEW seq \in Seq(U), NEW keep, NEW k \in 0..Len(seq),
         \A n \in 1..Len(seq) : n \in keep <=> n > k
  PROVE  Pick(seq, keep) = SubSeq(seq, k + 1, Len(seq))
<1> DEFINE f == [n \in 0..Len(seq) |-> SubSeq(seq, k + 1, n)]
<1>1. \A n \in 0..Len(seq) : f[n] = SubSeq(seq, k + 1, n)
  OBVIOUS
<1> HIDE DEF f
<1>2. ASSUME NEW n \in 0..Len(seq) PROVE f[n] = Picking(f, seq, keep, n)
  <2>1. CASE n = 0
    <3>1. SubSeq(seq, k + 1, 0) = <<>>
      OBVIOUS
    <3> QED BY <1>1, <2>1, <3>1 DEF Picking
  <2>2. CASE n # 0
    <3>1. n - 1 \in 0..Len(seq) /\ n \in 1..Len(seq)
      BY <2>2
    <3>2. CASE n > k
      <4>1. SubSeq(seq, k + 1, n) = Append(SubSeq(seq, k + 1, n - 1), seq[n])
        BY <3>1, <3>2
      <4> QED BY <1>1, <2>2, <3>1, <3>2, <4>1 DEF Picking
    <3>3. CASE ~(n > k)
      <4>1. SubSeq(seq, k + 1, n) = <<>> /\ SubSeq(seq, k + 1, n - 1) = <<>>
        BY <3>1, <3>3
      <4> QED BY <1>1, <2>2, <3>1, <3>3, <4>1 DEF Picking
    <3> QED BY <3>2, <3>3
  <2> QED BY <2>1, <2>2
<1>3. Len(seq) \in 0..Len(seq)
  OBVIOUS
<1> QED BY <1>1, <1>2, <1>3, PickIs

LEMMA MinFacts ==
  ASSUME NEW S \in SUBSET Nat, S # {}
  PROVE  Min(S) \in S /\ \A y \in S : Min(S) <= y
<1>1. \E x \in S : \A y \in S : ~ (<<y, x>> \in OpToRel(<, Nat))
  BY NatLessThanWellFounded, WFMin
<1>2. \E x \in S : \A y \in S : x =< y
  <2>1. PICK x \in S : \A y \in S : ~ (<<y, x>> \in OpToRel(<, Nat))
    BY <1>1
  <2>2. \A y \in S : ~(y < x)
    BY <2>1 DEF OpToRel
  <2> QED BY <2>2
<1> QED BY <1>2 DEF Min

LEMMA StagesFacts ==
  ASSUME NEW r, NEW entries \in Seq(Entry)
  PROVE  LET own == StagesOf(r, entries) IN
         /\ own \in Seq(Stages) /\ Len(own) <= Len(entries)
         /\ \A i \in 1..Len(own) : \E j \in 1..Len(entries) :
              entries[j].run = r /\ own[i] = entries[j].stage
         /\ (\E j \in 1..Len(entries) : entries[j].run = r) => Len(own) # 0
<1> DEFINE keep == {i \in DOMAIN entries : entries[i].run = r}
           T == {entries[i] : i \in keep}
           picked == Pick(entries, keep)
<1>1. DOMAIN entries = 1..Len(entries) /\ \A i \in 1..Len(entries) : entries[i] \in Entry
  OBVIOUS
<1>2. \A n \in 1..Len(entries) : n \in keep => entries[n] \in T
  OBVIOUS
<1> HIDE DEF T
<1>3. /\ picked \in Seq(T) /\ Len(picked) <= Len(entries)
      /\ (\E i \in 1..Len(entries) : i \in keep) => Len(picked) # 0
  <2> HIDE DEF keep
  <2> QED BY <1>2, PickFacts
<1>4. StagesOf(r, entries) = [i \in DOMAIN picked |-> picked[i].stage]
  BY DEF StagesOf
<1>5. \A i \in 1..Len(entries) : i \in keep <=> entries[i].run = r
  BY <1>1
<1>6. \A e \in T : \E j \in 1..Len(entries) : entries[j].run = r /\ e.stage = entries[j].stage
  BY <1>1 DEF T
<1>7. \A e \in T : e.stage \in Stages
  BY <1>1, <1>6 DEF Entry
<1> HIDE DEF keep, picked
<1>8. \A i \in 1..Len(picked) : picked[i] \in T
  BY <1>3
<1>9. Len(picked) \in Nat /\ DOMAIN picked = 1..Len(picked)
  BY <1>3
<1>10. /\ StagesOf(r, entries) \in Seq(Stages) /\ Len(StagesOf(r, entries)) = Len(picked)
       /\ \A i \in 1..Len(picked) : StagesOf(r, entries)[i] = picked[i].stage
  BY <1>4, <1>7, <1>8, <1>9
<1> QED BY <1>3, <1>5, <1>6, <1>8, <1>10

LEMMA ShownFacts ==
  ASSUME NEW stages \in Seq(Stages)
  PROVE  LET shown == Shown(stages) IN
         /\ shown \in Seq(Stages) /\ Len(shown) <= Len(stages)
         /\ \A i \in 1..Len(shown) : \E j \in 1..Len(stages) : shown[i] = stages[j]
<1> DEFINE keep == {i \in DOMAIN stages : stages[i] \notin InternalStages \union {"done", "error"}}
           T == {stages[i] : i \in 1..Len(stages)}
<1>1. T \subseteq Stages /\ \A n \in 1..Len(stages) : n \in keep => stages[n] \in T
  OBVIOUS
<1>2. Pick(stages, keep) \in Seq(T) /\ Len(Pick(stages, keep)) <= Len(stages)
  <2> HIDE DEF T, keep
  <2> QED BY <1>1, PickFacts
<1>3. Shown(stages) = Pick(stages, keep)
  BY DEF Shown
<1> HIDE DEF keep
<1>4. \A i \in 1..Len(Shown(stages)) : Shown(stages)[i] \in T
  BY <1>2, <1>3
<1>5. Shown(stages) \in Seq(Stages)
  BY <1>1, <1>2, <1>3
<1> QED BY <1>2, <1>3, <1>4, <1>5

\* Showing a run's stages one part after the other shows them all.
LEMMA ShownConcat ==
  ASSUME NEW a \in Seq(Stages), NEW b \in Seq(Stages)
  PROVE  Shown(a \o b) = Shown(a) \o Shown(b)
<1> DEFINE Hidden == InternalStages \union {"done", "error"}
           keepA == {i \in DOMAIN a : a[i] \notin Hidden}
           keepB == {i \in DOMAIN b : b[i] \notin Hidden}
           keep == {i \in DOMAIN (a \o b) : (a \o b)[i] \notin Hidden}
<1> HIDE DEF Hidden
<1>1. /\ DOMAIN a = 1..Len(a) /\ DOMAIN b = 1..Len(b) /\ DOMAIN (a \o b) = 1..(Len(a) + Len(b))
      /\ Len(a) \in Nat /\ Len(b) \in Nat
  OBVIOUS
<1>2. /\ \A n \in 1..Len(a) : (a \o b)[n] = a[n] /\ n \in DOMAIN (a \o b)
      /\ \A n \in 1..Len(b) : (a \o b)[Len(a) + n] = b[n] /\ Len(a) + n \in DOMAIN (a \o b)
  OBVIOUS
<1>3. \A n \in 1..Len(a) : n \in keep <=> n \in keepA
  BY <1>1, <1>2
<1>4. \A n \in 1..Len(b) : Len(a) + n \in keep <=> n \in keepB
  BY <1>1, <1>2
<1>5. Shown(a \o b) = Pick(a \o b, keep) /\ Shown(a) = Pick(a, keepA) /\ Shown(b) = Pick(b, keepB)
  BY DEF Shown, Hidden
<1> HIDE DEF keep, keepA, keepB
<1> QED BY <1>3, <1>4, <1>5, PickConcat

LEMMA SubSeqFacts ==
  ASSUME NEW T, NEW s \in Seq(T), NEW m \in Nat, NEW n \in Nat, n <= Len(s)
  PROVE  /\ SubSeq(s, m + 1, n) \in Seq(T)
         /\ Len(SubSeq(s, m + 1, n)) = IF m < n THEN n - m ELSE 0
         /\ \A i \in 1..Len(SubSeq(s, m + 1, n)) : SubSeq(s, m + 1, n)[i] = s[m + i]
OBVIOUS

LEMMA SubSeqOfSubSeq ==
  ASSUME NEW T, NEW s \in Seq(T), NEW m \in Nat, NEW k \in Nat, k <= Len(s) - m
  PROVE  SubSeq(SubSeq(s, m + 1, Len(s)), 1, k) = SubSeq(s, m + 1, m + k)
<1> DEFINE t == SubSeq(s, m + 1, Len(s))
<1>1. Len(s) \in Nat
  OBVIOUS
<1>2. CASE k = 0
  BY <1>1, <1>2
<1>3. CASE k # 0
  <2>1. /\ t \in Seq(T) /\ Len(t) = Len(s) - m /\ \A i \in 1..Len(t) : t[i] = s[m + i]
    BY <1>1, <1>3, SubSeqFacts
  <2>2. SubSeq(s, m + 1, m + k) = [i \in 1..k |-> s[m + i]]
    BY <1>1, <1>3
  <2> HIDE DEF t
  <2>3. SubSeq(t, 1, k) = [i \in 1..k |-> t[i]]
    BY <1>1, <1>3, <2>1
  <2>4. \A i \in 1..k : t[i] = s[m + i]
    BY <1>1, <2>1
  <2> QED BY <2>2, <2>3, <2>4 DEF t
<1> QED BY <1>2, <1>3

LEMMA ObserveFacts ==
  ASSUME NEW o \in Observations, NEW stages
  PROVE  Observe(o, stages) \in Observations
BY DEF Observe, Observations

\* What a reading of the log does: with own the run's stages in the log, it
\* goes through those from relayed + 1 to the k-th.
Handles(p, own, k) ==
  /\ k <= Len(own)
  /\ \A i \in (relayed[p] + 1)..(k - 1) : own[i] \notin TerminalStages
  /\ milestones' = [milestones EXCEPT ![p] =
                      IF connected[p] THEN @ \o Shown(SubSeq(own, relayed[p] + 1, k)) ELSE @]
  /\ \/ /\ k = Len(own) /\ relayed' = [relayed EXCEPT ![p] = k]
        /\ k > relayed[p] => own[k] \notin TerminalStages
        /\ Continue(p, "feed") \/ (~connected[p] /\ Close(p, "abandoned"))
     \/ /\ k > relayed[p] /\ relayed' = relayed
        /\ \/ own[k] \in DoneStages /\ Continue(p, "ensure")
           \/ own[k] = "error" /\ Close(p, "AGENT_RUN_FAILED")
           \/ ~connected[p] /\ Close(p, "abandoned")

LEMMA ReadKvHandles ==
  ASSUME TypeOK, NEW p \in Passes, ReadKv(p)
  PROVE  \E k \in Nat : Handles(p, StagesOf(p, progress), k)
<1> DEFINE own == StagesOf(p, progress)
           new == SubSeq(own, relayed[p] + 1, Len(own))
           terminals == {i \in DOMAIN new : new[i] \in TerminalStages}
           last == IF terminals = {} THEN "none" ELSE new[Min(terminals)]
           handled == IF terminals = {} THEN new ELSE SubSeq(new, 1, Min(terminals))
           shown == Shown(handled)
<1>1. own \in Seq(Stages) /\ relayed[p] \in Nat /\ Len(own) \in Nat
  <2>1. progress \in Seq(Entry) /\ relayed[p] \in Nat
    BY SomethingIsRecorded DEF TypeOK
  <2>2. own \in Seq(Stages)
    BY <2>1, StagesFacts
  <2> HIDE DEF own
  <2> QED BY <2>1, <2>2
<1>2. /\ relayed' = [relayed EXCEPT ![p] = IF last = "none" THEN Len(own) ELSE @]
      /\ milestones' = [milestones EXCEPT ![p] = IF connected[p] THEN @ \o shown ELSE @]
      /\ IF shown # <<>> /\ ~connected[p] THEN Close(p, "abandoned")
         ELSE IF last = "error" THEN Close(p, "AGENT_RUN_FAILED")
         ELSE Continue(p, IF last = "none" THEN "feed" ELSE "ensure")
  BY DEF ReadKv, Unrelayed
<1> HIDE DEF own
<1>3. /\ new \in Seq(Stages) /\ Len(new) = IF relayed[p] < Len(own) THEN Len(own) - relayed[p] ELSE 0
      /\ \A i \in 1..Len(new) : new[i] = own[relayed[p] + i]
  <2> DEFINE r == relayed[p]
  <2>1. r \in Nat /\ Len(own) \in Nat /\ Len(own) <= Len(own) /\ own \in Seq(Stages)
    BY <1>1
  <2> DEFINE rest == SubSeq(own, r + 1, Len(own))
  <2> HIDE DEF r, new
  <2>2. /\ rest \in Seq(Stages) /\ Len(rest) = IF r < Len(own) THEN Len(own) - r ELSE 0
        /\ \A i \in 1..Len(rest) : rest[i] = own[r + i]
    BY <2>1, SubSeqFacts
  <2>3. new = rest
    BY DEF new, r
  <2> HIDE DEF rest
  <2> QED BY <2>2, <2>3 DEF r
<1>4. DOMAIN new = 1..Len(new) /\ Len(new) \in Nat
  BY <1>3
<1> HIDE DEF new
<1>5. \A i \in 1..Len(new) : i \notin terminals => own[relayed[p] + i] \notin TerminalStages
  BY <1>3, <1>4
<1>6. CASE terminals = {}
  <2>1. last = "none" /\ handled = SubSeq(own, relayed[p] + 1, Len(own))
    BY <1>6 DEF new
  <2>2. \A i \in (relayed[p] + 1)..Len(own) : own[i] \notin TerminalStages
    <3> TAKE i \in (relayed[p] + 1)..Len(own)
    <3>1. i - relayed[p] \in 1..Len(new) /\ relayed[p] + (i - relayed[p]) = i
      BY <1>1, <1>3
    <3> QED BY <1>5, <1>6, <3>1
  <2>3. Continue(p, "feed") \/ (~connected[p] /\ Close(p, "abandoned"))
    BY <1>2, <2>1
  <2>4. relayed' = [relayed EXCEPT ![p] = Len(own)]
    BY <1>2, <2>1
  <2>5. milestones' = [milestones EXCEPT ![p] =
           IF connected[p] THEN @ \o Shown(SubSeq(own, relayed[p] + 1, Len(own))) ELSE @]
    BY <1>2, <2>1
  <2> HIDE DEF last, handled, terminals
  <2>6. Handles(p, own, Len(own))
    BY <1>1, <2>2, <2>3, <2>4, <2>5 DEF Handles
  <2> QED BY <1>1, <2>6 DEF own
<1>7. CASE terminals # {}
  <2> DEFINE m == Min(terminals)
             k == relayed[p] + m
  <2>1. terminals \in SUBSET Nat
    BY <1>4
  <2>2. m \in terminals /\ \A i \in terminals : m <= i
    <3> HIDE DEF terminals
    <3> QED BY <1>7, <2>1, MinFacts
  <2>3. m \in 1..Len(new) /\ new[m] \in TerminalStages /\ last = new[m] /\ handled = SubSeq(new, 1, m)
    BY <1>4, <1>7, <2>2
  <2> HIDE DEF m
  <2>4. k \in Nat /\ k <= Len(own) /\ k > relayed[p] /\ own[k] = last /\ m <= Len(own) - relayed[p]
    <3> DEFINE n == Len(new)  l == Len(own)  r == relayed[p]
    <3>1. r \in Nat /\ l \in Nat /\ n = (IF r < l THEN l - r ELSE 0) /\ m \in 1..n
      BY <1>1, <1>3, <2>3
    <3>2. new[m] = own[k]
      BY <1>3, <2>3
    <3> HIDE DEF n, l, r, last
    <3>3. r + m \in Nat /\ r + m <= l /\ r + m > r /\ m <= l - r
      BY <3>1
    <3>4. last = new[m]
      BY <2>3
    <3> QED BY <3>2, <3>3, <3>4 DEF l, r
  <2>5. handled = SubSeq(own, relayed[p] + 1, k)
    <3>1. SubSeq(SubSeq(own, relayed[p] + 1, Len(own)), 1, m) = SubSeq(own, relayed[p] + 1, relayed[p] + m)
      <4> DEFINE r == relayed[p]
      <4>1. m \in Nat /\ r \in Nat /\ m <= Len(own) - r /\ own \in Seq(Stages)
        BY <1>1, <1>4, <2>3, <2>4
      <4> HIDE DEF r, k, handled, last, terminals
      <4>2. SubSeq(SubSeq(own, r + 1, Len(own)), 1, m) = SubSeq(own, r + 1, r + m)
        BY <4>1, SubSeqOfSubSeq
      <4> QED BY <4>2 DEF r
    <3> QED BY <2>3, <3>1 DEF new
  <2>6. \A i \in (relayed[p] + 1)..(k - 1) : own[i] \notin TerminalStages
    <3> TAKE i \in (relayed[p] + 1)..(k - 1)
    <3>1. m \in Nat /\ relayed[p] \in Nat /\ m <= Len(new) /\ Len(new) \in Nat
      BY <1>1, <1>4, <2>3
    <3>2. /\ i - relayed[p] \in 1..Len(new) /\ relayed[p] + (i - relayed[p]) = i
          /\ ~(m <= i - relayed[p])
      BY <3>1
    <3> QED BY <1>5, <2>2, <3>2
  <2> HIDE DEF k, handled, last, terminals
  <2>7. last # "none" /\ (last = "error" \/ last \in DoneStages)
    BY <2>3 DEF TerminalStages, DoneStages
  <2>8. relayed' = relayed
    BY <1>2, <2>7 DEF TypeOK
  <2>9. \/ own[k] \in DoneStages /\ Continue(p, "ensure")
        \/ own[k] = "error" /\ Close(p, "AGENT_RUN_FAILED")
        \/ ~connected[p] /\ Close(p, "abandoned")
    BY <1>2, <2>4, <2>7
  <2>10. milestones' = [milestones EXCEPT ![p] =
            IF connected[p] THEN @ \o Shown(SubSeq(own, relayed[p] + 1, k)) ELSE @]
    BY <1>2, <2>5
  <2>11. Handles(p, own, k)
    BY <2>4, <2>6, <2>8, <2>9, <2>10 DEF Handles
  <2> QED BY <2>4, <2>11 DEF own
<1> QED BY <1>6, <1>7

\* The log a pass begins with holds one entry of each of the runs before it.
LEMMA InitialLog ==
  ASSUME Init
  PROVE  /\ progress \in Seq(Entry) /\ Len(progress) <= MaxEntries
         /\ \A i \in 1..Len(progress) : progress[i].run \in Prior /\ progress[i].stage = "done"
<1> DEFINE E == {[run |-> r, stage |-> "done"] : r \in Prior}
<1>1. IsFiniteSet(E) /\ Cardinality(E) <= Cardinality(Prior)
  <2> DEFINE f == [r \in Prior |-> [run |-> r, stage |-> "done"]]
  <2>1. f \in Surjection(Prior, E)
    BY DEF Surjection
  <2> HIDE DEF f, E
  <2> QED BY <2>1, FS_Surjection, PriorRunsAreLogged
<1>2. Cardinality(E) \in Nat /\ ExistsBijection(1..Cardinality(E), E)
  BY <1>1, FS_CardinalityType
<1>3. \E f \in [1..Cardinality(E) -> E] : IsInjective(f)
  BY <1>2 DEF ExistsBijection, Bijection, Injection, IsInjective
<1>4. progress \in [1..Cardinality(E) -> E]
  BY <1>3 DEF Init, SetToSeq
<1>5. Cardinality(E) <= MaxEntries
  <2>1. Cardinality(Prior) \in Nat
    BY PriorRunsAreLogged, FS_CardinalityType
  <2> HIDE DEF E
  <2> QED BY <1>1, <1>2, <2>1, PriorRunsAreLogged, SomethingIsRecorded
<1>6. \A e \in E : e \in Entry /\ e.run \in Prior /\ e.stage = "done"
  BY RunsAreNamedApart, PriorRunsAreLogged DEF Entry, Runs
<1> HIDE DEF E
<1>7. progress \in Seq(Entry) /\ Len(progress) = Cardinality(E)
  BY <1>2, <1>4, <1>6
<1> QED BY <1>2, <1>4, <1>5, <1>6, <1>7

-----------------------------------------------------------------------------
(* Type correctness                                                        *)

Awaits == {"route", "deploy", "snapshot", "check", "kv", "feed", "page"} \union Finishing
            \union {"closed"}

Outcomes == {"none", "done", "abandoned", "IDEA_NOT_FOUND", "AGENT_UNAVAILABLE",
             "AGENT_RUN_FAILED", "AGENT_RUN_TIMEOUT", "BUILD_FAILED"}

\* The two variables that every step of a pass sets.
Placed == pc \in [Passes -> Awaits] /\ outcome \in [Passes -> Outcomes]

\* All the others, grouped by who owns them.
OutsideTyped ==
  /\ now \in 0..MaxTime
  /\ progress \in Seq(Entry) /\ Len(progress) <= MaxEntries
  /\ timeline \in 0..MaxVersion
  /\ service \in BOOLEAN
  /\ idea \in [exists : BOOLEAN, live : BOOLEAN, error : BOOLEAN, version : 0..MaxVersion]

RuntimeTyped ==
  /\ state \in [Runs -> {"idle", "running", "ended"}]
  /\ startedAt \in [Runs -> Int]
  /\ latest \in Runs \union {None}
  /\ feed \in [Runs -> 0..MaxFeed]
  /\ copy \in [Runs -> Seq(Entry) \union {None}]
  /\ wrote \in [Runs -> Seq(Stages)]

PassesTyped ==
  /\ started \in [Passes -> Nat \union {None}]
  /\ invokeFailed \in [Passes -> BOOLEAN]
  /\ relayed \in [Passes -> 0..MaxEntries]
  /\ bound \in [Passes -> Runs \union {None}]
  /\ after \in [Passes -> 0..MaxFeed]
  /\ feedDone \in [Passes -> BOOLEAN]
  /\ feedDoneAt \in [Passes -> Nat \union {None}]
  /\ observed \in [Passes -> Observations]
  /\ fetched \in [Passes -> 0..MaxVersion]
  /\ connected \in [Passes -> BOOLEAN]
  /\ milestones \in [Passes -> Seq(Stages)]
  /\ activity \in [Passes -> SUBSET Runs]

LEMMA TypedInParts == TypeOK <=> OutsideTyped /\ RuntimeTyped /\ PassesTyped /\ Placed
<1>1. /\ {"route", "deploy", "snapshot", "check", "kv", "feed", "page", "ensure", "resolve",
          "stop", "start", "record", "sync", "finish", "closed"} = Awaits
      /\ {"none", "done", "abandoned", "IDEA_NOT_FOUND", "AGENT_UNAVAILABLE", "AGENT_RUN_FAILED",
          "AGENT_RUN_TIMEOUT", "BUILD_FAILED"} = Outcomes
  BY DEF Awaits, Outcomes, Finishing
<1> HIDE DEF Awaits, Outcomes
<1> QED BY <1>1 DEF TypeOK, OutsideTyped, RuntimeTyped, PassesTyped, Placed

LEMMA TypedNext ==
  ASSUME OutsideTyped', RuntimeTyped', PassesTyped', Placed'
  PROVE  TypeOK'
BY TypedInParts, PTL

LEMMA ContinuePlaced ==
  ASSUME Placed, NEW p \in Passes, NEW await \in Awaits, Continue(p, await)
  PROVE  Placed' /\ pc' = [pc EXCEPT ![p] = await] /\ outcome' = outcome /\ pc'[p] = await
BY DEF Placed, Continue

LEMMA ClosePlaced ==
  ASSUME Placed, NEW p \in Passes, NEW event \in Outcomes, Close(p, event)
  PROVE  /\ Placed' /\ pc' = [pc EXCEPT ![p] = "closed"] /\ pc'[p] = "closed"
         /\ outcome' = [outcome EXCEPT ![p] = IF connected[p] THEN event ELSE "abandoned"]
         /\ outcome'[p] \in {event, "abandoned"}
<1>1. "abandoned" \in Outcomes /\ "closed" \in Awaits
  BY DEF Outcomes, Awaits
<1> HIDE DEF Outcomes, Awaits
<1> QED BY <1>1 DEF Placed, Close

LEMMA EmitPlaced ==
  ASSUME Placed, NEW p \in Passes, NEW await \in Awaits, EmitThen(p, await)
  PROVE  /\ Placed'
         /\ \/ pc' = [pc EXCEPT ![p] = await] /\ outcome' = outcome /\ pc'[p] = await
            \/ /\ pc' = [pc EXCEPT ![p] = "closed"] /\ pc'[p] = "closed" /\ ~connected[p]
               /\ outcome' = [outcome EXCEPT ![p] = "abandoned"] /\ outcome'[p] = "abandoned"
<1>1. "abandoned" \in Outcomes /\ "closed" \in Awaits
  BY DEF Outcomes, Awaits
<1> HIDE DEF Outcomes, Awaits
<1> QED BY <1>1 DEF Placed, EmitThen, Continue, Close

LEMMA InitTypeOK == Init => TypeOK
<1> SUFFICES ASSUME Init PROVE TypeOK
  OBVIOUS
<1> USE RunsAreNamedApart, PeriodsArePositive, SomethingIsRecorded, BoundsAreNumbers,
        PriorRunsAreLogged
<1>1. MaxTime \in Nat /\ 0 \in 0..MaxTime /\ 0 \in 0..MaxVersion /\ 0 \in 0..MaxFeed
      /\ MaxFeed \in 0..MaxFeed /\ 0 \in 0..MaxEntries
  BY DEF MaxTime
<1>2. progress \in Seq(Entry) /\ Len(progress) <= MaxEntries
  BY InitialLog DEF Init
<1>3. OutsideTyped
  BY <1>1, <1>2 DEF Init, OutsideTyped
<1>4. RuntimeTyped
  <2>1. startedAt \in [Runs -> Int]
    BY DEF Init
  <2>2. wrote \in [Runs -> Seq(Stages)]
    <3>1. \A r \in Prior : <<"done">> \in Seq(Stages)
      OBVIOUS
    <3> QED BY <3>1 DEF Init
  <2>3. latest \in Runs \union {None}
    BY DEF Init, Runs
  <2>4. feed \in [Runs -> 0..MaxFeed]
    BY <1>1 DEF Init
  <2> QED BY <2>1, <2>2, <2>3, <2>4 DEF Init, RuntimeTyped
<1>5. PassesTyped
  BY <1>1 DEF Init, PassesTyped, Observations
<1>6. Placed
  BY DEF Init, Placed, Awaits, Outcomes
<1> QED BY <1>3, <1>4, <1>5, <1>6, TypedInParts

\* Steps that leave alone all of a part.
LEMMA OutsideKept ==
  ASSUME OutsideTyped, UNCHANGED <<now, cell, idea>>
  PROVE  OutsideTyped'
BY DEF OutsideTyped, cell

LEMMA RuntimeKept ==
  ASSUME RuntimeTyped, UNCHANGED runtime
  PROVE  RuntimeTyped'
BY DEF RuntimeTyped, runtime

LEMMA PassesKept ==
  ASSUME PassesTyped,
         UNCHANGED <<started, invokeFailed, relayed, poller, observed, fetched, stream>>
  PROVE  PassesTyped'
BY DEF PassesTyped, poller, stream

LEMMA AllPassesKept ==
  ASSUME PassesTyped, Placed, UNCHANGED passes
  PROVE  PassesTyped' /\ Placed'
BY DEF PassesTyped, Placed, passes, poller, stream

LEMMA StartRunType == ASSUME TypeOK, NEW r \in Runs, StartRun(r) PROVE TypeOK'
<1>0. OutsideTyped /\ RuntimeTyped /\ PassesTyped /\ Placed
  BY TypedInParts
<1> USE <1>0
<1>1. OutsideTyped' /\ PassesTyped' /\ Placed'
  BY OutsideKept, AllPassesKept DEF StartRun
<1>2. startedAt' \in [Runs -> Int]
  <2>1. now - HostLag \in Int
    BY PeriodsArePositive DEF OutsideTyped
  <2> QED BY <2>1 DEF RuntimeTyped, StartRun
<1>3. RuntimeTyped'
  BY <1>2 DEF RuntimeTyped, StartRun
<1> QED BY <1>1, <1>3, TypedNext

LEMMA ReadProgressType == ASSUME TypeOK, NEW r \in Runs, ReadProgress(r) PROVE TypeOK'
<1>0. OutsideTyped /\ RuntimeTyped /\ PassesTyped /\ Placed
  BY TypedInParts
<1> USE <1>0
<1>1. OutsideTyped' /\ PassesTyped' /\ Placed'
  BY OutsideKept, AllPassesKept DEF ReadProgress
<1>2. RuntimeTyped'
  BY DEF RuntimeTyped, OutsideTyped, ReadProgress
<1> QED BY <1>1, <1>2, TypedNext

\* Trimming keeps the newest entries, and keeps what was written last.
LEMMA NewestFacts ==
  ASSUME NEW entries \in Seq(Entry)
  PROVE  LET kept == Newest(entries)
             d == Len(entries) - Len(kept) IN
         /\ kept \in Seq(Entry) /\ d \in Nat
         /\ IF Len(entries) > MaxEntries THEN Len(kept) = MaxEntries ELSE kept = entries
         /\ \A i \in 1..Len(kept) : kept[i] = entries[d + i]
<1>1. Len(entries) \in Nat /\ MaxEntries \in Nat \ {0}
  BY SomethingIsRecorded
<1>2. CASE Len(entries) > MaxEntries
  <2> DEFINE m == Len(entries) - MaxEntries
  <2>1. m \in Nat /\ m < Len(entries) /\ Len(entries) - m = MaxEntries /\ Len(entries) - MaxEntries = m
    BY <1>1, <1>2
  <2>2. Newest(entries) = SubSeq(entries, m + 1, Len(entries))
    BY <1>2 DEF Newest
  <2> HIDE DEF m
  <2> DEFINE kept == SubSeq(entries, m + 1, Len(entries))
  <2>3. /\ kept \in Seq(Entry) /\ Len(kept) = (IF m < Len(entries) THEN Len(entries) - m ELSE 0)
        /\ \A i \in 1..Len(kept) : kept[i] = entries[m + i]
    BY <1>1, <2>1, SubSeqFacts
  <2> HIDE DEF kept
  <2>4. Len(kept) = MaxEntries /\ Len(entries) - Len(kept) = m
    BY <1>1, <2>1, <2>3
  <2>5. Newest(entries) = kept
    BY <2>2 DEF kept
  <2> QED BY <1>2, <2>1, <2>3, <2>4, <2>5
<1>3. CASE ~(Len(entries) > MaxEntries)
  <2>1. Newest(entries) = SubSeq(entries, 1, Len(entries))
    BY <1>3 DEF Newest
  <2>2. SubSeq(entries, 1, Len(entries)) = entries
    OBVIOUS
  <2>3. Len(entries) - Len(entries) = 0 /\ \A i \in 1..Len(entries) : 0 + i = i
    BY <1>1
  <2>4. Newest(entries) = entries
    BY <2>1, <2>2
  <2>5. \A i \in 1..Len(entries) : entries[i] = entries[0 + i]
    BY <2>3
  <2> QED BY <1>3, <2>3, <2>4, <2>5
<1> QED BY <1>2, <1>3

LEMMA WriteProgressType == ASSUME TypeOK, NEW r \in Runs, WriteProgress(r) PROVE TypeOK'
<1>0. OutsideTyped /\ RuntimeTyped /\ PassesTyped /\ Placed
  BY TypedInParts
<1> USE <1>0
<1>1. PassesTyped' /\ Placed'
  BY AllPassesKept DEF WriteProgress
<1>2. PICK stage \in Stages :
        /\ progress' = Newest(Append(copy[r], [run |-> r, stage |-> stage]))
        /\ wrote' = [wrote EXCEPT ![r] = Append(@, stage)]
  BY DEF WriteProgress
<1>3. Append(copy[r], [run |-> r, stage |-> stage]) \in Seq(Entry)
  <2>1. copy[r] \in Seq(Entry) /\ [run |-> r, stage |-> stage] \in Entry
    BY DEF RuntimeTyped, WriteProgress, Entry
  <2> QED BY <2>1
<1>4. progress' \in Seq(Entry) /\ Len(progress') <= MaxEntries
  <2> DEFINE all == Append(copy[r], [run |-> r, stage |-> stage])
  <2>1. all \in Seq(Entry) /\ progress' = Newest(all)
    BY <1>2, <1>3
  <2> HIDE DEF all
  <2>2. /\ Newest(all) \in Seq(Entry)
        /\ IF Len(all) > MaxEntries THEN Len(Newest(all)) = MaxEntries ELSE Newest(all) = all
    BY <2>1, NewestFacts
  <2>3. Len(all) \in Nat /\ MaxEntries \in Nat
    BY <2>1, SomethingIsRecorded
  <2> QED BY <2>1, <2>2, <2>3
<1>5. OutsideTyped'
  BY <1>4 DEF OutsideTyped, WriteProgress
<1>6. wrote' \in [Runs -> Seq(Stages)]
  BY <1>2 DEF RuntimeTyped
<1>7. RuntimeTyped'
  BY <1>6 DEF RuntimeTyped, WriteProgress
<1> QED BY <1>1, <1>5, <1>7, TypedNext

LEMMA WorkType == ASSUME TypeOK, NEW r \in Runs, Work(r) PROVE TypeOK'
<1>0. OutsideTyped /\ RuntimeTyped /\ PassesTyped /\ Placed
  BY TypedInParts
<1> USE <1>0
<1>1. PassesTyped' /\ Placed'
  BY AllPassesKept DEF Work
<1>2. timeline' \in 0..MaxVersion /\ service' \in BOOLEAN
  BY BoundsAreNumbers DEF OutsideTyped, Work
<1>3. OutsideTyped'
  BY <1>2 DEF OutsideTyped, Work
<1>4. feed' \in [Runs -> 0..MaxFeed]
  BY BoundsAreNumbers DEF RuntimeTyped, Work
<1>5. RuntimeTyped'
  BY <1>4 DEF RuntimeTyped, Work
<1> QED BY <1>1, <1>3, <1>5, TypedNext

LEMMA EndRunType == ASSUME TypeOK, NEW r \in Runs, EndRun(r) PROVE TypeOK'
<1>0. OutsideTyped /\ RuntimeTyped /\ PassesTyped /\ Placed
  BY TypedInParts
<1> USE <1>0
<1>1. OutsideTyped' /\ PassesTyped' /\ Placed'
  BY OutsideKept, AllPassesKept DEF EndRun
<1>2. RuntimeTyped'
  BY DEF RuntimeTyped, EndRun
<1> QED BY <1>1, <1>2, TypedNext

LEMMA AroundType ==
  ASSUME TypeOK, Tick \/ AppCrash \/ DeleteIdea
  PROVE  TypeOK'
<1>0. OutsideTyped /\ RuntimeTyped /\ PassesTyped /\ Placed
  BY TypedInParts
<1> USE <1>0
<1>1. PassesTyped' /\ Placed' /\ RuntimeTyped'
  BY AllPassesKept, RuntimeKept DEF Tick, AppCrash, DeleteIdea
<1>2. OutsideTyped'
  <2>1. CASE Tick
    <3>1. now' \in 0..MaxTime
      BY <2>1, PeriodsArePositive DEF OutsideTyped, Tick, MaxTime
    <3> QED BY <2>1, <3>1 DEF OutsideTyped, Tick, cell
  <2>2. CASE AppCrash
    BY <2>2 DEF OutsideTyped, AppCrash
  <2>3. CASE DeleteIdea
    BY <2>3, BoundsAreNumbers DEF OutsideTyped, DeleteIdea, cell
  <2> QED BY <2>1, <2>2, <2>3
<1> QED BY <1>1, <1>2, TypedNext

\* Steps of a pass that say only where it goes on, or how its stream ends.
Hops(p) ==
  Route(p) \/ Deploy(p) \/ SnapshotFails(p) \/ Check(p) \/ KvReadFails(p) \/ AppIsUp(p) \/ AppLooksDown(p)

LEMMA AwaitNames ==
  /\ {"route", "deploy", "snapshot", "check", "kv", "feed", "page", "ensure", "resolve", "stop",
      "start", "record", "sync", "finish", "closed"} \subseteq Awaits
  /\ {"done", "abandoned", "IDEA_NOT_FOUND", "AGENT_UNAVAILABLE", "AGENT_RUN_FAILED",
      "AGENT_RUN_TIMEOUT", "BUILD_FAILED"} \subseteq Outcomes
BY DEF Awaits, Finishing, Outcomes

LEMMA HopPlaced ==
  ASSUME Placed, NEW p \in Passes, Hops(p)
  PROVE  Placed' /\ \A q \in Passes \ {p} : pc'[q] = pc[q] /\ outcome'[q] = outcome[q]
<1> USE AwaitNames
<1>1. ASSUME NEW await \in Awaits, Continue(p, await)
      PROVE  Placed' /\ \A q \in Passes \ {p} : pc'[q] = pc[q] /\ outcome'[q] = outcome[q]
  BY <1>1, ContinuePlaced DEF Placed
<1>2. ASSUME NEW event \in Outcomes, Close(p, event)
      PROVE  Placed' /\ \A q \in Passes \ {p} : pc'[q] = pc[q] /\ outcome'[q] = outcome[q]
  BY <1>2, ClosePlaced DEF Placed
<1>3. \/ \E await \in {"deploy", "snapshot", "kv", "feed", "sync", "resolve", "stop"} : Continue(p, await)
      \/ \E event \in {"abandoned", "IDEA_NOT_FOUND", "AGENT_UNAVAILABLE", "AGENT_RUN_TIMEOUT",
                       "BUILD_FAILED"} : Close(p, event)
  BY DEF Hops, Route, Deploy, SnapshotFails, Check, KvReadFails, AppIsUp, AppLooksDown, EmitThen
<1> QED BY <1>1, <1>2, <1>3

LEMMA HopType == ASSUME TypeOK, NEW p \in Passes, Hops(p) PROVE TypeOK'
<1>1. OutsideTyped /\ RuntimeTyped /\ PassesTyped /\ Placed
  BY TypedInParts
<1>2. UNCHANGED <<now, cell, runtime, idea, started, invokeFailed, relayed, poller, observed,
                  fetched, stream>>
  BY DEF Hops, Route, Deploy, SnapshotFails, Check, KvReadFails, AppIsUp, AppLooksDown
<1>3. OutsideTyped' /\ RuntimeTyped' /\ PassesTyped'
  BY <1>1, <1>2, OutsideKept, RuntimeKept, PassesKept
<1> QED BY <1>1, <1>3, HopPlaced, TypedNext

LEMMA SnapshotType == ASSUME TypeOK, NEW p \in Passes, SnapshotAndInvoke(p) PROVE TypeOK'
<1>1. OutsideTyped /\ RuntimeTyped /\ PassesTyped /\ Placed
  BY TypedInParts
<1>2. OutsideTyped' /\ RuntimeTyped' /\ Placed'
  BY <1>1, OutsideKept, RuntimeKept, ContinuePlaced, AwaitNames DEF SnapshotAndInvoke
<1>3. PassesTyped'
  BY <1>1 DEF PassesTyped, OutsideTyped, SnapshotAndInvoke, poller, stream
<1> QED BY <1>2, <1>3, TypedNext

\* The browser leaves, or the invocation is answered with an error.
LEMMA SignalType ==
  ASSUME TypeOK, NEW p \in Passes, Disconnect(p) \/ InvokeFails(p) PROVE TypeOK'
<1>1. OutsideTyped /\ RuntimeTyped /\ PassesTyped /\ Placed
  BY TypedInParts
<1>2. OutsideTyped' /\ RuntimeTyped' /\ Placed'
  BY <1>1, OutsideKept, RuntimeKept DEF Disconnect, InvokeFails, Placed
<1>3. PassesTyped'
  BY <1>1 DEF PassesTyped, Disconnect, InvokeFails, poller, stream
<1> QED BY <1>2, <1>3, TypedNext

LEMMA ReadKvType == ASSUME TypeOK, NEW p \in Passes, ReadKv(p) PROVE TypeOK'
<1>1. OutsideTyped /\ RuntimeTyped /\ PassesTyped /\ Placed
  BY TypedInParts
<1>2. PICK k \in Nat : Handles(p, StagesOf(p, progress), k)
  BY ReadKvHandles
<1> DEFINE own == StagesOf(p, progress)
           handled == SubSeq(own, relayed[p] + 1, k)
<1>3. own \in Seq(Stages) /\ Len(own) <= MaxEntries /\ Len(own) \in Nat
  <2>1. progress \in Seq(Entry) /\ Len(progress) \in Nat
    BY <1>1 DEF OutsideTyped
  <2>2. own \in Seq(Stages) /\ Len(own) <= Len(progress)
    BY <2>1, StagesFacts
  <2> HIDE DEF own
  <2>3. Len(own) \in Nat
    BY <2>2
  <2> QED BY <1>1, <2>1, <2>2, <2>3, SomethingIsRecorded DEF OutsideTyped
<1> HIDE DEF own
<1>4. handled \in Seq(Stages)
  BY <1>1, <1>2, <1>3, SubSeqFacts, SomethingIsRecorded DEF Handles, own, PassesTyped
<1>5. Shown(handled) \in Seq(Stages)
  BY <1>4, ShownFacts
<1>6. milestones' \in [Passes -> Seq(Stages)]
  <2> HIDE DEF handled
  <2>1. milestones' = [milestones EXCEPT ![p] = IF connected[p] THEN @ \o Shown(handled) ELSE @]
    BY <1>2 DEF Handles, handled, own
  <2>2. milestones[p] \o Shown(handled) \in Seq(Stages)
    BY <1>1, <1>5 DEF PassesTyped
  <2> QED BY <1>1, <2>1, <2>2 DEF PassesTyped
<1>7. relayed' \in [Passes -> 0..MaxEntries]
  <2>1. k <= Len(own) /\ (relayed' = relayed \/ relayed' = [relayed EXCEPT ![p] = k])
    BY <1>2 DEF Handles, own
  <2>2. k \in 0..MaxEntries
    BY <1>3, <2>1, SomethingIsRecorded
  <2> QED BY <1>1, <2>1, <2>2 DEF PassesTyped
<1>8. Placed'
  BY <1>1, <1>2, ContinuePlaced, ClosePlaced, AwaitNames DEF Handles
<1>9. observed' \in [Passes -> Observations]
  <2>1. \E some : observed' = [observed EXCEPT ![p] = Observe(@, some)]
    BY DEF ReadKv
  <2> QED BY <1>1, <2>1, ObserveFacts DEF PassesTyped
<1>10. OutsideTyped' /\ RuntimeTyped'
  BY <1>1, OutsideKept, RuntimeKept DEF ReadKv
<1>11. PassesTyped'
  BY <1>1, <1>6, <1>7, <1>9 DEF PassesTyped, ReadKv, poller
<1> QED BY <1>8, <1>10, <1>11, TypedNext

LEMMA AfterPollFacts ==
  ASSUME TypeOK, NEW p \in Passes, NEW done \in BOOLEAN, AfterPoll(p, done)
  PROVE  /\ Placed' /\ feedDoneAt' \in [Passes -> Nat \union {None}]
         /\ outcome' = outcome /\ pc'[p] \in {"check", "ensure"}
         /\ feedDoneAt'[p] = (IF done /\ feedDoneAt[p] = None THEN now ELSE feedDoneAt[p])
         /\ \A q \in Passes \ {p} : pc'[q] = pc[q] /\ feedDoneAt'[q] = feedDoneAt[q]
         /\ pc'[p] = "ensure" => feedDoneAt[p] # None /\ feedDoneAt'[p] = feedDoneAt[p]
<1>1. Placed /\ PassesTyped /\ now \in Nat
  BY TypedInParts DEF OutsideTyped
<1> DEFINE since == IF done /\ feedDoneAt[p] = None THEN now ELSE feedDoneAt[p]
           over == since # None /\ now - since >= FeedTail
<1>2. since \in Nat \union {None}
  BY <1>1 DEF PassesTyped
<1>3. over => feedDoneAt[p] # None
  BY <1>1, PeriodsArePositive
<1>4. feedDoneAt' = [feedDoneAt EXCEPT ![p] = since]
  BY DEF AfterPoll
<1>5. Continue(p, IF over THEN "ensure" ELSE "check")
  BY DEF AfterPoll
<1> HIDE DEF over
<1>6. /\ Placed' /\ outcome' = outcome /\ pc' = [pc EXCEPT ![p] = IF over THEN "ensure" ELSE "check"]
      /\ pc'[p] = IF over THEN "ensure" ELSE "check"
  <2> DEFINE await == IF over THEN "ensure" ELSE "check"
  <2>1. await \in Awaits
    BY AwaitNames
  <2> HIDE DEF await
  <2>2. /\ Placed' /\ outcome' = outcome /\ pc' = [pc EXCEPT ![p] = await] /\ pc'[p] = await
    <3>1. Continue(p, await)
      BY <1>5 DEF await
    <3> QED BY <1>1, <2>1, <3>1, ContinuePlaced
  <2> QED BY <2>2 DEF await
<1>7. feedDoneAt' \in [Passes -> Nat \union {None}] /\ feedDoneAt'[p] = since
      /\ \A q \in Passes \ {p} : feedDoneAt'[q] = feedDoneAt[q]
  <2> HIDE DEF since
  <2> QED BY <1>1, <1>2, <1>4 DEF PassesTyped
<1>8. \A q \in Passes \ {p} : pc'[q] = pc[q]
  BY <1>1, <1>6 DEF Placed
<1> QED BY <1>3, <1>6, <1>7, <1>8

\* A page of the feed: either the stream is given up, or the pass goes on with
\* what it knows now of the end of the feed.
FetchedPage(p, r) ==
  /\ r \in Runs /\ r = bound[p] /\ pc[p] \in {"feed", "page"} /\ ~feedDone[p]
  /\ after' = [after EXCEPT ![p] = feed[r]]
  /\ feedDone' = [feedDone EXCEPT ![p] = state[r] = "ended"]
  /\ \/ /\ ~connected[p] /\ Close(p, "abandoned") /\ UNCHANGED <<feedDoneAt, activity>>
     \/ /\ activity' = activity
        /\ AfterPoll(p, state[r] = "ended")
     \/ /\ feed[r] > after[p] /\ activity' = [activity EXCEPT ![p] = @ \union {r}]
        /\ AfterPoll(p, state[r] = "ended")

LEMMA FetchPageFetches ==
  ASSUME TypeOK, NEW p \in Passes, FetchPage(p)
  PROVE  FetchedPage(p, bound[p])
<1>1. PassesTyped
  BY TypedInParts
<1>2. bound[p] \in Runs /\ feedDone'[p] = (state[bound[p]] = "ended")
  BY <1>1 DEF PassesTyped, FetchPage
<1>3. activity = [activity EXCEPT ![p] = @]
  BY <1>1 DEF PassesTyped
<1>4. pc[p] \in {"feed", "page"}
  BY DEF FetchPage, At
<1>5. \/ /\ ~connected[p] /\ Close(p, "abandoned") /\ UNCHANGED <<feedDoneAt, activity>>
      \/ /\ AfterPoll(p, feedDone'[p])
         /\ activity' = [activity EXCEPT ![p] = IF feed[bound[p]] > after[p] THEN @ \union {bound[p]} ELSE @]
  BY DEF FetchPage
<1> QED BY <1>2, <1>3, <1>4, <1>5 DEF FetchPage, FetchedPage

LEMMA PollNothingType == ASSUME TypeOK, NEW p \in Passes, PollNothing(p) PROVE TypeOK'
<1>1. OutsideTyped /\ RuntimeTyped /\ PassesTyped /\ Placed
  BY TypedInParts
<1>2. feedDone[p] \in BOOLEAN /\ AfterPoll(p, feedDone[p])
  BY <1>1 DEF PassesTyped, PollNothing
<1>3. Placed' /\ feedDoneAt' \in [Passes -> Nat \union {None}]
  BY <1>2, AfterPollFacts
<1>4. OutsideTyped' /\ RuntimeTyped'
  BY <1>1, OutsideKept, RuntimeKept DEF PollNothing
<1>5. PassesTyped'
  BY <1>1, <1>3 DEF PassesTyped, PollNothing, stream
<1> QED BY <1>3, <1>4, <1>5, TypedNext

LEMMA DiscoverType == ASSUME TypeOK, NEW p \in Passes, Discover(p) PROVE TypeOK'
<1>1. OutsideTyped /\ RuntimeTyped /\ PassesTyped /\ Placed
  BY TypedInParts
<1>2. OutsideTyped' /\ RuntimeTyped' /\ Placed'
  BY <1>1, OutsideKept, RuntimeKept, ContinuePlaced, AwaitNames DEF Discover
<1>3. bound' \in [Passes -> Runs \union {None}]
  BY <1>1 DEF PassesTyped, RuntimeTyped, Discover
<1>4. PassesTyped'
  BY <1>1, <1>3 DEF PassesTyped, Discover, stream
<1> QED BY <1>2, <1>4, TypedNext

LEMMA FetchPageType == ASSUME TypeOK, NEW p \in Passes, FetchPage(p) PROVE TypeOK'
<1>1. OutsideTyped /\ RuntimeTyped /\ PassesTyped /\ Placed
  BY TypedInParts
<1>2. FetchedPage(p, bound[p])
  BY FetchPageFetches
<1>3. Placed' /\ feedDoneAt' \in [Passes -> Nat \union {None}]
  <2>1. ASSUME AfterPoll(p, state[bound[p]] = "ended")
        PROVE  Placed' /\ feedDoneAt' \in [Passes -> Nat \union {None}]
    <3>1. (state[bound[p]] = "ended") \in BOOLEAN
      OBVIOUS
    <3> QED BY <2>1, <3>1, AfterPollFacts
  <2>2. ASSUME Close(p, "abandoned"), feedDoneAt' = feedDoneAt
        PROVE  Placed' /\ feedDoneAt' \in [Passes -> Nat \union {None}]
    BY <1>1, <2>2, ClosePlaced, AwaitNames DEF PassesTyped
  <2> QED BY <1>2, <2>1, <2>2 DEF FetchedPage
<1>4. after' \in [Passes -> 0..MaxFeed] /\ feedDone' \in [Passes -> BOOLEAN]
  BY <1>1, <1>2 DEF FetchedPage, PassesTyped, RuntimeTyped
<1>5. activity' \in [Passes -> SUBSET Runs]
  BY <1>1, <1>2 DEF FetchedPage, PassesTyped
<1>6. OutsideTyped' /\ RuntimeTyped'
  BY <1>1, OutsideKept, RuntimeKept DEF FetchPage
<1>7. PassesTyped'
  BY <1>1, <1>3, <1>4, <1>5 DEF PassesTyped, FetchPage
<1> QED BY <1>3, <1>6, <1>7, TypedNext

LEMMA AppStepsType ==
  ASSUME TypeOK, NEW p \in Passes, StopApp(p) \/ StartApp(p) \/ ResolveUrl(p) \/ ReadTimeline(p)
  PROVE  TypeOK'
<1>1. OutsideTyped /\ RuntimeTyped /\ PassesTyped /\ Placed
  BY TypedInParts
<1>2. CASE StopApp(p) \/ StartApp(p)
  <2>1. PassesTyped' /\ RuntimeTyped'
    BY <1>1, <1>2, PassesKept, RuntimeKept DEF StopApp, StartApp
  <2>2. OutsideTyped'
    BY <1>1, <1>2 DEF OutsideTyped, StopApp, StartApp
  <2>3. Placed'
    BY <1>1, <1>2, ContinuePlaced, AwaitNames DEF StopApp, StartApp
  <2> QED BY <2>1, <2>2, <2>3, TypedNext
<1>3. CASE ResolveUrl(p)
  <2>1. OutsideTyped' /\ RuntimeTyped' /\ Placed'
    BY <1>1, <1>3, OutsideKept, RuntimeKept, EmitPlaced, AwaitNames DEF ResolveUrl
  <2>2. PassesTyped'
    BY <1>1, <1>3 DEF PassesTyped, ResolveUrl, poller, stream, Observations
  <2> QED BY <2>1, <2>2, TypedNext
<1>4. CASE ReadTimeline(p)
  <2>1. OutsideTyped' /\ RuntimeTyped' /\ Placed'
    BY <1>1, <1>4, OutsideKept, RuntimeKept, ContinuePlaced, AwaitNames DEF ReadTimeline
  <2>2. fetched' \in [Passes -> 0..MaxVersion]
    BY <1>1, <1>4, BoundsAreNumbers DEF PassesTyped, OutsideTyped, ReadTimeline
  <2>3. PassesTyped'
    BY <1>1, <1>4, <2>2 DEF PassesTyped, ReadTimeline, poller, stream
  <2> QED BY <2>1, <2>3, TypedNext
<1> QED BY <1>2, <1>3, <1>4

LEMMA RecordType ==
  ASSUME TypeOK, NEW p \in Passes, NEW live \in BOOLEAN, NEW version \in 0..MaxVersion,
         Record(p, live, version)
  PROVE  idea' \in [exists : BOOLEAN, live : BOOLEAN, error : BOOLEAN, version : 0..MaxVersion]
BY DEF Record

LEMMA VerdictObserved ==
  ASSUME PassesTyped, NEW p \in Passes, NEW b \in BOOLEAN,
         observed' = [observed EXCEPT ![p] = [live |-> b, error |-> ~b]]
  PROVE  observed' \in [Passes -> Observations]
<1>1. [live |-> b, error |-> ~b] \in Observations
  BY DEF Observations
<1> QED BY <1>1 DEF PassesTyped

LEMMA VerdictType ==
  ASSUME TypeOK, NEW p \in Passes, RecordLive(p) \/ RestartFails(p) \/ Finish(p)
  PROVE  TypeOK'
<1>1. OutsideTyped /\ RuntimeTyped /\ PassesTyped /\ Placed
  BY TypedInParts
<1>2. idea.version \in 0..MaxVersion
  BY <1>1 DEF OutsideTyped
<1>3. CASE RecordLive(p)
  <2>1. /\ idea' \in [exists : BOOLEAN, live : BOOLEAN, error : BOOLEAN, version : 0..MaxVersion]
        /\ observed' \in [Passes -> Observations]
    <3>1. CASE idea.exists
      <4>1. Record(p, TRUE, idea.version) /\ observed' = [observed EXCEPT ![p] = [live |-> TRUE, error |-> FALSE]]
        BY <1>3, <3>1 DEF RecordLive
      <4> QED BY <1>1, <1>2, <4>1, RecordType, VerdictObserved
    <3>2. CASE ~idea.exists
      BY <1>1, <1>3, <3>2 DEF RecordLive, OutsideTyped, PassesTyped
    <3> QED BY <3>1, <3>2
  <2>2. Placed'
    BY <1>1, <1>3, EmitPlaced, ClosePlaced, AwaitNames DEF RecordLive
  <2>3. RuntimeTyped' /\ OutsideTyped'
    BY <1>1, <1>3, <2>1, RuntimeKept DEF RecordLive, OutsideTyped, cell
  <2>4. PassesTyped'
    BY <1>1, <1>3, <2>1 DEF RecordLive, PassesTyped, poller, stream
  <2> QED BY <2>2, <2>3, <2>4, TypedNext
<1>4. CASE RestartFails(p)
  <2>1. /\ idea' \in [exists : BOOLEAN, live : BOOLEAN, error : BOOLEAN, version : 0..MaxVersion]
        /\ observed' \in [Passes -> Observations]
    <3>1. CASE idea.exists
      <4>1. Record(p, FALSE, idea.version) /\ observed' = [observed EXCEPT ![p] = [live |-> FALSE, error |-> TRUE]]
        BY <1>4, <3>1 DEF RestartFails
      <4> QED BY <1>1, <1>2, <4>1, RecordType, VerdictObserved
    <3>2. CASE ~idea.exists
      BY <1>1, <1>4, <3>2 DEF RestartFails, OutsideTyped, PassesTyped
    <3> QED BY <3>1, <3>2
  <2>2. Placed'
    BY <1>1, <1>4, ContinuePlaced, ClosePlaced, AwaitNames DEF RestartFails
  <2>3. service' \in BOOLEAN
    BY <1>1, <1>4 DEF RestartFails, OutsideTyped
  <2>4. RuntimeTyped' /\ OutsideTyped'
    BY <1>1, <1>4, <2>1, <2>3, RuntimeKept DEF RestartFails, OutsideTyped
  <2>5. PassesTyped'
    BY <1>1, <1>4, <2>1 DEF RestartFails, PassesTyped, poller, stream
  <2> QED BY <2>2, <2>4, <2>5, TypedNext
<1>5. CASE Finish(p)
  <2>1. observed[p].live \in BOOLEAN /\ fetched[p] \in 0..MaxVersion
    BY <1>1 DEF PassesTyped, Observations
  <2>2. idea' \in [exists : BOOLEAN, live : BOOLEAN, error : BOOLEAN, version : 0..MaxVersion]
    BY <1>1, <1>2, <1>5, <2>1, RecordType DEF Finish, OutsideTyped
  <2>3. Placed'
    BY <1>1, <1>5, ClosePlaced, AwaitNames DEF Finish
  <2>4. RuntimeTyped' /\ OutsideTyped' /\ PassesTyped'
    BY <1>1, <1>5, <2>2, RuntimeKept, PassesKept DEF Finish, OutsideTyped, cell
  <2> QED BY <2>3, <2>4, TypedNext
<1> QED BY <1>3, <1>4, <1>5

LEMMA NextTypeOK == TypeOK /\ [Next]_vars => TypeOK'
<1> SUFFICES ASSUME TypeOK, [Next]_vars PROVE TypeOK'
  OBVIOUS
<1>1. ASSUME NEW p \in Passes, Step(p) PROVE TypeOK'
  <2>1. CASE Hops(p)
    BY <2>1, HopType
  <2>2. CASE ~Hops(p)
    BY <1>1, <2>2, SnapshotType, ReadKvType, PollNothingType, DiscoverType, FetchPageType,
       AppStepsType, VerdictType DEF Step, Hops
  <2> QED BY <2>1, <2>2
<1>2. ASSUME NEW p \in Passes, InvokeFails(p) \/ Disconnect(p) PROVE TypeOK'
  BY <1>2, SignalType
<1>3. ASSUME NEW r \in Runs, Run(r) PROVE TypeOK'
  BY <1>3, StartRunType, ReadProgressType, WriteProgressType, WorkType, EndRunType DEF Run
<1>4. CASE Tick \/ AppCrash \/ DeleteIdea
  BY <1>4, AroundType
<1>5. CASE UNCHANGED vars
  <2>1. OutsideTyped /\ RuntimeTyped /\ PassesTyped /\ Placed
    BY TypedInParts
  <2> QED BY <1>5, <2>1, OutsideKept, RuntimeKept, AllPassesKept, TypedNext DEF vars
<1> QED BY <1>1, <1>2, <1>3, <1>4, <1>5 DEF Next

\* Type invariant.
THEOREM TypeCorrect == Spec => []TypeOK
<1>1. Init => TypeOK
  BY InitTypeOK
<1>2. TypeOK /\ [Next]_vars => TypeOK'
  BY NextTypeOK
<1> QED BY <1>1, <1>2, PTL DEF Spec

-----------------------------------------------------------------------------
(* Verdicts and milestones are the pass's own                              *)

\* What a run has recorded stays recorded.
Grows ==
  \A r \in Runs : \A i \in DOMAIN wrote[r] : i \in DOMAIN wrote'[r] /\ wrote'[r][i] = wrote[r][i]

\* A pass writes nothing to the log, and nothing of the runtime's.
LEMMA NothingRecorded ==
  ASSUME NEW p \in Passes, Step(p) \/ InvokeFails(p) \/ Disconnect(p)
  PROVE  UNCHANGED <<progress, runtime>>
<1>1. CASE Route(p) \/ Deploy(p) \/ SnapshotAndInvoke(p) \/ SnapshotFails(p) \/ Check(p)
  BY <1>1 DEF cell, runtime, Route, Deploy, SnapshotAndInvoke, SnapshotFails, Check
<1>2. CASE ReadKv(p) \/ KvReadFails(p) \/ PollNothing(p) \/ Discover(p) \/ FetchPage(p)
  BY <1>2 DEF cell, runtime, ReadKv, KvReadFails, PollNothing, Discover, FetchPage
<1>3. CASE AppIsUp(p) \/ AppLooksDown(p) \/ ResolveUrl(p) \/ StopApp(p) \/ StartApp(p)
  BY <1>3 DEF cell, runtime, AppIsUp, AppLooksDown, ResolveUrl, StopApp, StartApp
<1>4. CASE RestartFails(p) \/ RecordLive(p) \/ ReadTimeline(p) \/ Finish(p)
  BY <1>4 DEF cell, runtime, RestartFails, RecordLive, ReadTimeline, Finish
<1>5. CASE InvokeFails(p) \/ Disconnect(p)
  BY <1>5 DEF cell, runtime, InvokeFails, Disconnect
<1> QED BY <1>1, <1>2, <1>3, <1>4, <1>5 DEF Step

LEMMA OnlyWritesRecord ==
  ASSUME [Next]_vars
  PROVE  \/ UNCHANGED <<progress, copy, wrote>>
         \/ \E r \in Runs : WriteProgress(r) \/ ReadProgress(r)
<1>1. CASE Tick \/ AppCrash \/ DeleteIdea
  BY <1>1 DEF cell, runtime, Tick, AppCrash, DeleteIdea
<1>2. CASE \E r \in Runs : StartRun(r) \/ Work(r) \/ EndRun(r)
  BY <1>2 DEF cell, StartRun, Work, EndRun
<1>3. CASE UNCHANGED vars
  BY <1>3 DEF vars, cell, runtime
<1>4. ASSUME NEW p \in Passes, Step(p) \/ InvokeFails(p) \/ Disconnect(p)
      PROVE  UNCHANGED <<progress, copy, wrote>>
  BY <1>4, NothingRecorded DEF runtime
<1> QED BY <1>1, <1>2, <1>3, <1>4 DEF Next, Run

LEMMA RecordsGrow == ASSUME TypeOK, [Next]_vars PROVE Grows
<1>1. CASE wrote' = wrote
  BY <1>1 DEF Grows
<1>2. CASE \E r \in Runs : WriteProgress(r)
  <2>1. PICK r \in Runs : WriteProgress(r)
    BY <1>2
  <2>2. PICK stage \in Stages : wrote' = [wrote EXCEPT ![r] = Append(@, stage)]
    BY <2>1 DEF WriteProgress
  <2>3. wrote \in [Runs -> Seq(Stages)]
    BY DEF TypeOK
  <2>4. \A i \in DOMAIN wrote[r] :
          i \in DOMAIN Append(wrote[r], stage) /\ Append(wrote[r], stage)[i] = wrote[r][i]
    BY <2>3
  <2> QED BY <2>2, <2>3, <2>4 DEF Grows
<1>3. CASE \E r \in Runs : ReadProgress(r)
  BY <1>3 DEF ReadProgress, Grows
<1> QED BY <1>1, <1>2, <1>3, OnlyWritesRecord

LEMMA RecordedKept ==
  ASSUME Grows, NEW r \in Runs, NEW S, Recorded(r, S)
  PROVE  \E i \in DOMAIN wrote'[r] : wrote'[r][i] \in S
BY DEF Grows, Recorded

LEMMA LogStaysGenuine ==
  ASSUME TypeOK, TypeOK', LogIsGenuine, [Next]_vars
  PROVE  LogIsGenuine'
<1>1. Grows
  BY RecordsGrow
<1>2. ASSUME NEW entries \in Seq(Entry), Genuine(entries)
      PROVE  \A i \in 1..Len(entries) :
               \E j \in DOMAIN wrote'[entries[i].run] : wrote'[entries[i].run][j] = entries[i].stage
  <2> TAKE i \in 1..Len(entries)
  <2>1. entries[i].run \in Runs
    <3>1. entries[i] \in Entry
      OBVIOUS
    <3> QED BY <3>1 DEF Entry
  <2>2. Recorded(entries[i].run, {entries[i].stage})
    BY <1>2 DEF Genuine
  <2> QED BY <1>1, <2>1, <2>2 DEF Grows, Recorded
<1> DEFINE StillGenuine(entries) ==
             \A i \in 1..Len(entries) :
               \E j \in DOMAIN wrote'[entries[i].run] : wrote'[entries[i].run][j] = entries[i].stage
<1>3. progress \in Seq(Entry) /\ \A r \in Runs : copy[r] # None => copy[r] \in Seq(Entry)
  BY DEF TypeOK
<1>4. StillGenuine(progress) /\ \A r \in Runs : copy[r] # None => StillGenuine(copy[r])
  <2> HIDE DEF StillGenuine
  <2>1. \A entries \in Seq(Entry) : Genuine(entries) => StillGenuine(entries)
    BY <1>2 DEF StillGenuine
  <2> QED BY <1>3, <2>1 DEF LogIsGenuine
<1>5. StillGenuine(progress') /\ \A r \in Runs : copy'[r] # None => StillGenuine(copy'[r])
  <2>1. CASE UNCHANGED <<progress, copy, wrote>>
    <3> HIDE DEF StillGenuine
    <3> QED BY <1>4, <2>1
  <2>2. CASE \E r \in Runs : ReadProgress(r)
    <3>1. PICK r \in Runs : ReadProgress(r)
      BY <2>2
    <3> HIDE DEF StillGenuine
    <3> QED BY <1>4, <3>1 DEF ReadProgress, TypeOK, cell
  <2>3. CASE \E r \in Runs : WriteProgress(r)
    <3>1. PICK r \in Runs : WriteProgress(r)
      BY <2>3
    <3>2. PICK stage \in Stages :
            /\ progress' = Newest(Append(copy[r], [run |-> r, stage |-> stage]))
            /\ wrote' = [wrote EXCEPT ![r] = Append(@, stage)]
      BY <3>1 DEF WriteProgress
    <3> DEFINE e == [run |-> r, stage |-> stage]
               all == Append(copy[r], e)
    <3>3. e \in Entry /\ copy[r] \in Seq(Entry) /\ StillGenuine(copy[r])
      <4>1. copy[r] # None
        BY <3>1 DEF WriteProgress
      <4> HIDE DEF StillGenuine
      <4> QED BY <1>3, <1>4, <4>1 DEF Entry
    <3>4. \E j \in DOMAIN wrote'[e.run] : wrote'[e.run][j] = e.stage
      <4>1. wrote[r] \in Seq(Stages) /\ wrote' = [wrote EXCEPT ![r] = Append(wrote[r], stage)]
            /\ wrote'[r] = Append(wrote[r], stage)
        BY <3>2 DEF TypeOK
      <4>2. Len(wrote[r]) + 1 \in DOMAIN wrote'[r] /\ wrote'[r][Len(wrote[r]) + 1] = stage
        BY <4>1
      <4> QED BY <4>2
    <3> HIDE DEF e
    <3>5. all \in Seq(Entry) /\ Len(all) = Len(copy[r]) + 1 /\ all[Len(copy[r]) + 1] = e
          /\ \A i \in 1..Len(copy[r]) : all[i] = copy[r][i]
      BY <3>3
    <3> HIDE DEF all
    <3>6. StillGenuine(all)
      <4> SUFFICES ASSUME NEW i \in 1..Len(all)
                   PROVE  \E j \in DOMAIN wrote'[all[i].run] : wrote'[all[i].run][j] = all[i].stage
        OBVIOUS
      <4>1. i \in 1..Len(copy[r]) \/ i = Len(copy[r]) + 1
        BY <3>3, <3>5
      <4> QED BY <3>3, <3>4, <3>5, <4>1
    <3>7. /\ progress' = Newest(all)
          /\ \A i \in 1..Len(progress') : \E k \in 1..Len(all) : progress'[i] = all[k]
      <4>1. progress' = Newest(all)
        BY <3>2 DEF all, e
      <4> DEFINE kept == Newest(all)
                 d == Len(all) - Len(kept)
      <4>2. kept \in Seq(Entry) /\ d \in Nat /\ \A i \in 1..Len(kept) : kept[i] = all[d + i]
        BY <3>5, NewestFacts
      <4>3. Len(all) \in Nat /\ Len(kept) \in Nat /\ Len(all) = d + Len(kept)
        BY <3>5, <4>2
      <4> HIDE DEF kept, d
      <4>4. \A i \in 1..Len(kept) : d + i \in 1..Len(all)
        BY <4>2, <4>3
      <4> QED BY <4>1, <4>2, <4>4 DEF kept
    <3>8. StillGenuine(progress')
      <4> SUFFICES ASSUME NEW i \in 1..Len(progress')
                   PROVE  \E j \in DOMAIN wrote'[progress'[i].run] :
                            wrote'[progress'[i].run][j] = progress'[i].stage
        OBVIOUS
      <4>1. PICK k \in 1..Len(all) : progress'[i] = all[k]
        BY <3>7
      <4>2. \E j \in DOMAIN wrote'[all[k].run] : wrote'[all[k].run][j] = all[k].stage
        BY <3>6
      <4> QED BY <4>1, <4>2
    <3>9. \A q \in Runs : copy'[q] # None => StillGenuine(copy'[q])
      <4> HIDE DEF StillGenuine
      <4> QED BY <1>4, <3>1 DEF WriteProgress, TypeOK
    <3> QED BY <3>8, <3>9
  <2> QED BY <2>1, <2>2, <2>3, OnlyWritesRecord
<1> QED BY <1>5 DEF LogIsGenuine, Genuine, Recorded

LEMMA HonestKept ==
  ASSUME Grows, NEW p \in Passes, Honest(p), milestones'[p] = milestones[p],
         feedDoneAt[p] # None => feedDoneAt'[p] # None,
         pc'[p] \in Finishing \/ outcome'[p] = "done" =>
           pc[p] \in Finishing \/ outcome[p] = "done" \/ feedDoneAt'[p] # None,
         outcome'[p] = "AGENT_RUN_FAILED" => outcome[p] = "AGENT_RUN_FAILED"
  PROVE  Honest(p)'
<1>1. p \in Runs
  BY DEF Runs
<1>2. Recorded(p, DoneStages) => Recorded(p, DoneStages)'
  BY <1>1, RecordedKept DEF Recorded
<1>3. Recorded(p, {"error"}) => Recorded(p, {"error"})'
  BY <1>1, RecordedKept DEF Recorded
<1>4. \A i \in 1..Len(milestones[p]) : \E j \in DOMAIN wrote'[p] : wrote'[p][j] \in {milestones[p][i]}
  BY <1>1, RecordedKept DEF Honest
<1>5. \A i \in 1..Len(milestones'[p]) : Recorded(p, {milestones[p][i]})'
  BY <1>4 DEF Recorded
<1> QED BY <1>2, <1>3, <1>5 DEF Honest

\* A step of one pass is nothing to another.
LEMMA OthersKept ==
  ASSUME TypeOK, NEW p \in Passes, NEW q \in Passes \ {p},
         Step(p) \/ InvokeFails(p) \/ Disconnect(p)
  PROVE  /\ pc'[q] = pc[q] /\ outcome'[q] = outcome[q]
         /\ feedDoneAt'[q] = feedDoneAt[q] /\ milestones'[q] = milestones[q]
<1>0. PassesTyped /\ Placed
  BY TypedInParts
<1>1. CASE Hops(p)
  <2>1. feedDoneAt' = feedDoneAt /\ milestones' = milestones
    BY <1>1 DEF poller, stream, Hops, Route, Deploy, SnapshotFails, Check, KvReadFails, AppIsUp,
       AppLooksDown
  <2> QED BY <1>0, <1>1, <2>1, HopPlaced
<1>2. CASE ReadKv(p)
  <2>1. PICK k \in Nat : Handles(p, StagesOf(p, progress), k)
    BY <1>2, ReadKvHandles
  <2>2. feedDoneAt' = feedDoneAt
    BY <1>2 DEF ReadKv, poller
  <2>3. pc'[q] = pc[q] /\ outcome'[q] = outcome[q]
    BY <1>0, <2>1 DEF Handles, Continue, Close, Placed
  <2>4. milestones'[q] = milestones[q]
    BY <1>0, <2>1 DEF Handles, PassesTyped
  <2> QED BY <2>2, <2>3, <2>4
<1>3. CASE PollNothing(p)
  <2>1. feedDone[p] \in BOOLEAN /\ AfterPoll(p, feedDone[p])
    BY <1>0, <1>3 DEF PassesTyped, PollNothing
  <2> QED BY <1>3, <2>1, AfterPollFacts DEF PollNothing, stream
<1>4. CASE FetchPage(p)
  <2>1. FetchedPage(p, bound[p]) /\ milestones' = milestones
    BY <1>4, FetchPageFetches DEF FetchPage
  <2>2. CASE AfterPoll(p, state[bound[p]] = "ended")
    <3>1. (state[bound[p]] = "ended") \in BOOLEAN
      OBVIOUS
    <3> QED BY <2>1, <2>2, <3>1, AfterPollFacts
  <2>3. CASE Close(p, "abandoned") /\ feedDoneAt' = feedDoneAt
    BY <1>0, <2>1, <2>3 DEF Close, Placed
  <2> QED BY <2>1, <2>2, <2>3 DEF FetchedPage
<1>5. CASE SnapshotAndInvoke(p) \/ Discover(p) \/ InvokeFails(p) \/ Disconnect(p)
  BY <1>0, <1>5 DEF SnapshotAndInvoke, Discover, InvokeFails, Disconnect, Continue, Placed, poller,
     stream
<1>6. CASE ResolveUrl(p) \/ RecordLive(p)
  <2>1. feedDoneAt' = feedDoneAt /\ milestones' = milestones
    BY <1>6 DEF ResolveUrl, RecordLive, poller, stream
  <2>2. EmitThen(p, "sync") \/ Close(p, "BUILD_FAILED")
    BY <1>6 DEF ResolveUrl, RecordLive
  <2> QED BY <1>0, <2>1, <2>2 DEF EmitThen, Continue, Close, Placed
<1>7. CASE StopApp(p) \/ StartApp(p) \/ RestartFails(p) \/ ReadTimeline(p) \/ Finish(p)
  <2>1. feedDoneAt' = feedDoneAt /\ milestones' = milestones
    BY <1>7 DEF StopApp, StartApp, RestartFails, ReadTimeline, Finish, poller, stream
  <2>2. (\E await \in Awaits : Continue(p, await)) \/ \E event \in Outcomes : Close(p, event)
    BY <1>7, AwaitNames DEF StopApp, StartApp, RestartFails, ReadTimeline, Finish
  <2> QED BY <1>0, <2>1, <2>2 DEF Continue, Close, Placed
<1> QED BY <1>1, <1>2, <1>3, <1>4, <1>5, <1>6, <1>7 DEF Step, Hops

\* How a step of a pass other than a reading of the log goes on to the end.
LEMMA EndsHonestly ==
  ASSUME TypeOK, NEW p \in Passes, Step(p), ~ReadKv(p)
  PROVE  /\ milestones' = milestones
         /\ feedDoneAt[p] # None => feedDoneAt'[p] # None
         /\ (pc'[p] \in Finishing \/ outcome'[p] = "done") =>
              pc[p] \in Finishing \/ outcome[p] = "done" \/ feedDoneAt'[p] # None
         /\ outcome'[p] = "AGENT_RUN_FAILED" => outcome[p] = "AGENT_RUN_FAILED"
<1>0. PassesTyped /\ Placed
  BY TypedInParts
<1>1. CASE PollNothing(p)
  <2>1. feedDone[p] \in BOOLEAN /\ AfterPoll(p, feedDone[p])
    BY <1>0, <1>1 DEF PassesTyped, PollNothing
  <2>2. /\ outcome' = outcome /\ pc'[p] \in {"check", "ensure"}
        /\ feedDoneAt[p] # None => feedDoneAt'[p] # None
        /\ pc'[p] = "ensure" => feedDoneAt'[p] # None
    BY <2>1, AfterPollFacts
  <2> QED BY <1>1, <2>2 DEF PollNothing, stream, Finishing
<1>2. CASE FetchPage(p)
  <2>1. FetchedPage(p, bound[p]) /\ milestones' = milestones
    BY <1>2, FetchPageFetches DEF FetchPage
  <2>2. CASE AfterPoll(p, state[bound[p]] = "ended")
    <3>1. (state[bound[p]] = "ended") \in BOOLEAN
      OBVIOUS
    <3>2. /\ outcome' = outcome /\ pc'[p] \in {"check", "ensure"}
          /\ feedDoneAt[p] # None => feedDoneAt'[p] # None
          /\ pc'[p] = "ensure" => feedDoneAt'[p] # None
      BY <2>2, <3>1, AfterPollFacts
    <3> QED BY <2>1, <3>2 DEF Finishing
  <2>3. CASE Close(p, "abandoned") /\ feedDoneAt' = feedDoneAt
    BY <1>0, <2>1, <2>3, ClosePlaced, AwaitNames DEF Finishing
  <2> QED BY <2>1, <2>2, <2>3 DEF FetchedPage
<1>3. CASE \/ Route(p) \/ Deploy(p) \/ SnapshotAndInvoke(p) \/ SnapshotFails(p)
           \/ Check(p) \/ KvReadFails(p) \/ Discover(p)
  <2>1. feedDoneAt' = feedDoneAt /\ milestones' = milestones
    BY <1>3 DEF Route, Deploy, SnapshotAndInvoke, SnapshotFails, Check, KvReadFails, Discover, poller,
       stream
  <2>2. \/ \E await \in {"deploy", "snapshot", "check", "kv", "feed", "page"} : Continue(p, await)
        \/ \E event \in {"abandoned", "IDEA_NOT_FOUND", "AGENT_UNAVAILABLE", "AGENT_RUN_TIMEOUT",
                         "BUILD_FAILED"} : Close(p, event)
    BY <1>3 DEF Route, Deploy, SnapshotAndInvoke, SnapshotFails, Check, KvReadFails, Discover,
       EmitThen
  <2> QED BY <1>0, <2>1, <2>2 DEF Continue, Close, Placed, Finishing
<1>4. CASE \/ AppIsUp(p) \/ AppLooksDown(p) \/ ResolveUrl(p) \/ StopApp(p) \/ StartApp(p)
           \/ RestartFails(p) \/ RecordLive(p) \/ ReadTimeline(p) \/ Finish(p)
  <2>1. feedDoneAt' = feedDoneAt /\ milestones' = milestones
    BY <1>4 DEF AppIsUp, AppLooksDown, ResolveUrl, StopApp, StartApp, RestartFails, RecordLive,
       ReadTimeline, Finish, poller, stream
  <2>2. pc[p] \in Finishing
    BY <1>4 DEF AppIsUp, AppLooksDown, ResolveUrl, StopApp, StartApp, RestartFails, RecordLive,
       ReadTimeline, Finish, At, Finishing
  <2>3. \/ \E await \in Awaits : Continue(p, await)
        \/ \E event \in {"abandoned", "BUILD_FAILED", "done"} : Close(p, event)
    BY <1>4, AwaitNames DEF AppIsUp, AppLooksDown, ResolveUrl, StopApp, StartApp, RestartFails,
       RecordLive, ReadTimeline, Finish, EmitThen
  <2> QED BY <1>0, <2>1, <2>2, <2>3 DEF Continue, Close, Placed
<1> QED BY <1>1, <1>2, <1>3, <1>4 DEF Step

LEMMA ReadKvHonest ==
  ASSUME TypeOK, Grows, LogIsGenuine, NEW p \in Passes, Honest(p), ReadKv(p)
  PROVE  Honest(p)'
<1>0. PassesTyped /\ Placed /\ p \in Runs /\ progress \in Seq(Entry)
  BY TypedInParts DEF OutsideTyped, Runs
<1> DEFINE own == StagesOf(p, progress)
<1>1. PICK k \in Nat : Handles(p, own, k)
  BY ReadKvHandles
<1>2. wrote' = wrote /\ feedDoneAt' = feedDoneAt
  BY DEF ReadKv, runtime, poller
<1>3. /\ own \in Seq(Stages)
      /\ \A i \in 1..Len(own) : \E j \in 1..Len(progress) :
           progress[j].run = p /\ own[i] = progress[j].stage
  BY <1>0, StagesFacts
<1> HIDE DEF own
<1>4. \A i \in 1..Len(own) : Recorded(p, {own[i]})
  BY <1>3 DEF LogIsGenuine, Genuine
<1>5. k <= Len(own) /\ Len(own) \in Nat /\ relayed[p] \in Nat
  BY <1>0, <1>1, <1>3, SomethingIsRecorded DEF Handles, PassesTyped
<1> DEFINE handled == SubSeq(own, relayed[p] + 1, k)
<1>6. handled \in Seq(Stages) /\ \A i \in 1..Len(handled) : \E j \in 1..Len(own) : handled[i] = own[j]
  <2>1. /\ handled \in Seq(Stages)
        /\ Len(handled) = IF relayed[p] < k THEN k - relayed[p] ELSE 0
        /\ \A i \in 1..Len(handled) : handled[i] = own[relayed[p] + i]
    <3> DEFINE r == relayed[p]
    <3>1. r \in Nat /\ k \in Nat /\ k <= Len(own) /\ own \in Seq(Stages)
      BY <1>3, <1>5
    <3> HIDE DEF r
    <3> QED BY <3>1, SubSeqFacts DEF r
  <2> HIDE DEF handled
  <2>2. \A i \in 1..Len(handled) : relayed[p] + i \in 1..Len(own)
    BY <1>5, <2>1
  <2> QED BY <2>1, <2>2
<1> DEFINE shown == Shown(handled)
<1>7. shown \in Seq(Stages) /\ \A i \in 1..Len(shown) : Recorded(p, {shown[i]})
  <2> HIDE DEF handled
  <2>1. /\ shown \in Seq(Stages)
        /\ \A i \in 1..Len(shown) : \E j \in 1..Len(handled) : shown[i] = handled[j]
    BY <1>6, ShownFacts
  <2> QED BY <1>4, <1>6, <2>1
<1>8. milestones'[p] = milestones[p] \/ milestones'[p] = milestones[p] \o shown
  BY <1>0, <1>1 DEF Handles, PassesTyped
<1> HIDE DEF shown, handled
<1>9. \A i \in 1..Len(milestones'[p]) : Recorded(p, {milestones'[p][i]})
  <2>1. milestones[p] \in Seq(Stages) /\ \A i \in 1..Len(milestones[p]) : Recorded(p, {milestones[p][i]})
    BY <1>0 DEF PassesTyped, Honest
  <2>2. CASE milestones'[p] = milestones[p] \o shown
    <3> TAKE i \in 1..Len(milestones'[p])
    <3>1. CASE i <= Len(milestones[p])
      <4>1. i \in 1..Len(milestones[p]) /\ milestones'[p][i] = milestones[p][i]
        BY <1>7, <2>1, <2>2, <3>1
      <4> QED BY <2>1, <4>1
    <3>2. CASE ~(i <= Len(milestones[p]))
      <4> DEFINE j == i - Len(milestones[p])
      <4>1. j \in 1..Len(shown) /\ milestones'[p][i] = shown[j]
        BY <1>7, <2>1, <2>2, <3>2
      <4> QED BY <1>7, <4>1
    <3> QED BY <3>1, <3>2
  <2> QED BY <1>8, <2>1, <2>2
<1>10. (pc'[p] \in Finishing \/ outcome'[p] = "done") =>
         pc[p] \in Finishing \/ outcome[p] = "done" \/ Recorded(p, DoneStages)
  <2>1. ASSUME k > relayed[p], own[k] \in DoneStages PROVE Recorded(p, DoneStages)
    <3>1. k \in 1..Len(own)
      BY <1>5, <2>1
    <3> QED BY <1>4, <2>1, <3>1 DEF Recorded
  <2> QED BY <1>0, <1>1, <2>1 DEF Handles, Continue, Close, Placed, Finishing
<1>11. outcome'[p] = "AGENT_RUN_FAILED" => outcome[p] = "AGENT_RUN_FAILED" \/ Recorded(p, {"error"})
  <2>1. ASSUME k > relayed[p], own[k] = "error" PROVE Recorded(p, {"error"})
    <3>1. k \in 1..Len(own)
      BY <1>5, <2>1
    <3> QED BY <1>4, <2>1, <3>1
  <2> QED BY <1>0, <1>1, <2>1 DEF Handles, Continue, Close, Placed
<1> QED BY <1>2, <1>9, <1>10, <1>11 DEF Honest, Recorded

\* The invariant is inductive.
THEOREM Invariance == Spec => []IInv
<1>1. Init => IInv
  <2> SUFFICES ASSUME Init PROVE IInv
    OBVIOUS
  <2>1. TypeOK
    BY InitTypeOK
  <2>2. LogIsGenuine
    <3>1. \A i \in 1..Len(progress) : progress[i].run \in Prior /\ progress[i].stage = "done"
      BY InitialLog
    <3>2. \A r \in Prior : Recorded(r, {"done"})
      <4>1. \A r \in Prior : wrote[r] = <<"done">> /\ 1 \in DOMAIN wrote[r]
        BY RunsAreNamedApart DEF Init, Runs
      <4> QED BY <4>1 DEF Recorded
    <3>3. Genuine(progress)
      BY <3>1, <3>2 DEF Genuine
    <3> QED BY <3>3 DEF LogIsGenuine, Init
  <2>3. \A p \in Passes : Honest(p)
    BY DEF Honest, Init, Finishing
  <2> QED BY <2>1, <2>2, <2>3 DEF IInv
<1>2. IInv /\ [Next]_vars => IInv'
  <2> SUFFICES ASSUME IInv, [Next]_vars PROVE IInv'
    OBVIOUS
  <2>1. TypeOK /\ TypeOK' /\ LogIsGenuine /\ LogIsGenuine' /\ Grows
    BY NextTypeOK, LogStaysGenuine, RecordsGrow DEF IInv
  <2>2. ASSUME NEW q \in Passes PROVE Honest(q)'
    <3>1. Honest(q)
      BY DEF IInv
    <3>2. CASE UNCHANGED <<pc, outcome, feedDoneAt, milestones>>
      BY <2>1, <3>1, <3>2, HonestKept
    <3>3. ASSUME NEW p \in Passes, Step(p) \/ InvokeFails(p) \/ Disconnect(p), p # q PROVE Honest(q)'
      BY <2>1, <3>1, <3>3, OthersKept, HonestKept
    <3>4. CASE ReadKv(q)
      BY <2>1, <3>1, <3>4, ReadKvHonest
    <3>5. CASE Step(q) /\ ~ReadKv(q)
      BY <2>1, <3>1, <3>5, EndsHonestly, HonestKept
    <3>6. Tick \/ AppCrash \/ DeleteIdea \/ (\E r \in Runs : Run(r)) \/ InvokeFails(q) \/ Disconnect(q)
            \/ UNCHANGED vars => UNCHANGED <<pc, outcome, feedDoneAt, milestones>>
      BY DEF Tick, AppCrash, DeleteIdea, Run, StartRun, ReadProgress, WriteProgress, Work, EndRun,
         InvokeFails, Disconnect, vars, passes, poller, stream
    <3> QED BY <3>2, <3>3, <3>4, <3>5, <3>6 DEF Next
  <2> QED BY <2>1, <2>2 DEF IInv
<1> QED BY <1>1, <1>2, PTL DEF Spec

\* A pass that reports a failed run, or finishes before any feed ended, does so
\* on an entry of its own run, and so with every milestone it shows, whatever
\* else is written to the same key.
THEOREM VerdictsAreOwn == Spec => []VerdictIsOwn
<1>1. IInv => VerdictIsOwn
  <2>1. IInv => \A p \in Passes : DOMAIN milestones[p] = 1..Len(milestones[p])
    BY DEF IInv, TypeOK
  <2> QED BY <2>1 DEF IInv, Honest, VerdictIsOwn
<1> QED BY <1>1, Invariance, PTL

-----------------------------------------------------------------------------
(* A pass whose run is the only one that is going                          *)

LEMMA OneActs ==
  ASSUME TypeOK, NEW p \in Passes, Alone(p), OneRunGoes(p), [Next]_vars
  PROVE  \/ Step(p) \/ InvokeFails(p) \/ Disconnect(p) \/ Run(p)
         \/ Tick \/ AppCrash \/ DeleteIdea \/ UNCHANGED vars
<1>1. ASSUME NEW r \in Prior, Run(r) PROVE FALSE
  <2>1. state[r] = "ended"
    BY DEF OneRunGoes
  <2> QED BY <1>1, <2>1 DEF Run, StartRun, ReadProgress, WriteProgress, Work, EndRun, Recording
<1>2. Runs = {p} \union Prior
  BY DEF Alone, Runs
<1> QED BY <1>1, <1>2 DEF Next, Alone

\* Where a step of a pass leads, and what it may change on the way.
LEMMA Course ==
  ASSUME TypeOK, NEW p \in Passes, Step(p)
  PROVE  /\ \/ /\ pc[p] = "snapshot" /\ pc'[p] = "check" /\ started'[p] = now
               /\ UNCHANGED <<relayed, poller, milestones, activity>>
            \/ /\ pc[p] \in {"route", "deploy", "snapshot"} /\ pc'[p] \in {"deploy", "snapshot", "closed"}
               /\ UNCHANGED <<started, relayed, poller, milestones, activity>>
            \/ /\ pc[p] \in Looping /\ pc'[p] \in Looping \union {"ensure", "closed"}
               /\ started' = started
            \/ /\ pc[p] \in Finishing /\ pc'[p] \in Finishing \union {"closed"}
               /\ UNCHANGED <<started, relayed, poller, milestones, activity>>
         /\ IF pc'[p] = "closed" THEN outcome'[p] # "none" ELSE outcome'[p] = outcome[p]
<1>0. PassesTyped /\ Placed
  BY TypedInParts
<1>1. ASSUME NEW await \in Awaits \ {"closed"}, Continue(p, await)
      PROVE  pc'[p] = await /\ outcome'[p] = outcome[p]
  BY <1>0, <1>1 DEF Continue, Placed
<1>2. ASSUME NEW event \in Outcomes \ {"none"}, Close(p, event)
      PROVE  pc'[p] = "closed" /\ outcome'[p] # "none"
  BY <1>0, <1>2 DEF Close, Placed
<1>3. /\ {"route", "deploy", "snapshot", "check", "kv", "feed", "page", "ensure", "resolve", "stop",
          "start", "record", "sync", "finish"} \subseteq Awaits \ {"closed"}
      /\ {"done", "abandoned", "IDEA_NOT_FOUND", "AGENT_UNAVAILABLE", "AGENT_RUN_FAILED",
          "AGENT_RUN_TIMEOUT", "BUILD_FAILED"} \subseteq Outcomes \ {"none"}
  BY DEF Awaits, Finishing, Outcomes
<1>4. CASE SnapshotAndInvoke(p)
  <2>1. started'[p] = now /\ pc[p] = "snapshot"
    BY <1>0, <1>4 DEF SnapshotAndInvoke, At, PassesTyped
  <2>2. UNCHANGED <<relayed, poller, milestones, activity>> /\ Continue(p, "check")
    BY <1>4 DEF SnapshotAndInvoke, stream
  <2> QED BY <1>1, <1>3, <2>1, <2>2
<1>5. CASE Route(p) \/ Deploy(p) \/ SnapshotFails(p)
  <2>1. /\ pc[p] \in {"route", "deploy", "snapshot"}
        /\ UNCHANGED <<started, relayed, poller, milestones, activity>>
    BY <1>5 DEF Route, Deploy, SnapshotFails, At, stream
  <2>2. \/ \E await \in {"deploy", "snapshot"} : Continue(p, await)
        \/ \E event \in {"abandoned", "IDEA_NOT_FOUND", "AGENT_UNAVAILABLE", "BUILD_FAILED"} : Close(p, event)
    BY <1>5 DEF Route, Deploy, SnapshotFails, EmitThen
  <2> QED BY <1>1, <1>2, <1>3, <2>1, <2>2
<1>6. CASE Check(p) \/ KvReadFails(p) \/ Discover(p)
  <2>1. pc[p] \in Looping /\ started' = started
    BY <1>6 DEF Check, KvReadFails, Discover, At, Looping
  <2>2. \/ \E await \in {"kv", "feed", "page"} : Continue(p, await)
        \/ \E event \in {"AGENT_UNAVAILABLE", "AGENT_RUN_TIMEOUT"} : Close(p, event)
    BY <1>6 DEF Check, KvReadFails, Discover
  <2> QED BY <1>1, <1>2, <1>3, <2>1, <2>2 DEF Looping
<1>7. CASE ReadKv(p)
  <2>1. pc[p] \in Looping /\ started' = started
    BY <1>7 DEF ReadKv, At, Looping
  <2>2. PICK k \in Nat : Handles(p, StagesOf(p, progress), k)
    BY <1>7, ReadKvHandles
  <2>3. \/ \E await \in {"feed", "ensure"} : Continue(p, await)
        \/ \E event \in {"abandoned", "AGENT_RUN_FAILED"} : Close(p, event)
    BY <2>2 DEF Handles
  <2> QED BY <1>1, <1>2, <1>3, <2>1, <2>3 DEF Looping
<1>8. CASE PollNothing(p)
  <2>1. feedDone[p] \in BOOLEAN /\ AfterPoll(p, feedDone[p])
    BY <1>0, <1>8 DEF PassesTyped, PollNothing
  <2>2. outcome' = outcome /\ pc'[p] \in {"check", "ensure"}
    BY <2>1, AfterPollFacts
  <2>3. pc[p] \in Looping /\ started' = started
    BY <1>8 DEF PollNothing, At, Looping
  <2> QED BY <2>2, <2>3 DEF Looping
<1>9. CASE FetchPage(p)
  <2>1. FetchedPage(p, bound[p]) /\ started' = started
    BY <1>9, FetchPageFetches DEF FetchPage
  <2>2. CASE AfterPoll(p, state[bound[p]] = "ended")
    <3>1. (state[bound[p]] = "ended") \in BOOLEAN
      OBVIOUS
    <3>2. outcome' = outcome /\ pc'[p] \in {"check", "ensure"}
      BY <2>2, <3>1, AfterPollFacts
    <3> QED BY <2>1, <3>2 DEF FetchedPage, Looping
  <2>3. CASE Close(p, "abandoned")
    BY <1>2, <1>3, <2>1, <2>3 DEF FetchedPage, Looping
  <2> QED BY <2>1, <2>2, <2>3 DEF FetchedPage
<1>10. CASE \/ AppIsUp(p) \/ AppLooksDown(p) \/ ResolveUrl(p) \/ StopApp(p) \/ StartApp(p)
            \/ RestartFails(p) \/ RecordLive(p) \/ ReadTimeline(p) \/ Finish(p)
  <2>1. UNCHANGED <<started, relayed, poller, milestones, activity>>
    BY <1>10 DEF AppIsUp, AppLooksDown, ResolveUrl, StopApp, StartApp, RestartFails, RecordLive,
       ReadTimeline, Finish, stream
  <2>2. pc[p] \in Finishing
    BY <1>10 DEF AppIsUp, AppLooksDown, ResolveUrl, StopApp, StartApp, RestartFails, RecordLive,
       ReadTimeline, Finish, At, Finishing
  <2>3. \/ \E await \in {"sync", "resolve", "stop", "start", "record", "finish"} : Continue(p, await)
        \/ \E event \in {"abandoned", "BUILD_FAILED", "done"} : Close(p, event)
    BY <1>10 DEF AppIsUp, AppLooksDown, ResolveUrl, StopApp, StartApp, RestartFails, RecordLive,
       ReadTimeline, Finish, EmitThen
  <2>4. {"sync", "resolve", "stop", "start", "record", "finish"} \subseteq Finishing
    BY DEF Finishing
  <2> QED BY <1>1, <1>2, <1>3, <2>1, <2>2, <2>3, <2>4
<1> QED BY <1>4, <1>5, <1>6, <1>7, <1>8, <1>9, <1>10 DEF Step

\* Writing the log appends to what it holds of the run, and trims what is older.
LEMMA LogFollowsOn ==
  ASSUME TypeOK, TypeOK', NEW p \in Passes, Alone(p), OneRunGoes(p), LogFollowsRun(p), [Next]_vars
  PROVE  LogFollowsRun(p)'
<1>0. /\ p \in Runs /\ progress \in Seq(Entry) /\ wrote[p] \in Seq(Stages)
      /\ copy[p] = None \/ copy[p] \in Seq(Entry)
      /\ progress' \in Seq(Entry) /\ wrote'[p] \in Seq(Stages)
  BY DEF TypeOK, Runs
<1>1. CASE UNCHANGED <<progress, copy, wrote>>
  BY <1>1 DEF LogFollowsRun
<1>2. ASSUME NEW r \in Runs, WriteProgress(r) \/ ReadProgress(r) PROVE r = p
  <2>1. state[r] = "running"
    BY <1>2 DEF WriteProgress, ReadProgress, Recording
  <2> QED BY <2>1 DEF OneRunGoes, Alone, Runs
<1>3. CASE ReadProgress(p)
  <2>1. progress' = progress /\ wrote' = wrote /\ copy'[p] = progress
    BY <1>0, <1>3 DEF ReadProgress, cell, TypeOK
  <2> QED BY <2>1 DEF LogFollowsRun
<1>4. CASE WriteProgress(p)
  <2>1. PICK stage \in Stages :
          /\ progress' = Newest(Append(copy[p], [run |-> p, stage |-> stage]))
          /\ wrote' = [wrote EXCEPT ![p] = Append(@, stage)]
    BY <1>4 DEF WriteProgress
  <2> DEFINE e == [run |-> p, stage |-> stage]
             all == Append(progress, e)
             kept == Newest(all)
             L == Len(progress)  W == Len(wrote[p])  d == Len(all) - Len(kept)
  <2>2. copy[p] = progress /\ copy'[p] = None
    BY <1>0, <1>4 DEF WriteProgress, LogFollowsRun, TypeOK
  <2>3. progress' = kept /\ wrote'[p] = Append(wrote[p], stage)
    BY <1>0, <2>1, <2>2 DEF TypeOK
  <2>4. /\ all \in Seq(Entry) /\ Len(all) = L + 1 /\ all[L + 1] = e
        /\ \A i \in 1..L : all[i] = progress[i]
    BY <1>0 DEF Entry
  <2>5. /\ Len(wrote'[p]) = W + 1 /\ wrote'[p][W + 1] = stage
        /\ \A i \in 1..W : wrote'[p][i] = wrote[p][i]
    BY <1>0, <2>3
  <2>6. /\ kept \in Seq(Entry) /\ d \in Nat
        /\ IF Len(all) > MaxEntries THEN Len(kept) = MaxEntries ELSE kept = all
        /\ \A i \in 1..Len(kept) : kept[i] = all[d + i]
    BY <2>4, NewestFacts
  <2>7. L \in Nat /\ W \in Nat /\ MaxEntries \in Nat /\ Len(kept) \in Nat
    BY <1>0, <2>6, SomethingIsRecorded
  <2> HIDE DEF e, all, kept, L, W
  <2>8. d = (L + 1) - Len(kept)
    BY <2>4
  <2> HIDE DEF d
  <2>9. Len(kept) < W + 1 => Len(kept) = MaxEntries
    <3>1. L < W => L = MaxEntries
      BY DEF LogFollowsRun, L, W
    <3> QED BY <2>4, <2>6, <2>7, <3>1
  <2>10. ASSUME NEW i \in 1..Len(kept)
         PROVE  IF i > Len(kept) - (W + 1)
                  THEN kept[i] = [run |-> p, stage |-> wrote'[p][(W + 1) - (Len(kept) - i)]]
                  ELSE kept[i].run # p
    <3> DEFINE j == d + i
    <3>1. j \in 1..(L + 1) /\ kept[i] = all[j] /\ (i > Len(kept) - (W + 1) <=> j > L - W)
          /\ (W + 1) - (Len(kept) - i) = W - (L - j)
      BY <2>6, <2>7, <2>8
    <3> HIDE DEF j
    <3>2. CASE j = L + 1
      <4>1. W - (L - j) = W + 1 /\ j > L - W
        BY <2>7, <3>2
      <4>2. kept[i] = [run |-> p, stage |-> stage]
        BY <2>4, <3>1, <3>2 DEF e
      <4> QED BY <2>5, <3>1, <4>1, <4>2
    <3>3. CASE j # L + 1
      <4>1. j \in 1..L
        <5>1. j \in 1..(L + 1) /\ L \in Nat
          BY <2>7, <3>1
        <5> QED BY <3>3, <5>1
      <4>2. IF j > L - W THEN progress[j] = [run |-> p, stage |-> wrote[p][W - (L - j)]]
            ELSE progress[j].run # p
        BY <4>1 DEF LogFollowsRun, L, W
      <4>3. j > L - W => W - (L - j) \in 1..W
        BY <2>7, <4>1
      <4> QED BY <2>4, <2>5, <3>1, <4>1, <4>2, <4>3
    <3> QED BY <3>2, <3>3
  <2> QED BY <2>2, <2>3, <2>5, <2>9, <2>10 DEF LogFollowsRun
<1> QED BY <1>1, <1>2, <1>3, <1>4, OnlyWritesRecord

LEMMA RunFacts ==
  ASSUME TypeOK, NEW p \in Passes
  PROVE  /\ p \in Runs /\ wrote[p] \in Seq(Stages) /\ Len(wrote[p]) \in Nat
         /\ state \in [Runs -> {"idle", "running", "ended"}] /\ startedAt \in [Runs -> Int]
         /\ feed \in [Runs -> Nat]
         /\ progress \in Seq(Entry) /\ Len(progress) \in Nat
         /\ MaxEntries \in Nat \ {0} /\ MaxSteps \in Nat
<1>1. OutsideTyped /\ RuntimeTyped /\ p \in Runs
  BY TypedInParts DEF Runs
<1>2. feed \in [Runs -> Nat] /\ wrote[p] \in Seq(Stages)
  BY <1>1, BoundsAreNumbers DEF RuntimeTyped
<1>3. progress \in Seq(Entry) /\ Len(wrote[p]) \in Nat
  BY <1>1, <1>2 DEF OutsideTyped
<1>4. Len(progress) \in Nat
  BY <1>3
<1> QED BY <1>1, <1>2, <1>3, <1>4, SomethingIsRecorded, BoundsAreNumbers DEF RuntimeTyped

LEMMA OneRunStays ==
  ASSUME TypeOK, NEW p \in Passes, Alone(p), OneRunGoes(p), [Next]_vars
  PROVE  OneRunGoes(p)'
<1>0. /\ p \in Runs /\ p \notin Prior /\ Prior \subseteq Runs /\ wrote[p] \in Seq(Stages)
      /\ state \in [Runs -> {"idle", "running", "ended"}] /\ startedAt \in [Runs -> Int]
      /\ now \in Nat /\ None \notin Nat
  <2>1. p \notin Prior /\ Prior \subseteq Runs /\ None \notin Nat
    BY RunsAreNamedApart DEF Runs
  <2>2. now \in Nat
    BY TypedInParts DEF OutsideTyped
  <2> QED BY <2>1, <2>2, RunFacts
<1>1. CASE Step(p)
  <2>1. UNCHANGED <<state, startedAt, wrote>>
    BY <1>1, NothingRecorded DEF runtime
  <2>2. started[p] = None => pc[p] \notin Looping \union Finishing
    BY DEF OneRunGoes, Looping, Finishing
  <2>3. started'[p] = None =>
          started[p] = None /\ pc'[p] \in {"route", "deploy", "snapshot", "closed"}
    BY <1>0, <1>1, <2>2, Course
  <2>4. started'[p] # None => pc'[p] \notin {"route", "deploy", "snapshot"}
    <3>1. pc[p] = "snapshot" => started[p] = None
      BY DEF OneRunGoes
    <3>2. pc[p] \in {"route", "deploy", "snapshot"} => started[p] = None
      BY DEF OneRunGoes
    <3> QED BY <1>0, <1>1, <3>2, Course DEF Looping, Finishing
  <2> QED BY <2>1, <2>3, <2>4 DEF OneRunGoes
<1>2. CASE Run(p)
  <2>1. pc' = pc /\ started' = started
    BY <1>2 DEF Run, StartRun, ReadProgress, WriteProgress, Work, EndRun, passes
  <2>2. CASE StartRun(p)
    <3>1. /\ wrote' = wrote /\ state'[p] = "running" /\ started[p] # None
          /\ \A r \in Prior : state'[r] = state[r] /\ startedAt'[r] = startedAt[r]
      BY <1>0, <2>2 DEF StartRun
    <3> QED BY <2>1, <3>1 DEF OneRunGoes
  <2>3. CASE EndRun(p)
    <3>1. /\ wrote' = wrote /\ startedAt' = startedAt /\ state'[p] = "ended" /\ state[p] = "running"
          /\ \A r \in Prior : state'[r] = state[r]
      BY <1>0, <2>3 DEF EndRun
    <3> QED BY <2>1, <3>1 DEF OneRunGoes
  <2>4. CASE ReadProgress(p) \/ Work(p)
    <3>1. wrote' = wrote /\ startedAt' = startedAt /\ state' = state
      BY <2>4 DEF ReadProgress, Work
    <3> QED BY <2>1, <3>1 DEF OneRunGoes
  <2>5. CASE WriteProgress(p)
    <3>1. startedAt' = startedAt /\ state' = state /\ state[p] = "running"
      BY <2>5 DEF WriteProgress, Recording
    <3>2. \A i \in 1..Len(wrote[p]) : wrote[p][i] \notin TerminalStages
      BY <1>0, <2>5 DEF WriteProgress, Recording
    <3>3. PICK stage \in Stages : wrote' = [wrote EXCEPT ![p] = Append(@, stage)]
      BY <2>5 DEF WriteProgress
    <3>4. wrote'[p] = Append(wrote[p], stage)
      BY <1>0, <3>3 DEF TypeOK
    <3>5. /\ Len(wrote'[p]) - 1 = Len(wrote[p])
          /\ \A i \in 1..Len(wrote[p]) : wrote'[p][i] = wrote[p][i]
      BY <1>0, <3>4
    <3> QED BY <2>1, <3>1, <3>2, <3>5 DEF OneRunGoes
  <2> QED BY <1>2, <2>2, <2>3, <2>4, <2>5 DEF Run
<1>3. CASE InvokeFails(p) \/ Disconnect(p) \/ Tick \/ AppCrash \/ DeleteIdea \/ UNCHANGED vars
  <2>1. UNCHANGED <<pc, started, state, startedAt, wrote>>
    BY <1>3 DEF InvokeFails, Disconnect, Tick, AppCrash, DeleteIdea, vars, runtime, passes
  <2> QED BY <2>1 DEF OneRunGoes
<1> QED BY <1>1, <1>2, <1>3, OneActs

\* A feed's length, once fetched, and a run's end stay true.
LEMMA FeedGrows ==
  ASSUME TypeOK, NEW p \in Passes, [Next]_vars
  PROVE  feed[p] \in Nat /\ feed'[p] \in Nat /\ feed[p] <= feed'[p] /\ (state[p] = "ended" => state'[p] = "ended")
<1>0. /\ p \in Runs /\ state \in [Runs -> {"idle", "running", "ended"}]
      /\ feed \in [Runs -> Nat]
  BY RunFacts
<1>1. ASSUME NEW q \in Passes, Step(q) \/ InvokeFails(q) \/ Disconnect(q)
      PROVE  feed' = feed /\ state' = state
  BY <1>1, NothingRecorded DEF runtime
<1>2. CASE Tick \/ AppCrash \/ DeleteIdea \/ UNCHANGED vars
  BY <1>0, <1>2 DEF Tick, AppCrash, DeleteIdea, vars, runtime
<1>3. ASSUME NEW r \in Runs, StartRun(r) \/ EndRun(r)
      PROVE  feed' = feed /\ (state[p] = "ended" => state'[p] = "ended")
  BY <1>0, <1>3 DEF StartRun, EndRun
<1>4. ASSUME NEW r \in Runs, ReadProgress(r) \/ WriteProgress(r)
      PROVE  feed' = feed /\ state' = state
  BY <1>4 DEF ReadProgress, WriteProgress
<1>5. ASSUME NEW r \in Runs, Work(r)
      PROVE  feed'[p] \in Nat /\ feed[p] <= feed'[p] /\ state' = state
  BY <1>0, <1>5 DEF Work
<1> QED BY <1>0, <1>1, <1>2, <1>3, <1>4, <1>5 DEF Next, Run

\* A feed that is discovered is the own run's.
LEMMA DiscoversOwn ==
  ASSUME TypeOK, NEW p \in Passes, Alone(p), OneRunGoes(p), Discover(p)
  PROVE  latest = p
<1>1. latest \in {p} \union Prior
  BY DEF TypeOK, Alone, Runs, Discover
<1>2. ASSUME latest \in Prior PROVE FALSE
  <2>1. state[latest] = "ended" /\ startedAt[latest] = -PriorAge - HostLag
    BY <1>2 DEF OneRunGoes
  <2>2. started[p] \in Nat
    BY DEF Discover, At, OneRunGoes, TypeOK
  <2>3. PriorAge \in Nat /\ HostLag \in Nat /\ MatchSkew \in Nat
    BY RunsAreNamedApart, PeriodsArePositive
  <2>4. CASE HostStamps
    <3>1. startedAt[latest] >= started[p] - MatchSkew
      BY <2>4 DEF Discover, IsThisRun
    <3> QED BY <2>1, <2>2, <2>3, <2>4, <3>1 DEF Alone
  <2>5. CASE ~HostStamps
    BY <2>1, <2>5 DEF Discover, IsThisRun
  <2> QED BY <2>4, <2>5
<1> QED BY <1>1, <1>2

LEMMA InTheLoop ==
  ASSUME NEW p \in Passes, Step(p), pc[p] \in Looping
  PROVE  Check(p) \/ KvReadFails(p) \/ ReadKv(p) \/ Discover(p) \/ PollNothing(p) \/ FetchPage(p)
BY DEF Step, Looping, Route, Deploy, SnapshotAndInvoke, SnapshotFails, AppIsUp, AppLooksDown,
   ResolveUrl, StopApp, StartApp, RestartFails, RecordLive, ReadTimeline, Finish, At

LEMMA FeedStaysOwn ==
  ASSUME TypeOK, TypeOK', NEW p \in Passes, Alone(p), OneRunGoes(p), FeedIsOwn(p), [Next]_vars
  PROVE  FeedIsOwn(p)'
<1>0. /\ p \in Runs /\ PassesTyped /\ Placed /\ None \notin Runs /\ after[p] \in Nat
      /\ now \in Nat /\ None \notin Nat
  BY TypedInParts, RunsAreNamedApart, BoundsAreNumbers DEF Runs, PassesTyped, OutsideTyped
<1>1. feed[p] \in Nat /\ feed'[p] \in Nat /\ feed[p] <= feed'[p] /\ (state[p] = "ended" => state'[p] = "ended")
  BY FeedGrows
<1>2. ASSUME bound'[p] = bound[p], after'[p] = after[p], feedDone'[p] = feedDone[p],
             feedDoneAt'[p] = feedDoneAt[p] \/ feedDone[p],
             activity'[p] = activity[p], pc'[p] = "page" => pc[p] = "page"
      PROVE  FeedIsOwn(p)'
  BY <1>0, <1>1, <1>2 DEF FeedIsOwn
<1>3. CASE Discover(p)
  <2>1. /\ bound'[p] = p /\ bound[p] = None /\ UNCHANGED <<after, feedDone, feedDoneAt, activity>>
        /\ state' = state
    BY <1>0, <1>3, DiscoversOwn, NothingRecorded DEF Discover, PassesTyped, stream, runtime
  <2> QED BY <1>0, <1>1, <2>1 DEF FeedIsOwn
<1>4. CASE PollNothing(p)
  <2>1. feedDone[p] \in BOOLEAN /\ AfterPoll(p, feedDone[p])
    BY <1>0, <1>4 DEF PassesTyped, PollNothing
  <2>2. /\ pc'[p] \in {"check", "ensure"}
        /\ feedDoneAt'[p] = (IF feedDone[p] /\ feedDoneAt[p] = None THEN now ELSE feedDoneAt[p])
    BY <2>1, AfterPollFacts
  <2> QED BY <1>2, <1>4, <2>2 DEF PollNothing, stream
<1>5. CASE FetchPage(p)
  <2>1. FetchedPage(p, bound[p]) /\ bound' = bound
    BY <1>5, FetchPageFetches DEF FetchPage
  <2>2. bound[p] = p /\ after[p] <= feed[p] /\ feedDoneAt[p] = None /\ state' = state
    BY <1>0, <1>5, <2>1, NothingRecorded DEF FeedIsOwn, FetchedPage, Step, runtime
  <2>3. after'[p] = feed[p] /\ feedDone'[p] = (state[p] = "ended")
    BY <1>0, <2>1, <2>2 DEF FetchedPage, PassesTyped
  <2>4. activity'[p] = activity[p] \/ feed[p] > after[p]
    BY <2>1, <2>2 DEF FetchedPage
  <2>5. activity'[p] # {} => after'[p] > 0
    BY <1>0, <1>1, <2>2, <2>3, <2>4 DEF FeedIsOwn
  <2>6. (feedDoneAt'[p] # None => state[p] = "ended") /\ pc'[p] # "page"
    <3>1. CASE AfterPoll(p, state[p] = "ended")
      <4>1. (state[p] = "ended") \in BOOLEAN
        OBVIOUS
      <4>2. /\ pc'[p] \in {"check", "ensure"}
            /\ feedDoneAt'[p] = (IF (state[p] = "ended") /\ feedDoneAt[p] = None THEN now ELSE feedDoneAt[p])
        BY <3>1, <4>1, AfterPollFacts
      <4> QED BY <2>2, <4>2
    <3>2. CASE Close(p, "abandoned") /\ feedDoneAt' = feedDoneAt
      BY <1>0, <2>2, <3>2 DEF Close, Placed
    <3> QED BY <2>1, <2>2, <3>1, <3>2 DEF FetchedPage
  <2> QED BY <1>0, <1>1, <2>1, <2>2, <2>3, <2>5, <2>6 DEF FeedIsOwn
<1>6. CASE Step(p) /\ pc[p] \notin Looping
  <2>1. UNCHANGED <<poller, activity>> /\ pc'[p] # "page"
    BY <1>6, Course DEF Finishing, Looping
  <2> QED BY <1>2, <2>1 DEF poller
<1>7. CASE Check(p) \/ KvReadFails(p)
  <2>1. UNCHANGED <<poller, activity>> /\ pc'[p] # "page"
    BY <1>0, <1>7 DEF Check, KvReadFails, Continue, Close, Placed, stream
  <2> QED BY <1>2, <2>1 DEF poller
<1>8. CASE ReadKv(p)
  <2>1. PICK k \in Nat : Handles(p, StagesOf(p, progress), k)
    BY <1>8, ReadKvHandles
  <2>2. UNCHANGED <<poller, activity>>
    BY <1>8 DEF ReadKv
  <2>3. pc'[p] # "page"
    BY <1>0, <2>1 DEF Handles, Continue, Close, Placed
  <2> QED BY <1>2, <2>2, <2>3 DEF poller
<1>9. CASE Step(p)
  BY <1>3, <1>4, <1>5, <1>6, <1>7, <1>8, <1>9, InTheLoop
<1>10. CASE InvokeFails(p) \/ Disconnect(p) \/ Tick \/ AppCrash \/ DeleteIdea \/ Run(p) \/ UNCHANGED vars
  <2>1. UNCHANGED <<pc, poller, activity>>
    BY <1>10 DEF InvokeFails, Disconnect, Tick, AppCrash, DeleteIdea, Run, StartRun, ReadProgress,
       WriteProgress, Work, EndRun, vars, passes, stream
  <2> QED BY <1>2, <2>1 DEF poller
<1> QED BY <1>9, <1>10, OneActs

\* The log holds something of the run exactly when the run recorded something.
LEMMA LogHoldsOwn ==
  ASSUME TypeOK, NEW p \in Passes, LogFollowsRun(p)
  PROVE  /\ StagesOf(p, progress) \in Seq(Stages)
         /\ Len(StagesOf(p, progress)) # 0 <=> wrote[p] # <<>>
<1> DEFINE own == StagesOf(p, progress)  L == Len(progress)  W == Len(wrote[p])
<1>0. /\ progress \in Seq(Entry) /\ wrote[p] \in Seq(Stages) /\ L \in Nat /\ W \in Nat
      /\ MaxEntries \in Nat \ {0}
  BY RunFacts
<1>1. /\ own \in Seq(Stages) /\ Len(own) \in Nat
      /\ \A i \in 1..Len(own) : \E j \in 1..L : progress[j].run = p
      /\ (\E j \in 1..L : progress[j].run = p) => Len(own) # 0
  <2>1. own \in Seq(Stages)
    BY <1>0, StagesFacts
  <2> HIDE DEF own
  <2>2. Len(own) \in Nat
    BY <2>1
  <2> QED BY <1>0, <2>1, <2>2, StagesFacts DEF own
<1> HIDE DEF own
<1>2. W # 0 <=> wrote[p] # <<>>
  BY <1>0
<1>3. /\ L < W => L = MaxEntries
      /\ \A i \in 1..L : IF i > L - W THEN progress[i] = [run |-> p, stage |-> wrote[p][W - (L - i)]]
                         ELSE progress[i].run # p
  BY DEF LogFollowsRun
<1> HIDE DEF L, W
<1>4. W # 0 => Len(own) # 0
  <2> SUFFICES ASSUME W # 0 PROVE \E j \in 1..L : progress[j].run = p
    BY <1>1
  <2>1. (L < W => L = MaxEntries) /\ L \in Nat /\ W \in Nat /\ MaxEntries \in Nat \ {0}
    BY <1>0, <1>3
  <2>2. L \in 1..L /\ L > L - W
    BY <2>1
  <2>3. progress[L] = [run |-> p, stage |-> wrote[p][W - (L - L)]]
    BY <1>3, <2>2
  <2> HIDE DEF L
  <2> QED BY <2>2, <2>3
<1>5. W = 0 => Len(own) = 0
  <2> SUFFICES ASSUME W = 0, Len(own) # 0 PROVE FALSE
    OBVIOUS
  <2>1. 1 \in 1..Len(own)
    BY <1>1
  <2>2. PICK j \in 1..L : progress[j].run = p
    BY <1>1, <2>1
  <2>3. ~(j > L - W)
    BY <1>0
  <2> QED BY <1>3, <2>2, <2>3
<1> QED BY <1>1, <1>2, <1>4, <1>5 DEF own

LEMMA ReadKvShows ==
  ASSUME TypeOK, NEW p \in Passes, LogFollowsRun(p), ShownIsRead(p), ReadKv(p)
  PROVE  ShownIsRead(p)'
<1>0. PassesTyped /\ Placed /\ milestones[p] \in Seq(Stages) /\ relayed[p] \in Nat
  BY TypedInParts, SomethingIsRecorded DEF PassesTyped
<1> DEFINE own == StagesOf(p, progress)
<1>1. PICK k \in Nat : Handles(p, own, k)
  BY ReadKvHandles
<1>2. own \in Seq(Stages) /\ (Len(own) # 0 <=> wrote[p] # <<>>)
  BY LogHoldsOwn
<1> HIDE DEF own
<1>3. k <= Len(own) /\ Len(own) \in Nat
  BY <1>1, <1>2 DEF Handles
<1> DEFINE handled == SubSeq(own, relayed[p] + 1, k)
<1>4. handled \in Seq(Stages) /\ Len(handled) = IF relayed[p] < k THEN k - relayed[p] ELSE 0
  BY <1>0, <1>2, <1>3, SubSeqFacts
<1> HIDE DEF handled
<1>5. Shown(handled) \in Seq(Stages) /\ Len(Shown(handled)) <= Len(handled)
  BY <1>4, ShownFacts
<1>6. milestones'[p] = milestones[p] \/ milestones'[p] = milestones[p] \o Shown(handled)
  BY <1>0, <1>1 DEF Handles, handled, PassesTyped
<1>7. milestones'[p] # <<>> => milestones[p] # <<>> \/ Len(own) # 0
  <2> SUFFICES ASSUME milestones[p] = <<>>, Len(own) = 0 PROVE milestones'[p] = <<>>
    OBVIOUS
  <2>1. Len(handled) = 0
    BY <1>0, <1>3, <1>4
  <2>2. Len(Shown(handled)) = 0
    <3> DEFINE n == Len(Shown(handled))
    <3>1. n \in Nat /\ n <= 0
      BY <1>5, <2>1
    <3> HIDE DEF n
    <3>2. n = 0
      BY <3>1
    <3> QED BY <3>2 DEF n
  <2>3. Shown(handled) = <<>>
    BY <1>5, <2>2
  <2> QED BY <1>6, <2>3
<1>8. wrote' = wrote
  BY DEF ReadKv, runtime
<1>9. relayed'[p] # 0 => relayed[p] # 0 \/ Len(own) # 0
  BY <1>0, <1>1, <1>3 DEF Handles, PassesTyped
<1>10. pc'[p] \in Looping => relayed'[p] = Len(own)
  BY <1>0, <1>1 DEF Handles, Continue, Close, Placed, PassesTyped, Looping
<1>11. pc'[p] \in {"feed", "ensure", "closed"} /\ (outcome'[p] # "none" <=> pc'[p] = "closed")
  <2>1. pc[p] \in Looping /\ outcome[p] = "none"
    BY DEF ReadKv, At, ShownIsRead, Looping
  <2>2. IF pc'[p] = "closed" THEN outcome'[p] # "none" ELSE outcome'[p] = outcome[p]
    BY Course DEF Step
  <2> QED BY <1>0, <1>1, <2>1, <2>2 DEF Handles, Continue, Close, Placed
<1> QED BY <1>2, <1>7, <1>8, <1>9, <1>10, <1>11 DEF ShownIsRead

LEMMA ShownStaysRead ==
  ASSUME TypeOK, TypeOK', NEW p \in Passes, Alone(p), OneRunGoes(p), LogFollowsRun(p),
         ShownIsRead(p), [Next]_vars
  PROVE  ShownIsRead(p)'
<1>0. PassesTyped /\ Placed /\ p \in Runs
  BY TypedInParts DEF Runs
<1>1. wrote[p] # <<>> => wrote'[p] # <<>>
  <2>1. wrote[p] \in Seq(Stages) /\ wrote'[p] \in Seq(Stages) /\ Grows
    BY <1>0, RecordsGrow DEF TypeOK
  <2> SUFFICES ASSUME wrote[p] # <<>>, wrote'[p] = <<>> PROVE FALSE
    OBVIOUS
  <2>2. 1 \in DOMAIN wrote[p]
    BY <2>1
  <2>3. 1 \in DOMAIN wrote'[p]
    BY <1>0, <2>1, <2>2 DEF Grows
  <2> QED BY <2>1, <2>3
<1>2. ASSUME relayed'[p] = relayed[p], milestones'[p] = milestones[p],
             pc'[p] \in Looping => pc[p] \in Looping \/ milestones[p] = <<>>,
             pc'[p] \in {"route", "deploy", "snapshot"} =>
               pc[p] \in {"route", "deploy", "snapshot"} /\ activity'[p] = activity[p],
             outcome'[p] # "none" <=> pc'[p] = "closed"
      PROVE  ShownIsRead(p)'
  BY <1>1, <1>2 DEF ShownIsRead
<1>3. CASE Step(p) /\ pc[p] \notin Looping
  <2>1. UNCHANGED <<relayed, milestones, activity>>
    BY <1>3, Course
  <2>2. outcome[p] # "none" <=> pc[p] = "closed"
    BY DEF ShownIsRead
  <2>3. pc[p] = "snapshot" => milestones[p] = <<>>
    BY DEF ShownIsRead
  <2>4. /\ pc'[p] \in Looping => milestones[p] = <<>>
        /\ pc'[p] \in {"route", "deploy", "snapshot"} => pc[p] \in {"route", "deploy", "snapshot"}
        /\ pc[p] # "closed"
    BY <1>3, <2>3, Course DEF Looping, Finishing
  <2>5. outcome'[p] # "none" <=> pc'[p] = "closed"
    BY <1>3, <2>2, <2>4, Course
  <2> QED BY <1>2, <2>1, <2>4, <2>5
<1>4. CASE Step(p) /\ pc[p] \in Looping /\ ~ReadKv(p)
  <2>1. Check(p) \/ KvReadFails(p) \/ Discover(p) \/ PollNothing(p) \/ FetchPage(p)
    BY <1>4, InTheLoop
  <2>2. relayed' = relayed /\ milestones' = milestones
    BY <2>1 DEF Check, KvReadFails, Discover, PollNothing, FetchPage, stream
  <2>3. pc'[p] \in Looping \union {"ensure", "closed"}
    BY <1>4, Course DEF Looping, Finishing
  <2>4. outcome[p] = "none"
    BY <1>4 DEF ShownIsRead, Looping
  <2>5. outcome'[p] # "none" <=> pc'[p] = "closed"
    BY <1>4, <2>4, Course
  <2> QED BY <1>2, <1>4, <2>2, <2>3, <2>5 DEF Looping
<1>5. CASE InvokeFails(p) \/ Disconnect(p) \/ Tick \/ AppCrash \/ DeleteIdea \/ Run(p) \/ UNCHANGED vars
  <2>1. UNCHANGED <<pc, outcome, relayed, milestones, activity>>
    BY <1>5 DEF InvokeFails, Disconnect, Tick, AppCrash, DeleteIdea, Run, StartRun, ReadProgress,
       WriteProgress, Work, EndRun, vars, passes, stream
  <2> QED BY <1>2, <2>1 DEF ShownIsRead
<1> QED BY <1>3, <1>4, <1>5, ReadKvShows, OneActs

LEMMA SilentStays ==
  ASSUME TypeOK, TypeOK', NEW p \in Passes, Alone(p), OneRunGoes(p), FeedIsOwn(p), ShownIsRead(p),
         Silent(p), [Next]_vars
  PROVE  Silent(p)'
<1>0. PassesTyped /\ Placed
  BY TypedInParts
<1>1. CASE Deploy(p) \/ Check(p)
  <2>1. milestones' = milestones /\ activity' = activity /\ outcome[p] = "none"
    BY <1>1 DEF Deploy, Check, At, stream, ShownIsRead
  <2>2. CASE Deploy(p)
    BY <2>1, <2>2 DEF Silent, Deploy, At, ShownIsRead
  <2>3. CASE Check(p)
    <3>1. outcome'[p] = "AGENT_UNAVAILABLE" => InvokeLooksDead(p)
      BY <1>0, <2>1, <2>3 DEF Check, Close, Continue, Placed
    <3>2. InvokeLooksDead(p) => milestones[p] = <<>> /\ activity[p] = {}
      BY <2>3 DEF InvokeLooksDead, ShownIsRead, FeedIsOwn, Check, At, Looping
    <3> QED BY <2>1, <3>1, <3>2 DEF Silent
  <2> QED BY <1>1, <2>2, <2>3
<1>2. CASE Step(p) /\ ~Deploy(p) /\ ~Check(p)
  <2>1. outcome[p] = "none"
    BY <1>2, Course DEF ShownIsRead, Looping, Finishing
  <2>2. outcome'[p] # "AGENT_UNAVAILABLE"
    <3>1. ASSUME NEW await, Continue(p, await) PROVE outcome'[p] # "AGENT_UNAVAILABLE"
      BY <2>1, <3>1 DEF Continue
    <3>2. ASSUME NEW event \in Outcomes \ {"AGENT_UNAVAILABLE"}, Close(p, event)
          PROVE  outcome'[p] # "AGENT_UNAVAILABLE"
      BY <1>0, <3>2, ClosePlaced
    <3>3. {"done", "abandoned", "IDEA_NOT_FOUND", "AGENT_RUN_FAILED", "AGENT_RUN_TIMEOUT", "BUILD_FAILED"}
            \subseteq Outcomes \ {"AGENT_UNAVAILABLE"}
      BY DEF Outcomes
    <3>4. CASE ReadKv(p)
      <4>1. PICK k \in Nat : Handles(p, StagesOf(p, progress), k)
        BY <3>4, ReadKvHandles
      <4> QED BY <3>1, <3>2, <3>3, <4>1 DEF Handles
    <3>5. CASE PollNothing(p)
      BY <3>1, <3>5 DEF PollNothing, AfterPoll
    <3>6. CASE FetchPage(p)
      BY <3>1, <3>2, <3>3, <3>6 DEF FetchPage, AfterPoll
    <3>7. CASE \/ Route(p) \/ SnapshotAndInvoke(p) \/ SnapshotFails(p) \/ KvReadFails(p) \/ Discover(p)
      <4>1. (\E await \in Awaits : Continue(p, await))
              \/ \E event \in {"abandoned", "IDEA_NOT_FOUND", "BUILD_FAILED"} : Close(p, event)
        BY <3>7, AwaitNames DEF Route, SnapshotAndInvoke, SnapshotFails, KvReadFails, Discover, EmitThen
      <4> QED BY <3>1, <3>2, <3>3, <4>1
    <3>8. CASE \/ AppIsUp(p) \/ AppLooksDown(p) \/ ResolveUrl(p) \/ StopApp(p) \/ StartApp(p)
               \/ RestartFails(p) \/ RecordLive(p) \/ ReadTimeline(p) \/ Finish(p)
      <4>1. (\E await \in Awaits : Continue(p, await))
              \/ \E event \in {"abandoned", "BUILD_FAILED", "done"} : Close(p, event)
        BY <3>8, AwaitNames DEF AppIsUp, AppLooksDown, ResolveUrl, StopApp, StartApp, RestartFails,
           RecordLive, ReadTimeline, Finish, EmitThen
      <4> QED BY <3>1, <3>2, <3>3, <4>1
    <3> QED BY <1>2, <3>4, <3>5, <3>6, <3>7, <3>8 DEF Step
  <2> QED BY <2>2 DEF Silent
<1>3. CASE InvokeFails(p) \/ Disconnect(p) \/ Tick \/ AppCrash \/ DeleteIdea \/ Run(p) \/ UNCHANGED vars
  <2>1. UNCHANGED <<outcome, milestones, activity>>
    BY <1>3 DEF InvokeFails, Disconnect, Tick, AppCrash, DeleteIdea, Run, StartRun, ReadProgress,
       WriteProgress, Work, EndRun, vars, passes, stream
  <2> QED BY <2>1 DEF Silent
<1> QED BY <1>1, <1>2, <1>3, OneActs

LEMMA AloneInit ==
  ASSUME NEW p \in Passes, Alone(p), Init
  PROVE  LogFollowsRun(p) /\ OneRunGoes(p) /\ FeedIsOwn(p) /\ ShownIsRead(p) /\ Silent(p)
<1>0. /\ p \in Runs /\ p \notin Prior /\ Prior \subseteq Runs /\ None \notin Runs
      /\ MaxFeed \in Nat
  BY RunsAreNamedApart, BoundsAreNumbers DEF Runs
<1>1. LogFollowsRun(p)
  <2>1. /\ progress \in Seq(Entry)
        /\ \A i \in 1..Len(progress) : progress[i].run \in Prior
    BY InitialLog
  <2>2. wrote[p] = <<>> /\ Len(wrote[p]) = 0 /\ Len(progress) \in Nat /\ copy[p] = None
    BY <1>0, <2>1 DEF Init
  <2>3. \A i \in 1..Len(progress) : ~(i > Len(progress) - 0) /\ progress[i].run # p
    BY <1>0, <2>1, <2>2
  <2> QED BY <2>2, <2>3 DEF LogFollowsRun
<1>2. OneRunGoes(p)
  BY <1>0 DEF Init, OneRunGoes
<1>3. FeedIsOwn(p) /\ ShownIsRead(p) /\ Silent(p)
  BY <1>0 DEF Init, FeedIsOwn, ShownIsRead, Silent
<1> QED BY <1>1, <1>2, <1>3

LEMMA AloneNext ==
  ASSUME NEW p \in Passes, Alone(p), AInv(p), IInv', [Next]_vars
  PROVE  AInv(p)'
<1>1. TypeOK /\ TypeOK'
  BY DEF AInv, IInv
<1> QED BY <1>1, LogFollowsOn, OneRunStays, FeedStaysOwn, ShownStaysRead, SilentStays DEF AInv

\* The invariant of a pass that is alone is inductive.
THEOREM AloneInvariance == ASSUME NEW p \in Passes, Alone(p) PROVE Spec => []AInv(p)
<1>1. Init /\ IInv => AInv(p)
  BY AloneInit DEF AInv
<1>2. AInv(p) /\ IInv' /\ [Next]_vars => AInv(p)'
  BY AloneNext
<1> QED BY <1>1, <1>2, Invariance, PTL DEF Spec

\* A pass that is alone calls the agent unavailable only while nothing of its run
\* has been shown, however late the invocation is answered with an error.
THEOREM UnavailableIsSilent ==
  ASSUME NEW p \in Passes, Alone(p) PROVE Spec => []UnavailableMeansSilence
<1>1. AInv(p) => UnavailableMeansSilence
  BY DEF AInv, Silent, UnavailableMeansSilence, Alone
<1> QED BY <1>1, AloneInvariance, PTL

\* A pass that is alone, whatever was recorded and fed before it, ends with done
\* only when its own run has recorded that it is done, or has ended.
THEOREM DoneIsEarnedAlone ==
  ASSUME NEW p \in Passes, Alone(p) PROVE Spec => []DoneIsEarned
<1>1. AInv(p) => DoneIsEarned
  <2> SUFFICES ASSUME AInv(p), outcome[p] = "done"
               PROVE  Recorded(p, DoneStages) \/ state[p] = "ended"
    BY DEF DoneIsEarned, Alone
  <2> QED BY DEF AInv, IInv, Honest, FeedIsOwn
<1> QED BY <1>1, AloneInvariance, PTL

-----------------------------------------------------------------------------
(* What the registry is told of the cell                                   *)

\* Once a pass that is alone is finishing, its run has no more to say.
LEMMA RunIsOver ==
  ASSUME NEW p \in Passes, AInv(p), pc[p] \in Finishing \/ outcome[p] = "done"
  PROVE  (Recorded(p, DoneStages) \/ state[p] = "ended") /\ ~Recording(p)
<1>1. Recorded(p, DoneStages) \/ state[p] = "ended"
  BY DEF AInv, IInv, Honest, FeedIsOwn
<1> QED BY <1>1 DEF Recording, Recorded, TerminalStages

\* How the last steps of a pass leave the service, the record and the verdict.
LEMMA AppStaysKnown ==
  ASSUME NEW p \in Passes, Alone(p), AppInv(p), "kv" \notin Incidents,
         Step(p), pc[p] \in Finishing
  PROVE  AppIsKnown(p)' /\ Matches(p)'
<1>0. /\ PassesTyped /\ Placed /\ service \in BOOLEAN /\ outcome[p] = "none"
      /\ observed[p] \in Observations /\ observed[p].live \in BOOLEAN
  <2>1. PassesTyped /\ Placed /\ service \in BOOLEAN
    BY TypedInParts DEF AppInv, AInv, IInv, OutsideTyped
  <2>2. outcome[p] = "none"
    BY DEF AppInv, AInv, ShownIsRead, Finishing
  <2> QED BY <2>1, <2>2 DEF PassesTyped, Observations
<1>1. ASSUME NEW await \in Awaits, Continue(p, await)
      PROVE  pc'[p] = await /\ outcome'[p] = "none"
  BY <1>0, <1>1, ContinuePlaced
<1>2. ASSUME NEW event \in Outcomes \ {"done"}, Close(p, event)
      PROVE  pc'[p] = "closed" /\ outcome'[p] # "done"
  BY <1>0, <1>2, ClosePlaced
<1>3. /\ {"ensure", "resolve", "stop", "start", "record", "sync", "finish"} \subseteq Awaits
      /\ {"abandoned", "BUILD_FAILED"} \subseteq Outcomes \ {"done"}
  BY DEF Awaits, Finishing, Outcomes
<1>4. ASSUME NEW await \in Awaits, EmitThen(p, await)
      PROVE  pc'[p] \in {await, "closed"} /\ outcome'[p] # "done"
  BY <1>0, <1>1, <1>2, <1>3, <1>4 DEF EmitThen
<1>5. CASE AppIsUp(p) \/ AppLooksDown(p)
  <2>1. service' = service /\ observed' = observed
    BY <1>5 DEF AppIsUp, AppLooksDown, cell
  <2>2. outcome'[p] = "none" /\ (pc'[p] = "stop" \/ (service /\ pc'[p] \in {"sync", "resolve"}))
    BY <1>1, <1>3, <1>5 DEF AppIsUp, AppLooksDown
  <2> QED BY <2>1, <2>2 DEF AppIsKnown, Matches
<1>6. CASE ResolveUrl(p)
  <2>1. service' = service /\ service /\ pc'[p] \in {"sync", "closed"} /\ outcome'[p] # "done"
    BY <1>3, <1>4, <1>6 DEF ResolveUrl, cell, At, AppInv, AppIsKnown
  <2> QED BY <2>1 DEF AppIsKnown, Matches
<1>7. CASE StopApp(p) \/ StartApp(p)
  <2>1. outcome'[p] = "none" /\ (pc'[p] = "start" \/ (service' /\ pc'[p] = "record"))
    BY <1>1, <1>3, <1>7 DEF StopApp, StartApp
  <2> QED BY <2>1 DEF AppIsKnown, Matches
<1>8. CASE RecordLive(p)
  <2>1. service' = service /\ service
    BY <1>8 DEF RecordLive, cell, At, AppInv, AppIsKnown
  <2>2. pc'[p] \in {"sync", "closed"} /\ outcome'[p] # "done"
    BY <1>2, <1>3, <1>4, <1>8 DEF RecordLive
  <2> QED BY <2>1, <2>2 DEF AppIsKnown, Matches
<1>9. CASE RestartFails(p)
  <2>1. \/ Continue(p, "sync") /\ observed' = [observed EXCEPT ![p] = [live |-> FALSE, error |-> TRUE]]
        \/ Close(p, "BUILD_FAILED")
    BY <1>9 DEF RestartFails
  <2>2. CASE Close(p, "BUILD_FAILED")
    <3>1. pc'[p] = "closed" /\ outcome'[p] # "done"
      BY <1>2, <1>3, <2>2
    <3> QED BY <3>1 DEF AppIsKnown, Matches
  <2>3. CASE Continue(p, "sync") /\ observed' = [observed EXCEPT ![p] = [live |-> FALSE, error |-> TRUE]]
    <3>1. pc'[p] = "sync" /\ outcome'[p] # "done" /\ ~observed'[p].live
      BY <1>0, <1>1, <1>3, <2>3 DEF PassesTyped
    <3> QED BY <3>1 DEF AppIsKnown, Matches
  <2> QED BY <2>1, <2>2, <2>3
<1>10. CASE ReadTimeline(p)
  <2>1. UNCHANGED <<service, timeline, observed>> /\ fetched'[p] = timeline
    BY <1>0, <1>10 DEF ReadTimeline, cell, PassesTyped
  <2>2. pc'[p] = "finish" /\ outcome'[p] = "none" /\ (observed[p].live => service)
    BY <1>1, <1>3, <1>10 DEF ReadTimeline, At, AppInv, AppIsKnown
  <2> QED BY <2>1, <2>2 DEF AppIsKnown, Matches
<1>11. CASE Finish(p)
  <2>1. UNCHANGED <<service, timeline>> /\ (observed[p].live => service) /\ fetched[p] = timeline
    BY <1>11 DEF Finish, cell, At, AppInv, AppIsKnown
  <2>2. pc'[p] = "closed"
    BY <1>0, <1>11, ClosePlaced, AwaitNames DEF Finish
  <2>3. CASE idea.exists
    <3>1. idea' = [exists |-> TRUE, live |-> observed[p].live, error |-> ~observed[p].live,
                   version |-> IF fetched[p] = 0 THEN idea.version ELSE fetched[p]]
      BY <1>11, <2>3 DEF Finish, Record
    <3>2. /\ idea'.live = observed[p].live /\ idea'.error = ~observed[p].live
          /\ timeline # 0 => idea'.version = timeline
      BY <2>1, <3>1
    <3>3. (idea'.live => service' /\ ~idea'.error) /\ (timeline' # 0 => idea'.version = timeline')
      BY <1>0, <2>1, <3>2
    <3> QED BY <2>2, <3>3 DEF AppIsKnown, Matches
  <2>4. CASE ~idea.exists
    <3>1. outcome'[p] # "done"
      BY <1>2, <1>3, <1>11, <2>4 DEF Finish
    <3> QED BY <2>2, <3>1 DEF AppIsKnown, Matches
  <2> QED BY <2>3, <2>4
<1>12. Step(p) => \/ AppIsUp(p) \/ AppLooksDown(p) \/ ResolveUrl(p) \/ StopApp(p) \/ StartApp(p)
                  \/ RestartFails(p) \/ RecordLive(p) \/ ReadTimeline(p) \/ Finish(p)
  BY DEF Step, Finishing, Route, Deploy, SnapshotAndInvoke, SnapshotFails, Check, ReadKv, KvReadFails,
     PollNothing, Discover, FetchPage, At
<1> QED BY <1>5, <1>6, <1>7, <1>8, <1>9, <1>10, <1>11, <1>12

\* A pass that is not finishing does not end with done.
LEMMA OnlyFinishIsDone ==
  ASSUME TypeOK, NEW p \in Passes, Step(p), pc[p] \notin Finishing, outcome[p] # "done"
  PROVE  outcome'[p] # "done"
<1>0. PassesTyped /\ Placed
  BY TypedInParts
<1>1. CASE ReadKv(p)
  <2>1. PICK k \in Nat : Handles(p, StagesOf(p, progress), k)
    BY <1>1, ReadKvHandles
  <2> QED BY <1>0, <2>1 DEF Handles, Continue, Close, Placed
<1>2. CASE PollNothing(p) \/ FetchPage(p)
  BY <1>0, <1>2 DEF PollNothing, FetchPage, AfterPoll, Continue, Close, Placed
<1>3. CASE ~ReadKv(p) /\ ~PollNothing(p) /\ ~FetchPage(p)
  <2>1. \/ Route(p) \/ Deploy(p) \/ SnapshotAndInvoke(p) \/ SnapshotFails(p)
        \/ Check(p) \/ KvReadFails(p) \/ Discover(p)
    BY <1>3 DEF Step, Finishing, AppIsUp, AppLooksDown, ResolveUrl, StopApp, StartApp, RestartFails,
       RecordLive, ReadTimeline, Finish, At
  <2>2. (\E await \in Awaits : Continue(p, await))
          \/ \E event \in {"abandoned", "IDEA_NOT_FOUND", "AGENT_UNAVAILABLE", "AGENT_RUN_TIMEOUT",
                           "BUILD_FAILED"} : Close(p, event)
    BY <2>1, AwaitNames DEF Route, Deploy, SnapshotAndInvoke, SnapshotFails, Check, KvReadFails,
       Discover, EmitThen
  <2> QED BY <1>0, <2>2 DEF Continue, Close, Placed
<1> QED BY <1>1, <1>2, <1>3

LEMMA AppNext ==
  ASSUME NEW p \in Passes, Alone(p), Incidents \intersect {"kv", "crash"} = {},
         AppInv(p), AInv(p)', [Next]_vars
  PROVE  AppIsKnown(p)' /\ Matches(p)'
<1>0. TypeOK /\ OneRunGoes(p) /\ (outcome[p] # "none" <=> pc[p] = "closed")
      /\ (outcome'[p] # "none" <=> pc'[p] = "closed")
  BY DEF AppInv, AInv, IInv, ShownIsRead
<1>1. CASE Step(p) /\ pc[p] \in Finishing
  BY <1>1, AppStaysKnown
<1>2. CASE Step(p) /\ pc[p] \notin Finishing
  <2>1. /\ pc'[p] \notin {"resolve", "record", "sync", "finish"}
        /\ pc'[p] # "closed" => outcome'[p] # "done"
    BY <1>0, <1>2, Course DEF Looping, Finishing
  <2>2. outcome'[p] # "done"
    <3>1. outcome[p] # "done"
      BY <1>0, <1>2, Course DEF Looping, Finishing
    <3> QED BY <1>0, <1>2, <3>1, OnlyFinishIsDone
  <2> QED BY <2>1, <2>2 DEF AppIsKnown, Matches
<1>3. CASE Run(p) \/ InvokeFails(p) \/ Disconnect(p) \/ Tick \/ UNCHANGED vars
  <2>1. UNCHANGED <<pc, outcome, observed, fetched, idea>>
    BY <1>3 DEF Run, StartRun, ReadProgress, WriteProgress, Work, EndRun, InvokeFails, Disconnect,
       Tick, vars, passes, stream
  <2>2. CASE Work(p)
    <3>1. pc[p] \notin Finishing /\ outcome[p] # "done"
      BY <2>2, RunIsOver DEF AppInv, Work
    <3> QED BY <2>1, <3>1 DEF AppIsKnown, Matches, Finishing
  <2>3. CASE ~Work(p)
    <3>1. UNCHANGED <<service, timeline>>
      BY <1>3, <2>3 DEF Run, StartRun, ReadProgress, WriteProgress, EndRun, InvokeFails, Disconnect,
         Tick, vars, cell
    <3> QED BY <2>1, <3>1 DEF AppInv, AppIsKnown, Matches
  <2> QED BY <2>2, <2>3
<1>4. CASE DeleteIdea
  <2>1. UNCHANGED <<pc, outcome, observed, fetched, service, timeline>> /\ ~idea'.exists
    BY <1>4 DEF DeleteIdea, cell, passes
  <2> QED BY <2>1 DEF AppInv, AppIsKnown, Matches
<1>5. ~AppCrash
  BY DEF AppCrash
<1> QED BY <1>0, <1>1, <1>2, <1>3, <1>4, <1>5, OneActs

\* While the app does not die by itself and the timeline can be read, a pass that
\* is alone leaves the registry with the cell's timeline and a true verdict on
\* the app, though the run restarts the app and the user may delete the idea.
THEOREM RegistryMatches ==
  ASSUME NEW p \in Passes, Alone(p), Incidents \intersect {"kv", "crash"} = {}
  PROVE  Spec => []RegistryMatchesCell
<1>1. Init /\ AInv(p) => AppInv(p)
  BY DEF AppInv, Init, AppIsKnown, Matches
<1>2. AppInv(p) /\ AInv(p)' /\ [Next]_vars => AppInv(p)'
  BY AppNext DEF AppInv
<1>3. AppInv(p) => RegistryMatchesCell
  BY DEF AppInv, Matches, RegistryMatchesCell, Alone
<1> QED BY <1>1, <1>2, <1>3, AloneInvariance, PTL DEF Spec

-----------------------------------------------------------------------------
(* While the log holds all that one run records                            *)

LEMMA SplitAt ==
  ASSUME NEW T, NEW s \in Seq(T), NEW r \in Nat, NEW k \in Nat, r <= k, k <= Len(s)
  PROVE  /\ SubSeq(s, 1, r) \in Seq(T) /\ SubSeq(s, r + 1, k) \in Seq(T)
         /\ SubSeq(s, 1, r) \o SubSeq(s, r + 1, k) = SubSeq(s, 1, k)
OBVIOUS

\* Then the run's stages in the log are those it recorded, in order.
LEMMA OwnIsAll ==
  ASSUME TypeOK, NEW p \in Passes, LogFollowsRun(p), Len(wrote[p]) <= MaxEntries
  PROVE  StagesOf(p, progress) = wrote[p]
<1> DEFINE L == Len(progress)  W == Len(wrote[p])  k == L - W
           keep == {i \in DOMAIN progress : progress[i].run = p}
           picked == Pick(progress, keep)
<1>0. /\ progress \in Seq(Entry) /\ wrote[p] \in Seq(Stages) /\ L \in Nat /\ W \in Nat
      /\ MaxEntries \in Nat /\ W <= MaxEntries
  BY RunFacts
<1>1. /\ L < W => L = MaxEntries
      /\ \A i \in 1..L : IF i > L - W THEN progress[i] = [run |-> p, stage |-> wrote[p][W - (L - i)]]
                         ELSE progress[i].run # p
  BY DEF LogFollowsRun
<1>2. L \in Nat /\ W \in Nat /\ W <= L /\ k \in 0..L /\ L - k = W
  <2>1. (L < W => L = MaxEntries) /\ L \in Nat /\ W \in Nat /\ MaxEntries \in Nat /\ W <= MaxEntries
    BY <1>0, <1>1
  <2> QED BY <2>1
<1>3. StagesOf(p, progress) = [i \in DOMAIN picked |-> picked[i].stage]
  BY DEF StagesOf
<1>4. \A n \in 1..L : n \in keep <=> n > k
  <2>1. DOMAIN progress = 1..L
    BY <1>0
  <2>2. ASSUME NEW n \in 1..L PROVE progress[n].run = p <=> n > k
    <3>1. IF n > k THEN progress[n] = [run |-> p, stage |-> wrote[p][W - (L - n)]]
          ELSE progress[n].run # p
      BY <1>1
    <3> DEFINE s == wrote[p][W - (L - n)]
    <3> HIDE DEF k, L, W, s
    <3>2. IF n > k THEN progress[n] = [run |-> p, stage |-> s] ELSE progress[n].run # p
      BY <3>1 DEF s
    <3> QED BY <3>2
  <2> QED BY <2>1, <2>2
<1>5. \A n \in (k + 1)..L : progress[n].stage = wrote[p][W - (L - n)]
  <2> TAKE n \in (k + 1)..L
  <2>1. n \in 1..L /\ n > L - W
    BY <1>2
  <2> DEFINE s == wrote[p][W - (L - n)]
  <2>2. progress[n] = [run |-> p, stage |-> s]
    BY <1>1, <2>1
  <2> HIDE DEF s, k, L
  <2>3. progress[n].stage = s
    BY <2>2
  <2> QED BY <2>3 DEF s
<1> HIDE DEF keep, k
<1>6. picked = SubSeq(progress, k + 1, L)
  BY <1>0, <1>2, <1>4, PickSuffix
<1> HIDE DEF picked
<1>7. /\ picked \in Seq(Entry) /\ Len(picked) = (IF k < L THEN L - k ELSE 0)
      /\ \A i \in 1..Len(picked) : picked[i] = progress[k + i]
  <2>1. k \in Nat /\ L \in Nat /\ L <= L /\ L = Len(progress)
    BY <1>2
  <2> HIDE DEF L, W
  <2>2. progress \in Seq(Entry) /\ L <= Len(progress)
    BY <1>0, <2>1
  <2> QED BY <1>6, <2>1, <2>2, SubSeqFacts
<1> HIDE DEF L, W
<1>8. Len(picked) = W /\ DOMAIN picked = 1..W
  <2>1. Len(picked) = W
    BY <1>2, <1>7
  <2> QED BY <1>7, <2>1
<1>9. \A i \in 1..W : picked[i].stage = wrote[p][i]
  <2> TAKE i \in 1..W
  <2> DEFINE n == k + i
  <2>1. n \in (k + 1)..L /\ W - (L - n) = i
    BY <1>2
  <2>2. picked[i] = progress[n]
    BY <1>7, <1>8
  <2> HIDE DEF n
  <2> QED BY <1>5, <2>1, <2>2
<1>10. StagesOf(p, progress) = [i \in 1..W |-> wrote[p][i]]
  BY <1>3, <1>8, <1>9
<1> QED BY <1>0, <1>10 DEF W

\* A reading of the log relays what was not relayed yet, up to a terminal entry.
LEMMA RelayReads ==
  ASSUME NEW p \in Passes, AInv(p), RelayKeepsUp(p), MaxSteps <= MaxEntries, ReadKv(p)
  PROVE  /\ RelayKeepsUp(p)'
         /\ pc'[p] = "feed" => \A i \in 1..Len(wrote[p]) : wrote[p][i] \notin TerminalStages
         /\ pc'[p] \in Finishing => ~Recorded(p, {"error"})
         /\ outcome'[p] # "done"
<1> DEFINE own == wrote[p]  W == Len(own)  r == relayed[p]
<1>0. /\ PassesTyped /\ Placed /\ TypeOK /\ own \in Seq(Stages) /\ W \in Nat /\ r \in Nat
      /\ milestones[p] \in Seq(Stages) /\ connected[p] \in BOOLEAN
  <2>1. TypeOK /\ PassesTyped /\ Placed
    BY TypedInParts DEF AInv, IInv
  <2>2. r \in Nat /\ milestones[p] \in Seq(Stages) /\ connected[p] \in BOOLEAN
    BY <2>1, SomethingIsRecorded DEF PassesTyped
  <2> QED BY <2>1, <2>2, RunFacts
<1>1. W <= MaxEntries
  <2>1. W <= MaxSteps /\ MaxSteps \in Nat /\ MaxEntries \in Nat
    BY BoundsAreNumbers, SomethingIsRecorded DEF RelayKeepsUp
  <2> QED BY <1>0, <2>1
<1>2. StagesOf(p, progress) = own
  BY <1>0, <1>1, OwnIsAll DEF AInv
<1>3. PICK k \in Nat : Handles(p, own, k)
  BY <1>0, <1>2, ReadKvHandles
<1>4. /\ wrote' = wrote /\ connected' = connected /\ pc[p] = "kv" /\ outcome[p] = "none"
      /\ \A i \in 1..(W - 1) : own[i] \notin TerminalStages
  BY DEF ReadKv, runtime, At, AInv, OneRunGoes, ShownIsRead
<1>5. r <= W /\ \A i \in 1..r : own[i] \notin TerminalStages
  BY <1>4 DEF RelayKeepsUp, Finishing
<1>6. /\ k <= W /\ \A i \in (r + 1)..(k - 1) : own[i] \notin TerminalStages
      /\ milestones' = [milestones EXCEPT ![p] =
                          IF connected[p] THEN @ \o Shown(SubSeq(own, r + 1, k)) ELSE @]
  BY <1>3 DEF Handles
<1>7. \/ /\ k = W /\ relayed'[p] = k /\ (k > r => own[k] \notin TerminalStages)
         /\ pc'[p] \in {"feed", "closed"} /\ outcome'[p] # "done"
      \/ /\ k > r /\ outcome'[p] # "done"
         /\ \/ own[k] \in DoneStages /\ pc'[p] = "ensure"
            \/ pc'[p] = "closed"
  <2>1. /\ \A await \in {"feed", "ensure"} : Continue(p, await) =>
             pc'[p] = await /\ outcome'[p] # "done"
        /\ \A event \in {"abandoned", "AGENT_RUN_FAILED"} : Close(p, event) =>
             pc'[p] = "closed" /\ outcome'[p] # "done"
    BY <1>0, <1>4 DEF Continue, Close, Placed
  <2>2. relayed' = [relayed EXCEPT ![p] = k] => relayed'[p] = k
    BY <1>0 DEF PassesTyped
  <2> QED BY <1>3, <2>1, <2>2 DEF Handles
<1> HIDE DEF own, W, r
<1>8. r <= k
  BY <1>0, <1>5, <1>7
<1>9. pc'[p] = "feed" => relayed'[p] = W /\ k = W /\ \A i \in 1..W : own[i] \notin TerminalStages
  <2> SUFFICES ASSUME pc'[p] = "feed" PROVE relayed'[p] = W /\ k = W /\ \A i \in 1..W : own[i] \notin TerminalStages
    OBVIOUS
  <2>1. k = W /\ relayed'[p] = k /\ (k > r => own[k] \notin TerminalStages)
    BY <1>7
  <2>2. \A i \in 1..W : i \in 1..r \/ i \in (r + 1)..(k - 1) \/ (i = k /\ k > r)
    BY <1>0, <2>1
  <2> QED BY <1>5, <1>6, <2>1, <2>2
<1>10. \E m \in 0..W : /\ milestones'[p] = Shown(SubSeq(own, 1, m))
                       /\ pc'[p] = "feed" /\ connected[p] => m = relayed'[p]
  <2>1. PICK m \in 0..W : /\ milestones[p] = Shown(SubSeq(own, 1, m))
                          /\ connected[p] => m = r
    BY <1>4 DEF RelayKeepsUp, own, W, r, Finishing
  <2>2. CASE ~connected[p]
    <3>1. milestones'[p] = milestones[p]
      BY <1>0, <1>6, <2>2 DEF PassesTyped
    <3> QED BY <2>1, <2>2, <3>1
  <2>3. CASE connected[p]
    <3>1. milestones'[p] = milestones[p] \o Shown(SubSeq(own, r + 1, k))
      BY <1>0, <1>6, <2>3 DEF PassesTyped
    <3>2. /\ SubSeq(own, 1, r) \in Seq(Stages) /\ SubSeq(own, r + 1, k) \in Seq(Stages)
          /\ SubSeq(own, 1, r) \o SubSeq(own, r + 1, k) = SubSeq(own, 1, k)
      BY <1>0, <1>6, <1>8, SplitAt DEF W
    <3>3. milestones'[p] = Shown(SubSeq(own, 1, k))
      <4>1. Shown(SubSeq(own, 1, r) \o SubSeq(own, r + 1, k))
              = Shown(SubSeq(own, 1, r)) \o Shown(SubSeq(own, r + 1, k))
        BY <3>2, ShownConcat
      <4> QED BY <2>1, <2>3, <3>1, <3>2, <4>1
    <3>4. k \in 0..W
      BY <1>0, <1>6
    <3> QED BY <1>9, <3>3, <3>4
  <2> QED BY <2>2, <2>3
<1>11. pc'[p] \in {"feed", "ensure", "closed"}
  BY <1>7
<1>12. RelayKeepsUp(p)'
  <2>1. pc'[p] \notin Finishing \union {"closed"} => pc'[p] = "feed"
    BY <1>11 DEF Finishing
  <2>2. W <= MaxSteps
    BY DEF RelayKeepsUp, W, own
  <2>3. wrote'[p] = own /\ Len(wrote'[p]) = W /\ connected'[p] = connected[p]
    BY <1>4 DEF own, W
  <2>4. pc'[p] = "feed" => relayed'[p] <= W /\ \A i \in 1..relayed'[p] : own[i] \notin TerminalStages
    BY <1>0, <1>9
  <2> QED BY <1>10, <2>1, <2>2, <2>3, <2>4 DEF RelayKeepsUp
<1>13. pc'[p] \in Finishing => ~Recorded(p, {"error"})
  <2> SUFFICES ASSUME pc'[p] \in Finishing, NEW i \in 1..W PROVE own[i] # "error"
    <3>1. DOMAIN wrote[p] = 1..W
      BY <1>0 DEF own, W
    <3> QED BY <3>1 DEF Recorded, own
  <2>1. k > r /\ own[k] \in DoneStages
    BY <1>7 DEF Finishing
  <2>2. own[k] \in TerminalStages /\ own[k] # "error" /\ k \in 1..W
    BY <1>0, <1>6, <2>1 DEF TerminalStages, DoneStages
  <2>3. k = W
    <3>1. k \notin 1..(W - 1)
      BY <1>4, <2>2 DEF W, own
    <3> QED BY <1>0, <2>2, <3>1
  <2>4. i \in 1..(W - 1) \/ i = k
    BY <1>0, <2>3
  <2> QED BY <1>4, <2>2, <2>4 DEF TerminalStages, own, W
<1> QED BY <1>7, <1>9, <1>12, <1>13 DEF own, W

LEMMA AppendKeeps ==
  ASSUME NEW T, NEW s \in Seq(T), NEW e \in T, NEW m \in 0..Len(s)
  PROVE  SubSeq(Append(s, e), 1, m) = SubSeq(s, 1, m)
OBVIOUS

\* Steps that relay nothing leave the pass as far as it was.
LEMMA RelayRests ==
  ASSUME NEW p \in Passes, RelayKeepsUp(p), wrote'[p] = wrote[p],
         relayed'[p] = relayed[p], milestones'[p] = milestones[p], connected'[p] => connected[p],
         pc'[p] \notin Finishing \union {"closed"} => pc[p] \notin Finishing \union {"closed"}
  PROVE  RelayKeepsUp(p)'
BY DEF RelayKeepsUp

LEMMA RelayNext ==
  ASSUME NEW p \in Passes, Alone(p), MaxSteps <= MaxEntries, RelayInv(p), [Next]_vars
  PROVE  RelayKeepsUp(p)'
<1>0. /\ TypeOK /\ PassesTyped /\ OneRunGoes(p) /\ AInv(p) /\ RelayKeepsUp(p)
      /\ wrote[p] \in Seq(Stages) /\ wrote \in [Runs -> Seq(Stages)] /\ p \in Runs
  BY TypedInParts DEF RelayInv, AInv, IInv, RuntimeTyped, Runs
<1>1. CASE ReadKv(p)
  BY <1>0, <1>1, RelayReads
<1>2. CASE Step(p) /\ ~ReadKv(p)
  <2>1. wrote' = wrote
    BY <1>2, NothingRecorded DEF runtime
  <2>2. milestones' = milestones /\ relayed' = relayed /\ connected' = connected
    BY <1>2 DEF Step, stream, Route, Deploy, SnapshotAndInvoke, SnapshotFails, Check, KvReadFails,
       PollNothing, Discover, FetchPage, AppIsUp, AppLooksDown, ResolveUrl, StopApp, StartApp,
       RestartFails, RecordLive, ReadTimeline, Finish
  <2>3. pc'[p] \notin Finishing \union {"closed"} => pc[p] \notin Finishing \union {"closed"}
    BY <1>0, <1>2, Course DEF Finishing, Looping
  <2> QED BY <1>0, <2>1, <2>2, <2>3, RelayRests
<1>3. CASE WriteProgress(p)
  <2>1. UNCHANGED passes /\ Len(wrote[p]) < MaxSteps
    BY <1>3 DEF WriteProgress, Recording
  <2>2. PICK stage \in Stages : wrote' = [wrote EXCEPT ![p] = Append(@, stage)]
    BY <1>3 DEF WriteProgress
  <2>3. wrote'[p] = Append(wrote[p], stage)
    BY <1>0, <2>2
  <2>4. /\ Len(wrote[p]) \in Nat /\ Len(wrote'[p]) = Len(wrote[p]) + 1
        /\ \A i \in 1..Len(wrote[p]) : wrote'[p][i] = wrote[p][i]
        /\ \A m \in 0..Len(wrote[p]) : SubSeq(wrote'[p], 1, m) = SubSeq(wrote[p], 1, m)
    BY <1>0, <2>3, AppendKeeps
  <2>5. UNCHANGED <<pc, milestones, relayed, connected>>
    BY <2>1 DEF passes, stream
  <2>6. Len(wrote'[p]) <= MaxSteps
    <3>1. MaxSteps \in Nat /\ Len(wrote[p]) \in Nat
      BY <2>4, BoundsAreNumbers
    <3> QED BY <2>1, <2>4, <3>1
  <2>7. \E m \in 0..Len(wrote'[p]) :
           /\ milestones'[p] = Shown(SubSeq(wrote'[p], 1, m))
           /\ pc'[p] \notin Finishing \union {"closed"} /\ connected'[p] => m = relayed'[p]
    <3>1. PICK m \in 0..Len(wrote[p]) :
             /\ milestones[p] = Shown(SubSeq(wrote[p], 1, m))
             /\ pc[p] \notin Finishing \union {"closed"} /\ connected[p] => m = relayed[p]
      BY <1>0 DEF RelayKeepsUp
    <3>2. m \in 0..Len(wrote'[p])
      BY <2>4
    <3> QED BY <2>4, <2>5, <3>1, <3>2
  <2>8. pc[p] \notin Finishing \union {"closed"} =>
          /\ relayed[p] <= Len(wrote'[p])
          /\ \A i \in 1..relayed[p] : wrote'[p][i] \notin TerminalStages
    <3> SUFFICES ASSUME pc[p] \notin Finishing \union {"closed"}
                 PROVE  /\ relayed[p] <= Len(wrote'[p])
                        /\ \A i \in 1..relayed[p] : wrote'[p][i] \notin TerminalStages
      OBVIOUS
    <3>1. relayed[p] \in Nat /\ relayed[p] <= Len(wrote[p])
          /\ \A i \in 1..relayed[p] : wrote[p][i] \notin TerminalStages
      BY <1>0, SomethingIsRecorded DEF RelayKeepsUp, PassesTyped
    <3>2. 1..relayed[p] \subseteq 1..Len(wrote[p])
      BY <2>4, <3>1
    <3> QED BY <2>4, <3>1, <3>2
  <2> QED BY <2>5, <2>6, <2>7, <2>8 DEF RelayKeepsUp
<1>4. CASE /\ ~WriteProgress(p)
           /\ Run(p) \/ InvokeFails(p) \/ Disconnect(p) \/ Tick \/ AppCrash \/ DeleteIdea \/ UNCHANGED vars
  <2>1. UNCHANGED <<wrote, pc, relayed, milestones>>
    BY <1>4 DEF InvokeFails, Disconnect, Tick, AppCrash, DeleteIdea, Run, StartRun, ReadProgress,
       Work, EndRun, vars, runtime, passes, stream
  <2>2. connected'[p] => connected[p]
    BY <1>0, <1>4 DEF InvokeFails, Disconnect, Tick, AppCrash, DeleteIdea, Run, StartRun, ReadProgress,
       Work, EndRun, vars, passes, stream, PassesTyped
  <2> QED BY <1>0, <2>1, <2>2, RelayRests
<1> QED BY <1>0, <1>1, <1>2, <1>3, <1>4, OneActs DEF Run

LEMMA RelayInit ==
  ASSUME NEW p \in Passes, Alone(p), Init
  PROVE  RelayKeepsUp(p)
<1>1. p \in Runs /\ p \notin Prior
  BY RunsAreNamedApart DEF Runs
<1>2. wrote[p] = <<>> /\ milestones[p] = <<>> /\ relayed[p] = 0 /\ pc[p] = "route"
  BY <1>1 DEF Init
<1>3. SubSeq(<<>>, 1, 0) = <<>> /\ <<>> \in Seq(Stages) /\ Len(<<>>) = 0
  OBVIOUS
<1>4. Shown(<<>>) = <<>>
  <2>1. Shown(<<>>) \in Seq(Stages) /\ Len(Shown(<<>>)) <= 0
    BY <1>3, ShownFacts
  <2> DEFINE n == Len(Shown(<<>>))
  <2>2. n \in Nat /\ n <= 0
    BY <2>1
  <2> HIDE DEF n
  <2>3. n = 0
    BY <2>2
  <2> QED BY <2>1, <2>3 DEF n
<1>5. MaxSteps \in Nat
  BY BoundsAreNumbers
<1>6. Len(wrote[p]) = 0 /\ SubSeq(wrote[p], 1, 0) = <<>> /\ 0 \in 0..Len(wrote[p])
  BY <1>2, <1>3
<1>7. Shown(SubSeq(wrote[p], 1, 0)) = Shown(<<>>)
  BY <1>6, Zenon
<1>8. \A i \in 1..relayed[p] : FALSE
  BY <1>2
<1>9. milestones[p] = Shown(SubSeq(wrote[p], 1, 0))
  BY <1>2, <1>4, <1>7
<1> QED BY <1>2, <1>5, <1>6, <1>8, <1>9 DEF RelayKeepsUp

THEOREM RelayInvariance ==
  ASSUME NEW p \in Passes, Alone(p), MaxSteps <= MaxEntries
  PROVE  Spec => []RelayInv(p)
<1>1. Init /\ AInv(p) => RelayInv(p)
  BY RelayInit DEF RelayInv
<1>2. RelayInv(p) /\ AInv(p)' /\ [Next]_vars => RelayInv(p)'
  BY RelayNext DEF RelayInv
<1> QED BY <1>1, <1>2, AloneInvariance, PTL DEF Spec

\* While one run records no more than the log holds, the browser of a pass that is
\* alone is shown the run's milestones once each, in the order they were recorded,
\* across failed reads, entries of earlier runs and the trimming of the log.
THEOREM RelayIsFaithfulAlone ==
  ASSUME NEW p \in Passes, Alone(p), MaxSteps <= MaxEntries
  PROVE  Spec => []RelayIsFaithful
<1>1. RelayInv(p) => RelayIsFaithful
  <2> SUFFICES ASSUME RelayInv(p) PROVE IsPrefix(milestones[p], Shown(wrote[p]))
    BY DEF RelayIsFaithful, Alone
  <2> DEFINE own == wrote[p]  W == Len(own)
  <2>1. own \in Seq(Stages) /\ W \in Nat
    BY DEF RelayInv, AInv, IInv, TypeOK, Runs
  <2>2. PICK m \in 0..W : milestones[p] = Shown(SubSeq(own, 1, m))
    BY DEF RelayInv, RelayKeepsUp
  <2> HIDE DEF own
  <2> DEFINE a == SubSeq(own, 1, m)  b == SubSeq(own, m + 1, W)
  <2>3. a \in Seq(Stages) /\ b \in Seq(Stages) /\ a \o b = own
    <3>1. SubSeq(own, 1, W) = own
      BY <2>1
    <3>2. m \in Nat /\ W \in Nat /\ m <= W /\ W <= Len(own)
      BY <2>1
    <3> QED BY <2>1, <3>1, <3>2, SplitAt
  <2> HIDE DEF a, b, W
  <2>4. Shown(own) = Shown(a) \o Shown(b)
    BY <2>3, ShownConcat
  <2>5. Shown(a) \in Seq(Stages) /\ Shown(b) \in Seq(Stages)
    BY <2>3, ShownFacts
  <2> DEFINE s == Shown(a)  t == Shown(b)
  <2>6. s \in Seq(Stages) /\ t \in Seq(Stages) /\ milestones[p] = s /\ Shown(wrote[p]) = s \o t
    BY <2>2, <2>4, <2>5 DEF a, own
  <2> HIDE DEF s, t
  <2>7. IsPrefix(s, s \o t)
    BY <2>6 DEF IsPrefix
  <2> QED BY <2>6, <2>7
<1> QED BY <1>1, RelayInvariance, PTL

LEMMA EndNext ==
  ASSUME NEW p \in Passes, Alone(p), MaxSteps <= MaxEntries, "kv" \notin Incidents,
         EndInv(p), RelayInv(p)', [Next]_vars
  PROVE  EndIsRead(p)'
<1>0. /\ TypeOK /\ PassesTyped /\ Placed /\ OneRunGoes(p) /\ AInv(p) /\ RelayKeepsUp(p) /\ EndIsRead(p)
      /\ FeedIsOwn(p) /\ ShownIsRead(p) /\ p \in Runs /\ wrote[p] \in Seq(Stages)
  BY TypedInParts DEF EndInv, RelayInv, AInv, IInv, RuntimeTyped, Runs
<1>1. Step(p) => wrote' = wrote
  BY NothingRecorded DEF runtime
<1>2. CASE ReadKv(p)
  <2>1. /\ pc'[p] = "feed" => \A i \in 1..Len(wrote[p]) : wrote[p][i] \notin TerminalStages
        /\ pc'[p] \in Finishing => ~Recorded(p, {"error"})
        /\ outcome'[p] # "done"
    BY <1>0, <1>2, RelayReads
  <2>2. pc'[p] = "feed" => ~Recorded(p, {"error"})
    <3>1. DOMAIN wrote[p] = 1..Len(wrote[p])
      BY <1>0
    <3> QED BY <2>1, <3>1 DEF Recorded, TerminalStages
  <2>3. pc'[p] # "page"
    <3>1. PICK k \in Nat : Handles(p, StagesOf(p, progress), k)
      BY <1>0, <1>2, ReadKvHandles
    <3> QED BY <1>0, <3>1 DEF Handles, Continue, Close, Placed
  <2> QED BY <1>1, <1>2, <2>1, <2>2, <2>3 DEF EndIsRead, Recorded, Step
<1>3. CASE PollNothing(p)
  <2>1. feedDone[p] \in BOOLEAN /\ AfterPoll(p, feedDone[p])
    BY <1>0, <1>3 DEF PassesTyped, PollNothing
  <2>2. /\ outcome' = outcome /\ pc'[p] \in {"check", "ensure"}
        /\ pc'[p] = "ensure" => feedDoneAt[p] # None
    BY <1>0, <2>1, AfterPollFacts
  <2>3. pc[p] \in {"feed", "page"}
    BY <1>3 DEF PollNothing, At
  <2> QED BY <1>0, <1>1, <1>3, <2>2, <2>3 DEF EndIsRead, Recorded, Step, Finishing
<1>4. CASE FetchPage(p)
  <2>1. FetchedPage(p, bound[p]) /\ pc[p] \in {"feed", "page"}
    BY <1>0, <1>4, FetchPageFetches DEF FetchPage, At
  <2>2. CASE AfterPoll(p, state[bound[p]] = "ended")
    <3>1. (state[bound[p]] = "ended") \in BOOLEAN
      OBVIOUS
    <3>2. /\ outcome' = outcome /\ pc'[p] \in {"check", "ensure"}
          /\ pc'[p] = "ensure" => feedDoneAt[p] # None
      BY <1>0, <2>2, <3>1, AfterPollFacts
    <3> QED BY <1>0, <1>1, <1>4, <2>1, <3>2 DEF EndIsRead, Recorded, Step, Finishing
  <2>3. CASE Close(p, "abandoned")
    <3>1. pc'[p] = "closed" /\ outcome'[p] # "done"
      BY <1>0, <2>3, ClosePlaced, AwaitNames
    <3> QED BY <3>1 DEF EndIsRead, Finishing
  <2> QED BY <2>1, <2>2, <2>3 DEF FetchedPage
<1>5. CASE Discover(p)
  <2>1. feedDoneAt' = feedDoneAt /\ pc[p] = "feed" /\ outcome' = outcome /\ pc'[p] = "page"
    BY <1>0, <1>5, ContinuePlaced, AwaitNames DEF Discover, At
  <2> QED BY <1>0, <1>1, <1>5, <2>1 DEF EndIsRead, Recorded, Step, Finishing
<1>6. CASE Check(p)
  <2>1. outcome[p] # "done" /\ pc[p] \notin Finishing
    BY <1>0, <1>6 DEF Check, At, ShownIsRead, Finishing
  <2>2. outcome'[p] # "done"
    BY <1>0, <1>6, <2>1, OnlyFinishIsDone DEF Step
  <2>3. pc'[p] \in {"kv", "closed"}
    BY <1>0, <1>6 DEF Check, Continue, Close, Placed
  <2> QED BY <2>2, <2>3 DEF EndIsRead, Finishing
<1>7. CASE Step(p) /\ pc[p] \in Finishing
  <2>1. pc'[p] \notin {"feed", "page"} /\ ~Recorded(p, {"error"})
    BY <1>0, <1>7, Course DEF EndIsRead, Finishing, Looping
  <2> QED BY <1>1, <1>7, <2>1 DEF EndIsRead, Recorded
<1>8. CASE Step(p) /\ pc[p] \notin Finishing \union Looping
  <2>1. outcome[p] # "done" /\ pc'[p] \notin Finishing \union {"feed", "page"}
    BY <1>0, <1>8, Course DEF ShownIsRead, Finishing, Looping
  <2>2. outcome'[p] # "done"
    BY <1>0, <1>8, <2>1, OnlyFinishIsDone
  <2> QED BY <2>1, <2>2 DEF EndIsRead
<1>9. CASE Step(p)
  <2>1. ~KvReadFails(p)
    BY DEF KvReadFails
  <2> QED BY <1>2, <1>3, <1>4, <1>5, <1>6, <1>7, <1>8, <1>9, <2>1, InTheLoop
<1>10. CASE Run(p) \/ InvokeFails(p) \/ Disconnect(p) \/ Tick \/ AppCrash \/ DeleteIdea \/ UNCHANGED vars
  <2>1. UNCHANGED <<pc, outcome, feedDoneAt>>
    BY <1>10 DEF InvokeFails, Disconnect, Tick, AppCrash, DeleteIdea, Run, StartRun, ReadProgress,
       WriteProgress, Work, EndRun, vars, passes, poller
  <2>2. CASE WriteProgress(p)
    <3>1. pc[p] \notin Finishing /\ outcome[p] # "done"
      BY <1>0, <2>2, RunIsOver DEF WriteProgress
    <3>2. feedDoneAt[p] = None
      BY <1>0, <2>2 DEF FeedIsOwn, WriteProgress, Recording
    <3> QED BY <2>1, <3>1, <3>2 DEF EndIsRead
  <2>3. CASE ~WriteProgress(p)
    <3>1. wrote' = wrote
      BY <1>10, <2>3 DEF InvokeFails, Disconnect, Tick, AppCrash, DeleteIdea, Run, StartRun,
         ReadProgress, Work, EndRun, vars, runtime
    <3> QED BY <1>0, <2>1, <3>1 DEF EndIsRead, Recorded
  <2> QED BY <2>2, <2>3
<1> QED BY <1>0, <1>9, <1>10, OneActs

\* While the log can be read and holds all that one run records, a pass that is
\* alone does not end with done when its run recorded an error, though the feed
\* may be seen to end before the entry is read.
THEOREM FailureSurfacesAlone ==
  ASSUME NEW p \in Passes, Alone(p), MaxSteps <= MaxEntries, "kv" \notin Incidents
  PROVE  Spec => []FailureSurfaces
<1>1. Init /\ RelayInv(p) => EndInv(p)
  BY DEF EndInv, EndIsRead, Init, Finishing
<1>2. EndInv(p) /\ RelayInv(p)' /\ [Next]_vars => EndInv(p)'
  BY EndNext DEF EndInv
<1>3. EndInv(p) => FailureSurfaces
  BY DEF EndInv, EndIsRead, FailureSurfaces, Alone
<1> QED BY <1>1, <1>2, <1>3, RelayInvariance, PTL DEF Spec
=============================================================================
