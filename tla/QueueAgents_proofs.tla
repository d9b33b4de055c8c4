-------------------------- MODULE QueueAgents_proofs --------------------------
(***************************************************************************)
(* The reports over queue_agent_events, for any log that is sorted by its  *)
(* timestamps: no session has a longer pause than itself, and the five     *)
(* readers of rcm_queue_db.py agree as far as ReportsAgree says.  And every *)
(* call, request and import leaves the log sorted, so both hold in every   *)
(* state, whatever the agents, requests, days and failures.                *)
(*                                                                         *)
(* A reader is a fold over the events.  Each fold is given the values it   *)
(* passes through (Run), and the folds are compared event by event.        *)
(***************************************************************************)
EXTENDS QueueAgents, WellFoundedInduction, TLAPS

-----------------------------------------------------------------------------
(* Natural numbers.                                                        *)

(* A set of numbers has a least one.                                       *)
LEMMA SmallestOf ==
  ASSUME NEW T \in SUBSET Nat, T # {}
  PROVE  \E n \in T : \A m \in T : n <= m
<1>1. PICK n \in T : \A m \in T : ~ (<<m, n>> \in OpToRel(<, Nat))
  BY WFMin, NatLessThanWellFounded
<1>2. \A m \in T : ~(m < n)
  BY <1>1 DEF OpToRel
<1>3. QED
  BY <1>2

(* Induction over a set of numbers.                                        *)
LEMMA Induction ==
  ASSUME NEW T \in SUBSET Nat, 0 \in T, \A n \in T : n + 1 \in T
  PROVE  T = Nat
<1> DEFINE U == Nat \ T
<1>1. SUFFICES ASSUME U # {} PROVE FALSE
  OBVIOUS
<1>2. PICK n \in U : \A m \in U : n <= m
  <2> HIDE DEF U
  <2>1. U \subseteq Nat
    BY DEF U
  <2>2. QED
    BY <1>1, <2>1, SmallestOf
<1>3. n # 0 /\ n - 1 \in T
  BY <1>2
<1>4. QED
  BY <1>2, <1>3

-----------------------------------------------------------------------------
(* The reports are folds, of several functions; what they have in common   *)
(* is stated of the one that what names.                                   *)
Step(what, x, acc, e) ==
  CASE what = "sessions" -> SessionStep(acc, e)
    [] what = "all"      -> AllStep(acc, e)
    [] what = "totals"   -> AnalyticsStep(acc, e)
    [] what = "pauses"   -> PauseStep(acc, e, x)
    [] what = "within"   -> Picked(acc, e, x)
    [] what = "clipped"  -> Clipped(acc, e, x.w, x.now)
    [] what = "online"   -> acc + e.online
    [] what = "paused"   -> acc + e.paused
    [] what = "length"   -> acc + Span(e.from, e.to)
    [] what = "import"   -> ImportLine(acc, e)

Folded(what, x, s, start, n, g) ==
  g = [t \in SUBSET (1 .. n) |->
         IF t = {} THEN start ELSE Step(what, x, g[t \ {Max(t)}], s[Max(t)])]

(* The last index of a prefix.                                             *)
LEMMA MaxIs ==
  ASSUME NEW n \in Nat, NEW t \in SUBSET (1 .. n), n \in t
  PROVE  Max(t) = n
<1>1. \A y \in t : n >= y
  OBVIOUS
<1>2. \A x \in t : (\A y \in t : x >= y) => x = n
  OBVIOUS
<1>3. QED
  BY <1>1, <1>2 DEF Max

(* The function a fold chooses exists.                                     *)
LEMMA FoldExists ==
  ASSUME NEW what, NEW x, NEW s, NEW start
  PROVE  \A n \in Nat : \E g : Folded(what, x, s, start, n, g)
<1> DEFINE T == {n \in Nat : \E g : Folded(what, x, s, start, n, g)}
<1>1. 0 \in T
  <2> DEFINE g == [t \in SUBSET (1 .. 0) |-> start]
  <2>1. \A t \in SUBSET (1 .. 0) : t = {}
    OBVIOUS
  <2>2. Folded(what, x, s, start, 0, g)
    BY <2>1 DEF Folded
  <2>3. QED
    BY <2>2
<1>2. ASSUME NEW n \in T PROVE n + 1 \in T
  <2>1. PICK g : Folded(what, x, s, start, n, g)
    OBVIOUS
  <2> DEFINE h == [t \in SUBSET (1 .. n + 1) |->
                     IF n + 1 \in t THEN Step(what, x, g[t \ {n + 1}], s[n + 1]) ELSE g[t]]
             Val(t) == IF t = {} THEN start ELSE Step(what, x, h[t \ {Max(t)}], s[Max(t)])
  <2>2. \A t \in SUBSET (1 .. n + 1) : n + 1 \notin t => t \in SUBSET (1 .. n)
    OBVIOUS
  <2>3. \A t \in SUBSET (1 .. n + 1) : t \ {n + 1} \in SUBSET (1 .. n)
    OBVIOUS
  <2>4. \A t \in SUBSET (1 .. n) : t \in SUBSET (1 .. n + 1) /\ n + 1 \notin t
    OBVIOUS
  <2>5. \A t \in SUBSET (1 .. n) : h[t] = g[t]
    BY <2>4
  <2>6. \A t \in SUBSET (1 .. n + 1) : n + 1 \in t => h[t] = Step(what, x, g[t \ {n + 1}], s[n + 1])
    OBVIOUS
  <2>7. \A t \in SUBSET (1 .. n) :
          g[t] = IF t = {} THEN start ELSE Step(what, x, g[t \ {Max(t)}], s[Max(t)])
    BY <2>1 DEF Folded
  <2>8. h = [t \in SUBSET (1 .. n + 1) |-> h[t]]
    OBVIOUS
  <2> HIDE DEF h
  <2>9. ASSUME NEW t \in SUBSET (1 .. n + 1) PROVE h[t] = Val(t)
    <3>1. CASE n + 1 \in t
      <4>1. Max(t) = n + 1 /\ t # {}
        BY <3>1, MaxIs
      <4>2. h[t \ {n + 1}] = g[t \ {n + 1}]
        BY <2>3, <2>5
      <4>3. QED
        BY <2>6, <3>1, <4>1, <4>2
    <3>2. CASE n + 1 \notin t
      <4>1. t \in SUBSET (1 .. n) /\ t \ {Max(t)} \in SUBSET (1 .. n)
        BY <2>2, <3>2
      <4>2. h[t] = g[t] /\ h[t \ {Max(t)}] = g[t \ {Max(t)}]
        BY <2>5, <4>1
      <4>3. QED
        BY <2>7, <4>1, <4>2
    <3>3. QED
      BY <3>1, <3>2
  <2>10. h = [t \in SUBSET (1 .. n + 1) |-> Val(t)]
    <3> HIDE DEF Val
    <3>1. QED
      BY <2>8, <2>9
  <2>11. Folded(what, x, s, start, n + 1, h)
    BY <2>10 DEF Folded
  <2>12. QED
    BY <2>11
<1> HIDE DEF T
<1>3. T \in SUBSET Nat
  BY DEF T
<1>4. T = Nat
  BY <1>1, <1>2, <1>3, Induction
<1>5. QED
  BY <1>4 DEF T

Run(a, what, x, s, start, n, r) ==
  /\ a[0] = start
  /\ a[n] = r
  /\ \A k \in 0 .. n - 1 : a[k + 1] = Step(what, x, a[k], s[k + 1])

(* A fold passes through a value per element, each one step from the last. *)
LEMMA StepsOf ==
  ASSUME NEW what, NEW x, NEW s, NEW start, NEW n \in Nat, NEW g,
         Folded(what, x, s, start, n, g)
  PROVE  \E a : Run(a, what, x, s, start, n, g[1 .. n])
<1> DEFINE a == [k \in 0 .. n |-> g[1 .. k]]
<1>0. n \in 0 .. n /\ 0 \in 0 .. n
  OBVIOUS
<1>3. a[n] = g[1 .. n]
  BY <1>0
<1>4. \A t \in SUBSET (1 .. n) :
        g[t] = IF t = {} THEN start ELSE Step(what, x, g[t \ {Max(t)}], s[Max(t)])
  BY DEF Folded
<1>5. a[0] = start
  <2>1. 1 .. 0 = {} /\ {} \in SUBSET (1 .. n)
    OBVIOUS
  <2>2. g[{}] = start
    BY <1>4, <2>1
  <2>3. a[0] = g[1 .. 0]
    BY <1>0
  <2>4. QED
    BY <2>1, <2>2, <2>3
<1>6. ASSUME NEW k \in 0 .. n - 1 PROVE a[k + 1] = Step(what, x, a[k], s[k + 1])
  <2>1. /\ 1 .. k + 1 \in SUBSET (1 .. n) /\ k + 1 \in 1 .. k + 1 /\ k + 1 \in Nat
        /\ 1 .. k + 1 \in SUBSET (1 .. k + 1)
    OBVIOUS
  <2>2. Max(1 .. k + 1) = k + 1
    BY <2>1, MaxIs
  <2>3. (1 .. k + 1) \ {k + 1} = 1 .. k
    OBVIOUS
  <2>4. g[1 .. k + 1] = Step(what, x, g[1 .. k], s[k + 1])
    BY <1>4, <2>1, <2>2, <2>3
  <2>5. QED
    BY <2>4
<1> HIDE DEF a
<1>7. QED
  BY <1>3, <1>5, <1>6 DEF Run

PauseFold(ends, start, s) == FoldLeft(LAMBDA acc, e : PauseStep(acc, e, ends), start, s)
WithinFold(w, start, s) == FoldLeft(LAMBDA kept, e : Picked(kept, e, w), start, s)
ClippedFold(w, now, start, s) ==
  FoldLeft(LAMBDA clipped, e : Clipped(clipped, e, w, now), start, s)
SumOnline(s) == FoldLeft(LAMBDA total, e : total + e.online, 0, s)
SumPaused(s) == FoldLeft(LAMBDA total, e : total + e.paused, 0, s)
SumLength(s) == FoldLeft(LAMBDA total, e : total + Span(e.from, e.to), 0, s)

(* So do the nine folds of the reports and the import.                     *)
LEMMA SessionSteps ==
  ASSUME NEW s, NEW start, NEW n \in Nat, DOMAIN s = 1 .. n
  PROVE  \E a : Run(a, "sessions", 0, s, start, n, FoldLeft(SessionStep, start, s))
<1> DEFINE F(g) == g = [t \in SUBSET (1 .. n) |->
                         IF t = {} THEN start
                         ELSE SessionStep(g[t \ {Max(t)}], s[Max(t)])]
           G == CHOOSE g : F(g)
<1>1. \A acc, e : Step("sessions", 0, acc, e) = SessionStep(acc, e)
  BY DEF Step
<1>2. FoldLeft(SessionStep, start, s) = G[1 .. n]
  BY DEF FoldLeft, MapThenFoldSet
<1>3. \A g : F(g) <=> Folded("sessions", 0, s, start, n, g)
  BY <1>1 DEF Folded
<1> HIDE DEF F
<1>4. Folded("sessions", 0, s, start, n, G)
  BY <1>3, FoldExists
<1> HIDE DEF G
<1>5. QED
  BY <1>2, <1>4, StepsOf

LEMMA AllSteps ==
  ASSUME NEW s, NEW start, NEW n \in Nat, DOMAIN s = 1 .. n
  PROVE  \E a : Run(a, "all", 0, s, start, n, FoldLeft(AllStep, start, s))
<1> DEFINE F(g) == g = [t \in SUBSET (1 .. n) |->
                         IF t = {} THEN start
                         ELSE AllStep(g[t \ {Max(t)}], s[Max(t)])]
           G == CHOOSE g : F(g)
<1>1. \A acc, e : Step("all", 0, acc, e) = AllStep(acc, e)
  BY DEF Step
<1>2. FoldLeft(AllStep, start, s) = G[1 .. n]
  BY DEF FoldLeft, MapThenFoldSet
<1>3. \A g : F(g) <=> Folded("all", 0, s, start, n, g)
  BY <1>1 DEF Folded
<1> HIDE DEF F
<1>4. Folded("all", 0, s, start, n, G)
  BY <1>3, FoldExists
<1> HIDE DEF G
<1>5. QED
  BY <1>2, <1>4, StepsOf

LEMMA TotalSteps ==
  ASSUME NEW s, NEW start, NEW n \in Nat, DOMAIN s = 1 .. n
  PROVE  \E a : Run(a, "totals", 0, s, start, n, FoldLeft(AnalyticsStep, start, s))
<1> DEFINE F(g) == g = [t \in SUBSET (1 .. n) |->
                         IF t = {} THEN start
                         ELSE AnalyticsStep(g[t \ {Max(t)}], s[Max(t)])]
           G == CHOOSE g : F(g)
<1>1. \A acc, e : Step("totals", 0, acc, e) = AnalyticsStep(acc, e)
  BY DEF Step
<1>2. FoldLeft(AnalyticsStep, start, s) = G[1 .. n]
  BY DEF FoldLeft, MapThenFoldSet
<1>3. \A g : F(g) <=> Folded("totals", 0, s, start, n, g)
  BY <1>1 DEF Folded
<1> HIDE DEF F
<1>4. Folded("totals", 0, s, start, n, G)
  BY <1>3, FoldExists
<1> HIDE DEF G
<1>5. QED
  BY <1>2, <1>4, StepsOf

LEMMA PauseSteps ==
  ASSUME NEW ends, NEW s, NEW start, NEW n \in Nat, DOMAIN s = 1 .. n
  PROVE  \E a : Run(a, "pauses", ends, s, start, n, PauseFold(ends, start, s))
<1> DEFINE F(g) == g = [t \in SUBSET (1 .. n) |->
                         IF t = {} THEN start
                         ELSE PauseStep(g[t \ {Max(t)}], s[Max(t)], ends)]
           G == CHOOSE g : F(g)
<1>1. \A acc, e : Step("pauses", ends, acc, e) = PauseStep(acc, e, ends)
  BY DEF Step
<1>2. PauseFold(ends, start, s) = G[1 .. n]
  BY DEF PauseFold, FoldLeft, MapThenFoldSet
<1>3. \A g : F(g) <=> Folded("pauses", ends, s, start, n, g)
  BY <1>1 DEF Folded
<1> HIDE DEF F
<1>4. Folded("pauses", ends, s, start, n, G)
  BY <1>3, FoldExists
<1> HIDE DEF G
<1>5. QED
  BY <1>2, <1>4, StepsOf

LEMMA WithinSteps ==
  ASSUME NEW w, NEW s, NEW start, NEW n \in Nat, DOMAIN s = 1 .. n
  PROVE  \E a : Run(a, "within", w, s, start, n, WithinFold(w, start, s))
<1> DEFINE F(g) == g = [t \in SUBSET (1 .. n) |->
                         IF t = {} THEN start
                         ELSE Picked(g[t \ {Max(t)}], s[Max(t)], w)]
           G == CHOOSE g : F(g)
<1>1. \A acc, e : Step("within", w, acc, e) = Picked(acc, e, w)
  BY DEF Step
<1>2. WithinFold(w, start, s) = G[1 .. n]
  BY DEF WithinFold, FoldLeft, MapThenFoldSet
<1>3. \A g : F(g) <=> Folded("within", w, s, start, n, g)
  BY <1>1 DEF Folded
<1> HIDE DEF F
<1>4. Folded("within", w, s, start, n, G)
  BY <1>3, FoldExists
<1> HIDE DEF G
<1>5. QED
  BY <1>2, <1>4, StepsOf

LEMMA ClippedSteps ==
  ASSUME NEW w, NEW now, NEW s, NEW start, NEW n \in Nat, DOMAIN s = 1 .. n
  PROVE  \E a : Run(a, "clipped", [w |-> w, now |-> now], s, start, n, ClippedFold(w, now, start, s))
<1> DEFINE F(g) == g = [t \in SUBSET (1 .. n) |->
                         IF t = {} THEN start
                         ELSE Clipped(g[t \ {Max(t)}], s[Max(t)], w, now)]
           G == CHOOSE g : F(g)
<1>1. \A acc, e : Step("clipped", [w |-> w, now |-> now], acc, e) = Clipped(acc, e, w, now)
  BY DEF Step
<1>2. ClippedFold(w, now, start, s) = G[1 .. n]
  BY DEF ClippedFold, FoldLeft, MapThenFoldSet
<1>3. \A g : F(g) <=> Folded("clipped", [w |-> w, now |-> now], s, start, n, g)
  BY <1>1 DEF Folded
<1> HIDE DEF F
<1>4. Folded("clipped", [w |-> w, now |-> now], s, start, n, G)
  BY <1>3, FoldExists
<1> HIDE DEF G
<1>5. QED
  BY <1>2, <1>4, StepsOf

LEMMA OnlineSteps ==
  ASSUME NEW s, NEW n \in Nat, DOMAIN s = 1 .. n
  PROVE  \E a : Run(a, "online", 0, s, 0, n, SumOnline(s))
<1> DEFINE F(g) == g = [t \in SUBSET (1 .. n) |->
                         IF t = {} THEN 0
                         ELSE g[t \ {Max(t)}] + s[Max(t)].online]
           G == CHOOSE g : F(g)
<1>1. \A acc, e : Step("online", 0, acc, e) = acc + e.online
  BY DEF Step
<1>2. SumOnline(s) = G[1 .. n]
  BY DEF SumOnline, FoldLeft, MapThenFoldSet
<1>3. \A g : F(g) <=> Folded("online", 0, s, 0, n, g)
  BY <1>1, ZenonT(30) DEF Folded
<1> HIDE DEF F
<1>4. Folded("online", 0, s, 0, n, G)
  BY <1>3, FoldExists
<1> HIDE DEF G
<1>5. QED
  BY <1>2, <1>4, StepsOf

LEMMA PausedSteps ==
  ASSUME NEW s, NEW n \in Nat, DOMAIN s = 1 .. n
  PROVE  \E a : Run(a, "paused", 0, s, 0, n, SumPaused(s))
<1> DEFINE F(g) == g = [t \in SUBSET (1 .. n) |->
                         IF t = {} THEN 0
                         ELSE g[t \ {Max(t)}] + s[Max(t)].paused]
           G == CHOOSE g : F(g)
<1>1. \A acc, e : Step("paused", 0, acc, e) = acc + e.paused
  BY DEF Step
<1>2. SumPaused(s) = G[1 .. n]
  BY DEF SumPaused, FoldLeft, MapThenFoldSet
<1>3. \A g : F(g) <=> Folded("paused", 0, s, 0, n, g)
  BY <1>1, ZenonT(30) DEF Folded
<1> HIDE DEF F
<1>4. Folded("paused", 0, s, 0, n, G)
  BY <1>3, FoldExists
<1> HIDE DEF G
<1>5. QED
  BY <1>2, <1>4, StepsOf

LEMMA LengthSteps ==
  ASSUME NEW s, NEW n \in Nat, DOMAIN s = 1 .. n
  PROVE  \E a : Run(a, "length", 0, s, 0, n, SumLength(s))
<1> DEFINE F(g) == g = [t \in SUBSET (1 .. n) |->
                         IF t = {} THEN 0
                         ELSE g[t \ {Max(t)}] + Span(s[Max(t)].from, s[Max(t)].to)]
           G == CHOOSE g : F(g)
<1>1. \A acc, e : Step("length", 0, acc, e) = acc + Span(e.from, e.to)
  BY DEF Step
<1>2. SumLength(s) = G[1 .. n]
  BY DEF SumLength, FoldLeft, MapThenFoldSet
<1>3. \A g : F(g) <=> Folded("length", 0, s, 0, n, g)
  BY <1>1, ZenonT(30) DEF Folded
<1> HIDE DEF F
<1>4. Folded("length", 0, s, 0, n, G)
  BY <1>3, FoldExists
<1> HIDE DEF G
<1>5. QED
  BY <1>2, <1>4, StepsOf

LEMMA ImportSteps ==
  ASSUME NEW s, NEW start, NEW n \in Nat, DOMAIN s = 1 .. n
  PROVE  \E a : Run(a, "import", 0, s, start, n, FoldLeft(ImportLine, start, s))
<1> DEFINE F(g) == g = [t \in SUBSET (1 .. n) |->
                         IF t = {} THEN start
                         ELSE ImportLine(g[t \ {Max(t)}], s[Max(t)])]
           G == CHOOSE g : F(g)
<1>1. \A acc, e : Step("import", 0, acc, e) = ImportLine(acc, e)
  BY DEF Step
<1>2. FoldLeft(ImportLine, start, s) = G[1 .. n]
  BY DEF FoldLeft, MapThenFoldSet
<1>3. \A g : F(g) <=> Folded("import", 0, s, start, n, g)
  BY <1>1 DEF Folded
<1> HIDE DEF F
<1>4. Folded("import", 0, s, start, n, G)
  BY <1>3, FoldExists
<1> HIDE DEF G
<1>5. QED
  BY <1>2, <1>4, StepsOf

-----------------------------------------------------------------------------
(* Logs, and sums over rows.                                               *)

(* Events as the log has them.                                             *)
Logged_ == [kind : EventKinds, at : Nat \ {0}]

Sorted(s) == \A i, j \in DOMAIN s : i <= j => s[i].at <= s[j].at

(* The events of an agent, none of them later than now.                    *)
Good(s, now) ==
  s \in Seq(Logged_) /\ Sorted(s) /\ \A i \in DOMAIN s : s[i].at <= now

-----------------------------------------------------------------------------
(* Sums.                                                                   *)
LEMMA Agree ==
  ASSUME NEW what, NEW x, NEW s, NEW t, NEW start, NEW a, NEW b, NEW r, NEW q,
         NEW n \in Nat, NEW m \in Nat, n <= m, \A i \in 1 .. n : s[i] = t[i],
         Run(a, what, x, s, start, n, r), Run(b, what, x, t, start, m, q)
  PROVE  b[n] = r
<1> DEFINE T == {k \in Nat : k <= n => a[k] = b[k]}
<1>1. 0 \in T
  BY DEF Run
<1>2. ASSUME NEW k \in T PROVE k + 1 \in T
  <2>1. SUFFICES ASSUME k + 1 <= n PROVE a[k + 1] = b[k + 1]
    OBVIOUS
  <2>2. k \in 0 .. n - 1 /\ k \in 0 .. m - 1 /\ k + 1 \in 1 .. n /\ a[k] = b[k]
    BY <2>1
  <2>3. QED
    BY <2>2 DEF Run
<1> HIDE DEF T
<1>3. T = Nat
  <2>1. T \in SUBSET Nat
    BY DEF T
  <2>2. QED
    BY <1>1, <1>2, <2>1, Induction
<1>4. a[n] = b[n]
  BY <1>3 DEF T
<1>5. QED
  BY <1>4 DEF Run

(* What one more row adds to a sum.                                        *)
LEMMA OnlineAppend ==
  ASSUME NEW S, NEW s \in Seq(S), NEW r \in S
  PROVE  SumOnline(<<>>) = 0 /\ SumOnline(Append(s, r)) = SumOnline(s) + r.online
<1> DEFINE n == Len(s)
           u == Append(s, r)
<1>1. /\ n \in Nat /\ n + 1 \in Nat /\ DOMAIN s = 1 .. n /\ DOMAIN u = 1 .. n + 1
      /\ \A i \in 1 .. n : s[i] = u[i]
      /\ u[n + 1] = r
  OBVIOUS
<1> HIDE DEF n, u
<1>2. PICK a : Run(a, "online", 0, s, 0, n, SumOnline(s))
  BY <1>1, OnlineSteps
<1>3. PICK b : Run(b, "online", 0, u, 0, n + 1, SumOnline(u))
  BY <1>1, OnlineSteps
<1>4. b[n] = SumOnline(s)
  BY <1>1, <1>2, <1>3, Agree
<1>5. SumOnline(u) = SumOnline(s) + r.online
  <2>1. n \in 0 .. (n + 1) - 1
    BY <1>1
  <2>2. b[n + 1] = Step("online", 0, b[n], r)
    BY <1>1, <1>3, <2>1 DEF Run
  <2>3. QED
    BY <1>3, <1>4, <2>2 DEF Run, Step
<1>6. SumOnline(<<>>) = 0
  <2>1. 0 \in Nat /\ DOMAIN <<>> = 1 .. 0
    OBVIOUS
  <2>2. PICK c : Run(c, "online", 0, <<>>, 0, 0, SumOnline(<<>>))
    BY <2>1, OnlineSteps
  <2>3. QED
    BY <2>2 DEF Run
<1>7. QED
  BY <1>5, <1>6 DEF u

LEMMA PausedAppend ==
  ASSUME NEW S, NEW s \in Seq(S), NEW r \in S
  PROVE  SumPaused(<<>>) = 0 /\ SumPaused(Append(s, r)) = SumPaused(s) + r.paused
<1> DEFINE n == Len(s)
           u == Append(s, r)
<1>1. /\ n \in Nat /\ n + 1 \in Nat /\ DOMAIN s = 1 .. n /\ DOMAIN u = 1 .. n + 1
      /\ \A i \in 1 .. n : s[i] = u[i]
      /\ u[n + 1] = r
  OBVIOUS
<1> HIDE DEF n, u
<1>2. PICK a : Run(a, "paused", 0, s, 0, n, SumPaused(s))
  BY <1>1, PausedSteps
<1>3. PICK b : Run(b, "paused", 0, u, 0, n + 1, SumPaused(u))
  BY <1>1, PausedSteps
<1>4. b[n] = SumPaused(s)
  BY <1>1, <1>2, <1>3, Agree
<1>5. SumPaused(u) = SumPaused(s) + r.paused
  <2>1. n \in 0 .. (n + 1) - 1
    BY <1>1
  <2>2. b[n + 1] = Step("paused", 0, b[n], r)
    BY <1>1, <1>3, <2>1 DEF Run
  <2>3. QED
    BY <1>3, <1>4, <2>2 DEF Run, Step
<1>6. SumPaused(<<>>) = 0
  <2>1. 0 \in Nat /\ DOMAIN <<>> = 1 .. 0
    OBVIOUS
  <2>2. PICK c : Run(c, "paused", 0, <<>>, 0, 0, SumPaused(<<>>))
    BY <2>1, PausedSteps
  <2>3. QED
    BY <2>2 DEF Run
<1>7. QED
  BY <1>5, <1>6 DEF u

LEMMA LengthAppend ==
  ASSUME NEW S, NEW s \in Seq(S), NEW r \in S
  PROVE  SumLength(<<>>) = 0 /\ SumLength(Append(s, r)) = SumLength(s) + Span(r.from, r.to)
<1> DEFINE n == Len(s)
           u == Append(s, r)
<1>1. /\ n \in Nat /\ n + 1 \in Nat /\ DOMAIN s = 1 .. n /\ DOMAIN u = 1 .. n + 1
      /\ \A i \in 1 .. n : s[i] = u[i]
      /\ u[n + 1] = r
  OBVIOUS
<1> HIDE DEF n, u
<1>2. PICK a : Run(a, "length", 0, s, 0, n, SumLength(s))
  BY <1>1, LengthSteps
<1>3. PICK b : Run(b, "length", 0, u, 0, n + 1, SumLength(u))
  BY <1>1, LengthSteps
<1>4. b[n] = SumLength(s)
  BY <1>1, <1>2, <1>3, Agree
<1>5. SumLength(u) = SumLength(s) + Span(r.from, r.to)
  <2>1. n \in 0 .. (n + 1) - 1
    BY <1>1
  <2>2. b[n + 1] = Step("length", 0, b[n], r)
    BY <1>1, <1>3, <2>1 DEF Run
  <2>3. QED
    BY <1>3, <1>4, <2>2 DEF Run, Step
<1>6. SumLength(<<>>) = 0
  <2>1. 0 \in Nat /\ DOMAIN <<>> = 1 .. 0
    OBVIOUS
  <2>2. PICK c : Run(c, "length", 0, <<>>, 0, 0, SumLength(<<>>))
    BY <2>1, LengthSteps
  <2>3. QED
    BY <2>2 DEF Run
<1>7. QED
  BY <1>5, <1>6 DEF u

-----------------------------------------------------------------------------
(* The sessions of a queue.                                                *)

Closed_ == [in : Nat, out : Nat, paused : Nat]
SessionAcc == [done : Seq(Closed_), in : Nat, since : Nat, paused : Nat]

(* So far, and at the time now, no session has a longer pause than itself. *)
SessionsFit(acc, now) ==
  /\ acc \in SessionAcc
  /\ \A i \in DOMAIN acc.done : acc.done[i].in + acc.done[i].paused <= acc.done[i].out
  /\ acc.in = 0 => acc.since = 0
  /\ acc.in <= now
  /\ acc.since # 0 => acc.since <= now /\ acc.in + acc.paused <= acc.since
  /\ acc.in # 0 /\ acc.since = 0 => acc.in + acc.paused <= now

(* Time passes.                                                            *)
LEMMA FitsLater ==
  ASSUME NEW acc, NEW now \in Nat, NEW later \in Nat, now <= later, SessionsFit(acc, now)
  PROVE  SessionsFit(acc, later)
BY DEF SessionsFit, SessionAcc

(* A session that ends fits its pauses.                                    *)
LEMMA ClosedFits ==
  ASSUME NEW acc, NEW now \in Nat, SessionsFit(acc, now), acc.in # 0,
         NEW p \in Nat, acc.in + p <= now
  PROVE  LET d == Append(acc.done, [in |-> acc.in, out |-> now, paused |-> p])
         IN  /\ d \in Seq(Closed_)
             /\ \A i \in DOMAIN d : d[i].in + d[i].paused <= d[i].out
<1> DEFINE r == [in |-> acc.in, out |-> now, paused |-> p]
           s == acc.done
<1>1. s \in Seq(Closed_) /\ \A i \in DOMAIN s : s[i].in + s[i].paused <= s[i].out
  BY DEF SessionsFit, SessionAcc
<1>2. r \in Closed_ /\ r.in + r.paused <= r.out
  BY DEF SessionsFit, SessionAcc, Closed_
<1> HIDE DEF r, s
<1>3. \A i \in DOMAIN Append(s, r) : (i \in DOMAIN s /\ Append(s, r)[i] = s[i]) \/ Append(s, r)[i] = r
  BY <1>1, <1>2
<1>4. Append(s, r) \in Seq(Closed_)
  BY <1>1, <1>2
<1>5. QED
  BY <1>1, <1>2, <1>3, <1>4 DEF r, s

(* Each event leaves it so.                                                *)
LEMMA SessionStepFits ==
  ASSUME NEW acc, NEW now \in Nat \ {0}, NEW e \in Logged_, now <= e.at, SessionsFit(acc, now)
  PROVE  SessionsFit(SessionStep(acc, e), e.at)
<1>0. /\ acc \in SessionAcc /\ e.at \in Nat /\ e.at # 0
      /\ acc.in \in Nat /\ acc.since \in Nat /\ acc.paused \in Nat
  BY DEF SessionsFit, SessionAcc, Logged_
<1>f. SessionsFit(acc, e.at)
  BY <1>0, FitsLater
<1>1. CASE e.kind = "LOGIN"
  <2>1. SessionStep(acc, e) = SessionLogin(acc, e)
    BY <1>1 DEF SessionStep
  <2>2. CASE acc.in # 0
    <3>1. acc.in + acc.paused <= e.at
      BY <1>0, <1>f, <2>2 DEF SessionsFit
    <3> DEFINE d == Append(acc.done, [in |-> acc.in, out |-> e.at, paused |-> acc.paused])
    <3>2. d \in Seq(Closed_) /\ \A i \in DOMAIN d : d[i].in + d[i].paused <= d[i].out
      BY <1>0, <1>f, <2>2, <3>1, ClosedFits
    <3>3. SessionLogin(acc, e) = [done |-> d, in |-> e.at, since |-> 0, paused |-> 0]
      BY <2>2 DEF SessionLogin, Closed
    <3> HIDE DEF d
    <3>4. QED
      BY <1>0, <2>1, <3>2, <3>3 DEF SessionsFit, SessionAcc
  <2>3. CASE acc.in = 0
    BY <1>0, <1>f, <2>1, <2>3 DEF SessionLogin, SessionsFit, SessionAcc
  <2>4. QED
    BY <2>2, <2>3
<1>2. CASE e.kind = "LOGOUT" /\ acc.in # 0
  <2> DEFINE p == acc.paused + (IF acc.since # 0 THEN Span(acc.since, e.at) ELSE 0)
  <2>1. p \in Nat /\ acc.in + p <= e.at
    BY <1>0, <1>f, <1>2 DEF SessionsFit, Span
  <2> DEFINE d == Append(acc.done, [in |-> acc.in, out |-> e.at, paused |-> p])
  <2>2. d \in Seq(Closed_) /\ \A i \in DOMAIN d : d[i].in + d[i].paused <= d[i].out
    <3> HIDE DEF p
    <3>1. QED
      BY <1>0, <1>f, <1>2, <2>1, ClosedFits
  <2>3. SessionStep(acc, e) = [done |-> d, in |-> 0, since |-> 0, paused |-> 0]
    BY <1>0, <1>2 DEF SessionStep, SessionLogout, Closed, NoSession, SessionAcc
  <2> HIDE DEF d
  <2>4. QED
    BY <1>0, <2>2, <2>3 DEF SessionsFit, SessionAcc
<1>3. CASE e.kind = "PAUSE" /\ acc.in # 0 /\ acc.since = 0
  BY <1>0, <1>f, <1>3 DEF SessionStep, SessionsFit, SessionAcc
<1>4. CASE e.kind = "UNPAUSE" /\ acc.in # 0 /\ acc.since # 0
  <2> DEFINE p == acc.paused + Span(acc.since, e.at)
  <2>1. p \in Nat /\ acc.in + p <= e.at
    BY <1>0, <1>f, <1>4 DEF SessionsFit, Span
  <2>2. SessionStep(acc, e) = [acc EXCEPT !.since = 0, !.paused = p]
    BY <1>4 DEF SessionStep
  <2>3. SessionStep(acc, e) = [done |-> acc.done, in |-> acc.in, since |-> 0, paused |-> p]
    <3> HIDE DEF p
    <3>1. QED
      BY <1>0, <2>2 DEF SessionAcc
  <2> HIDE DEF p
  <2>4. QED
    BY <1>0, <1>f, <2>1, <2>3 DEF SessionsFit, SessionAcc
<1>5. CASE /\ e.kind # "LOGIN" /\ ~(e.kind = "LOGOUT" /\ acc.in # 0)
           /\ ~(e.kind = "PAUSE" /\ acc.in # 0 /\ acc.since = 0)
           /\ ~(e.kind = "UNPAUSE" /\ acc.in # 0 /\ acc.since # 0)
  <2>1. SessionStep(acc, e) = acc
    BY <1>5 DEF SessionStep
  <2>2. QED
    BY <1>f, <2>1
<1>6. QED
  BY <1>1, <1>2, <1>3, <1>4, <1>5

(* What the accumulator is after the first k events.                       *)
LastOf(s, k) == IF k = 0 THEN 1 ELSE s[k].at

(* The next event is not earlier than the last.                            *)
LEMMA LastIs ==
  ASSUME NEW now, NEW s, Good(s, now), NEW k \in 0 .. Len(s) - 1
  PROVE  /\ s[k + 1] \in Logged_ /\ LastOf(s, k) \in Nat \ {0}
         /\ LastOf(s, k) <= s[k + 1].at /\ LastOf(s, k + 1) = s[k + 1].at
<1>1. s \in Seq(Logged_) /\ k + 1 \in DOMAIN s /\ (k # 0 => k \in DOMAIN s /\ k <= k + 1)
  BY DEF Good
<1>2. s[k + 1] \in Logged_ /\ (k # 0 => s[k] \in Logged_)
  BY <1>1
<1>3. k # 0 => s[k].at <= s[k + 1].at
  BY <1>1 DEF Good, Sorted
<1>4. QED
  BY <1>1, <1>2, <1>3 DEF LastOf, Logged_

(* So do all of them.                                                      *)
LEMMA SessionsFold ==
  ASSUME NEW now \in Nat \ {0}, NEW s, Good(s, now)
  PROVE  SessionsFit(FoldLeft(SessionStep, NoSession, s), now)
<1> DEFINE n == Len(s)
           r == FoldLeft(SessionStep, NoSession, s)
<1>1. s \in Seq(Logged_) /\ n \in Nat /\ DOMAIN s = 1 .. n
  BY DEF Good
<1>2. PICK a : Run(a, "sessions", 0, s, NoSession, n, r)
  BY <1>1, SessionSteps
<1> HIDE DEF r, n
<1> DEFINE T == {k \in Nat : k <= n => SessionsFit(a[k], LastOf(s, k))}
<1>3. 0 \in T
  <2>1. SessionsFit(NoSession, 1)
    BY DEF SessionsFit, SessionAcc, NoSession
  <2>2. QED
    BY <1>2, <2>1 DEF Run, LastOf
<1>4. ASSUME NEW k \in T PROVE k + 1 \in T
  <2>1. SUFFICES ASSUME k + 1 <= n PROVE SessionsFit(a[k + 1], LastOf(s, k + 1))
    OBVIOUS
  <2>2. k \in 0 .. n - 1 /\ SessionsFit(a[k], LastOf(s, k))
    BY <1>1, <2>1
  <2>3. a[k + 1] = SessionStep(a[k], s[k + 1])
    BY <1>2, <2>2 DEF Run, Step
  <2>4. /\ s[k + 1] \in Logged_ /\ LastOf(s, k) \in Nat \ {0}
        /\ LastOf(s, k) <= s[k + 1].at /\ LastOf(s, k + 1) = s[k + 1].at
    BY <2>2, LastIs DEF n
  <2>5. QED
    BY <2>2, <2>3, <2>4, SessionStepFits
<1> HIDE DEF T
<1>5. T = Nat
  <2>1. T \in SUBSET Nat
    BY DEF T
  <2>2. QED
    BY <1>3, <1>4, <2>1, Induction
<1>6. SessionsFit(r, LastOf(s, n))
  BY <1>1, <1>2, <1>5 DEF T, Run
<1>7. LastOf(s, n) \in Nat /\ LastOf(s, n) <= now
  <2>1. n # 0 => n \in DOMAIN s
    BY <1>1
  <2>2. n # 0 => s[n].at <= now /\ s[n] \in Logged_
    BY <1>1, <2>1 DEF Good
  <2>3. QED
    BY <2>2 DEF LastOf, Logged_
<1>8. QED
  BY <1>6, <1>7, FitsLater DEF r

-----------------------------------------------------------------------------
(* A window.                                                               *)

Session_ == [in : Nat, out : Nat, online : Nat, paused : Nat]

Fitting(d) == d \in Seq(Session_) /\ \A i \in DOMAIN d : d[i].paused <= d[i].online

(* One more session that fits.                                             *)
LEMMA FittingAppend ==
  ASSUME NEW d, Fitting(d), NEW r \in Session_, r.paused <= r.online
  PROVE  Fitting(Append(d, r))
<1>1. \A i \in DOMAIN Append(d, r) : (i \in DOMAIN d /\ Append(d, r)[i] = d[i]) \/ Append(d, r)[i] = r
  BY DEF Fitting
<1>2. QED
  BY <1>1 DEF Fitting

(* The sessions as get_queue_sessions returns them without a window.       *)
AllOf(s) == [in |-> s.in, out |-> s.out, online |-> Span(s.in, s.out), paused |-> s.paused]
AllDone(done) == [i \in DOMAIN done |-> AllOf(done[i])]
OpenOf(acc, now) ==
  [in |-> acc.in, out |-> 0, online |-> Span(acc.in, now),
   paused |-> acc.paused + IF acc.since # 0 THEN Span(acc.since, now) ELSE 0]

(* get_queue_sessions without a window, of the fold.                       *)
LEMMA WholeIs ==
  ASSUME NEW s, NEW now
  PROVE  LET acc == FoldLeft(SessionStep, NoSession, s)
         IN  QueueSessionsWhole(s, now) =
               IF acc.in = 0 THEN AllDone(acc.done)
               ELSE Append(AllDone(acc.done), OpenOf(acc, now))
BY DEF QueueSessionsWhole, AllDone, AllOf, OpenOf

(* Without a window no session has a longer pause than itself.             *)
LEMMA WholeFits ==
  ASSUME NEW now \in Nat \ {0}, NEW s, Good(s, now)
  PROVE  Fitting(QueueSessionsWhole(s, now))
<1> DEFINE acc == FoldLeft(SessionStep, NoSession, s)
<1>1. SessionsFit(acc, now)
  BY SessionsFold
<1>2. QueueSessionsWhole(s, now) = IF acc.in = 0 THEN AllDone(acc.done)
                                   ELSE Append(AllDone(acc.done), OpenOf(acc, now))
  BY WholeIs
<1> HIDE DEF acc
<1>3. Fitting(AllDone(acc.done))
  <2> DEFINE d == acc.done
  <2>1. d \in Seq(Closed_) /\ \A i \in DOMAIN d : d[i].in + d[i].paused <= d[i].out
    BY <1>1 DEF SessionsFit, SessionAcc
  <2> HIDE DEF d
  <2>2. ASSUME NEW i \in DOMAIN d
        PROVE  AllOf(d[i]) \in Session_ /\ AllOf(d[i]).paused <= AllOf(d[i]).online
    <3>1. d[i] \in Closed_ /\ d[i].in + d[i].paused <= d[i].out
      BY <2>1, <2>2
    <3> DEFINE x == d[i]
    <3>2. x \in Closed_ /\ x.in + x.paused <= x.out
      BY <3>1
    <3> HIDE DEF x
    <3>3. AllOf(x) \in Session_ /\ AllOf(x).paused <= AllOf(x).online
      BY <3>2 DEF Closed_, AllOf, Session_, Span
    <3>4. QED
      BY <3>3 DEF x
  <2>3. QED
    BY <2>1, <2>2 DEF AllDone, Fitting, d
<1>4. CASE acc.in # 0
  <2>1. OpenOf(acc, now) \in Session_ /\ OpenOf(acc, now).paused <= OpenOf(acc, now).online
    BY <1>1, <1>4 DEF SessionsFit, SessionAcc, OpenOf, Session_, Span
  <2>2. QED
    BY <1>2, <1>3, <1>4, <2>1, FittingAppend
<1>5. QED
  BY <1>2, <1>3, <1>4

Window == [from : Nat, to : Nat]

(* A window cuts the pause to what is left of the session.                 *)
LEMMA ClipFits ==
  ASSUME NEW now \in Nat, NEW w \in Window, NEW x \in Session_
  PROVE  ClipSession(x, w, now) \in Session_
         /\ ClipSession(x, w, now).paused <= ClipSession(x, w, now).online
BY DEF Window, Session_, ClipSession, Span, Earlier, Later

(* No session has a longer pause than itself, whatever the window.         *)
LEMMA SessionsFitTheirPauses ==
  ASSUME NEW now \in Nat \ {0}, NEW s, Good(s, now), NEW w \in Window
  PROVE  Fitting(get_queue_sessions(s, w, now))
<1> DEFINE all == QueueSessionsWhole(s, now)
           n == Len(all)
           r == ClippedFold(w, now, <<>>, all)
<1>1. Fitting(all)
  BY WholeFits
<1>2. get_queue_sessions(s, w, now) = IF w = Whole THEN all ELSE r
  BY DEF get_queue_sessions, ClippedFold
<1> HIDE DEF all
<1>3. n \in Nat /\ DOMAIN all = 1 .. n
  BY <1>1 DEF Fitting
<1>4. PICK a : Run(a, "clipped", [w |-> w, now |-> now], all, <<>>, n, r)
  BY <1>3, ClippedSteps
<1> HIDE DEF r, n
<1> DEFINE T == {k \in Nat : k <= n => Fitting(a[k])}
<1>5. 0 \in T
  <2>1. Fitting(<<>>)
    BY DEF Fitting
  <2>2. a[0] = <<>>
    BY <1>4 DEF Run
  <2>3. QED
    BY <2>1, <2>2
<1>6. ASSUME NEW k \in T PROVE k + 1 \in T
  <2>1. SUFFICES ASSUME k + 1 <= n PROVE Fitting(a[k + 1])
    OBVIOUS
  <2>2. k \in 0 .. n - 1 /\ Fitting(a[k]) /\ k + 1 \in DOMAIN all
    BY <1>3, <2>1
  <2>3. a[k + 1] = Clipped(a[k], all[k + 1], w, now)
    BY <1>4, <2>2 DEF Run, Step
  <2>4. all[k + 1] \in Session_
    BY <1>1, <2>2 DEF Fitting
  <2>5. ClipSession(all[k + 1], w, now) \in Session_
        /\ ClipSession(all[k + 1], w, now).paused <= ClipSession(all[k + 1], w, now).online
    BY <2>4, ClipFits
  <2>6. QED
    BY <2>2, <2>3, <2>5, FittingAppend DEF Clipped
<1> HIDE DEF T
<1>7. T = Nat
  <2>1. T \in SUBSET Nat
    BY DEF T
  <2>2. QED
    BY <1>5, <1>6, <2>1, Induction
<1>8. Fitting(r)
  BY <1>3, <1>4, <1>7 DEF T, Run
<1>9. QED
  BY <1>1, <1>2, <1>8

-----------------------------------------------------------------------------
(* The five reports, side by side.  What each event does to each of them.  *)

InOut == [in : Nat, out : Nat]
FromTo == [from : Nat, to : Nat]
AllAcc == [done : Seq(InOut), in : Nat, total : Nat]
TotalsAcc == [online : Nat, paused : Nat, login : Nat, since : Nat]
PauseAcc == [done : Seq(FromTo), since : Nat]

Ran(since, now) == IF since # 0 THEN Span(since, now) ELSE 0

(* What ran since a time.                                                  *)
LEMMA RanIs ==
  ASSUME NEW since \in Nat, NEW now \in Nat, since <= now
  PROVE  Ran(since, now) \in Nat /\ Ran(since, now) = IF since # 0 THEN now - since ELSE 0
BY DEF Ran, Span

(* The sessions of a queue.                                                *)
LEMMA SessionFields ==
  ASSUME NEW q \in SessionAcc, NEW e \in Logged_, q.in = 0 => q.since = 0
  PROVE  LET r == SessionStep(q, e)
             d == [in |-> q.in, out |-> e.at, paused |-> q.paused]
             f == [in |-> q.in, out |-> e.at, paused |-> q.paused + Ran(q.since, e.at)]
         IN  /\ e.kind = "LOGIN" =>
                  /\ r.in = e.at /\ r.since = 0 /\ r.paused = 0
                  /\ r.done = IF q.in # 0 THEN Append(q.done, d) ELSE q.done
             /\ e.kind = "LOGOUT" =>
                  /\ r.in = 0 /\ r.since = 0
                  /\ r.paused = IF q.in # 0 THEN 0 ELSE q.paused
                  /\ r.done = IF q.in # 0 THEN Append(q.done, f) ELSE q.done
             /\ e.kind = "PAUSE" =>
                  /\ r.in = q.in /\ r.paused = q.paused /\ r.done = q.done
                  /\ r.since = IF q.in # 0 /\ q.since = 0 THEN e.at ELSE q.since
             /\ e.kind = "UNPAUSE" =>
                  /\ r.in = q.in /\ r.since = 0 /\ r.done = q.done
                  /\ r.paused = q.paused + Ran(q.since, e.at)
<1>0. q.since \in Nat /\ q.paused \in Nat /\ q.in \in Nat
  BY DEF SessionAcc
<1> DEFINE ran == Ran(q.since, e.at)
<1>1. CASE e.kind = "LOGIN"
  BY <1>1 DEF SessionStep, SessionLogin, Closed
<1>2. CASE e.kind = "LOGOUT"
  <2>1. CASE q.in # 0
    BY <1>0, <1>2, <2>1 DEF SessionStep, SessionLogout, Closed, NoSession, SessionAcc, Ran
  <2>2. CASE q.in = 0
    BY <1>0, <1>2, <2>2 DEF SessionStep
  <2>3. QED
    BY <2>1, <2>2
<1>3. CASE e.kind = "PAUSE"
  BY <1>3 DEF SessionStep, SessionAcc
<1>4. CASE e.kind = "UNPAUSE"
  <2>1. CASE q.in # 0 /\ q.since # 0
    <3> DEFINE p == q.paused + Span(q.since, e.at)
    <3>1. SessionStep(q, e) = [q EXCEPT !.since = 0, !.paused = p]
      BY <1>4, <2>1 DEF SessionStep
    <3>2. p = q.paused + ran
      BY <2>1 DEF Ran
    <3> HIDE DEF p, ran
    <3>3. SessionStep(q, e) = [done |-> q.done, in |-> q.in, since |-> 0, paused |-> p]
      BY <3>1 DEF SessionAcc
    <3> DEFINE r == SessionStep(q, e)
    <3>4. r.in = q.in /\ r.since = 0 /\ r.done = q.done /\ r.paused = q.paused + ran
      BY <3>2, <3>3
    <3>5. QED
      BY <1>4, <3>4 DEF ran
  <2>2. CASE ~(q.in # 0 /\ q.since # 0)
    <3>1. SessionStep(q, e) = q /\ q.since = 0 /\ ran = 0
      BY <1>4, <2>2 DEF SessionStep, Ran
    <3>2. QED
      BY <1>0, <1>4, <3>1
  <2>3. QED
    BY <2>1, <2>2
<1>5. e.kind \in {"LOGIN", "LOGOUT", "PAUSE", "UNPAUSE"}
  BY DEF Logged_, EventKinds
<1>6. QED
  BY <1>1, <1>2, <1>3, <1>4, <1>5

(* The sessions report.                                                    *)
LEMMA AllFields ==
  ASSUME NEW s \in AllAcc, NEW e \in Logged_
  PROVE  LET r == AllStep(s, e)
         IN  /\ r.in = IF e.kind = "LOGIN" THEN e.at ELSE IF e.kind = "LOGOUT" THEN 0 ELSE s.in
             /\ r.total = IF e.kind = "LOGOUT" THEN s.total + Ran(s.in, e.at) ELSE s.total
             /\ r.done = IF e.kind \in {"LOGIN", "LOGOUT"} /\ s.in # 0
                           THEN Append(s.done, [in |-> s.in, out |-> e.at]) ELSE s.done
<1>0. s.in \in Nat /\ s.total \in Nat
  BY DEF AllAcc
<1>1. CASE e.kind = "LOGIN"
  BY <1>1 DEF AllStep, AllAcc
<1>2. CASE e.kind = "LOGOUT" /\ s.in # 0
  BY <1>2 DEF AllStep, Ran
<1>3. CASE e.kind # "LOGIN" /\ ~(e.kind = "LOGOUT" /\ s.in # 0)
  <2>1. AllStep(s, e) = s
    BY <1>3 DEF AllStep
  <2>2. QED
    BY <1>0, <1>3, <2>1 DEF Ran
<1>4. QED
  BY <1>1, <1>2, <1>3

(* The totals per agent.                                                   *)
LEMMA TotalsFields ==
  ASSUME NEW t \in TotalsAcc, NEW e \in Logged_, t.login = 0 => t.since = 0
  PROVE  LET r == AnalyticsStep(t, e)
         IN  /\ r.login = IF e.kind = "LOGIN" THEN e.at
                          ELSE IF e.kind = "LOGOUT" THEN 0 ELSE t.login
             /\ r.since = IF e.kind = "PAUSE" /\ t.login # 0 THEN e.at ELSE 0
             /\ r.online = IF e.kind \in {"LOGIN", "LOGOUT"}
                             THEN t.online + Ran(t.login, e.at) ELSE t.online
             /\ r.paused = t.paused + Ran(t.since, e.at)
<1>0. t.login \in Nat /\ t.since \in Nat /\ t.online \in Nat /\ t.paused \in Nat
  BY DEF TotalsAcc
<1>1. CASE e.kind = "LOGIN"
  <2>1. AnalyticsStep(t, e) = AnalyticsLogin(t, e)
    BY <1>1 DEF AnalyticsStep
  <2>2. CASE t.login = 0
    BY <1>0, <1>1, <2>1, <2>2 DEF AnalyticsLogin, TotalsAcc, Ran
  <2>3. CASE t.login # 0
    BY <1>0, <1>1, <2>1, <2>3 DEF AnalyticsLogin, TotalsAcc, Ran
  <2>4. QED
    BY <2>2, <2>3
<1>2. CASE e.kind = "LOGOUT"
  BY <1>0, <1>2 DEF AnalyticsStep, Ran
<1>3. CASE e.kind = "PAUSE"
  BY <1>0, <1>3 DEF AnalyticsStep, Ran, TotalsAcc
<1>4. CASE e.kind = "UNPAUSE"
  BY <1>0, <1>4 DEF AnalyticsStep, Ran, TotalsAcc
<1>5. e.kind \in {"LOGIN", "LOGOUT", "PAUSE", "UNPAUSE"}
  BY DEF Logged_, EventKinds
<1>6. QED
  BY <1>1, <1>2, <1>3, <1>4, <1>5

(* The two pause reports.                                                  *)
LEMMA PauseFields ==
  ASSUME NEW u \in PauseAcc, NEW e \in Logged_, NEW ends, "PAUSE" \notin ends
  PROVE  LET r == PauseStep(u, e, ends)
         IN  /\ r.since = IF e.kind = "PAUSE" THEN e.at ELSE IF e.kind \in ends THEN 0 ELSE u.since
             /\ r.done = IF (e.kind = "PAUSE" \/ e.kind \in ends) /\ u.since # 0
                           THEN Append(u.done, [from |-> u.since, to |-> e.at]) ELSE u.done
<1>1. CASE e.kind = "PAUSE"
  BY <1>1 DEF PauseStep
<1>2. CASE e.kind # "PAUSE" /\ e.kind \in ends /\ u.since # 0
  BY <1>2 DEF PauseStep
<1>3. CASE e.kind # "PAUSE" /\ ~(e.kind \in ends /\ u.since # 0)
  BY <1>3 DEF PauseStep
<1>4. QED
  BY <1>1, <1>2, <1>3

(* The sessions report lists the sessions of the queue.                    *)
SameRows(d, f) ==
  Len(f) = Len(d) /\ \A i \in DOMAIN d : f[i].in = d[i].in /\ f[i].out = d[i].out

SameSessions(q, s) == s \in AllAcc /\ s.in = q.in /\ SameRows(q.done, s.done)

(* The totals have their online time, and at least that of the report.     *)
SameOnline(q, s, t) ==
  /\ t \in TotalsAcc /\ t.login = q.in
  /\ s.total <= t.online /\ t.online = SumOnline(AllDone(q.done))

(* The totals count at least the pauses of the sessions: a second pause    *)
(* ends the first for the totals and is not seen by the sessions.          *)
PausedCovers(q, t, now) ==
  /\ SumPaused(AllDone(q.done)) \in Nat
  /\ t.login = 0 => t.since = 0
  /\ q.since = 0 <=> t.since = 0
  /\ q.since <= t.since /\ t.since <= now
  /\ q.since = 0 => SumPaused(AllDone(q.done)) + q.paused <= t.paused
  /\ q.since # 0 => SumPaused(AllDone(q.done)) + q.paused + t.since <= t.paused + q.since

(* The pauses report counts at least as much: a login ends a pause for the  *)
(* totals only.                                                            *)
PausesCover(t, p, now) ==
  /\ p \in PauseAcc /\ p.since <= now /\ SumLength(p.done) \in Nat
  /\ t.since # 0 => p.since = t.since
  /\ t.since # 0 \/ p.since = 0 => t.paused <= SumLength(p.done)
  /\ t.since = 0 /\ p.since # 0 => t.paused + p.since <= SumLength(p.done) + now

(* Both pause reports list as many pauses.                                 *)
Listed(u) == Len(u.done) + (IF u.since # 0 THEN 1 ELSE 0)
SameCount(u, p) == u \in PauseAcc /\ p \in PauseAcc /\ Listed(u) = Listed(p)

(* One more session.                                                       *)
LEMMA AllDoneAppend ==
  ASSUME NEW d \in Seq(Closed_), NEW x \in Closed_
  PROVE  /\ AllDone(<<>>) = <<>> /\ AllDone(d) \in Seq(Session_) /\ AllOf(x) \in Session_
         /\ AllDone(Append(d, x)) = Append(AllDone(d), AllOf(x))
<1>1. \A y \in Closed_ : AllOf(y) \in Session_
  BY DEF Closed_, AllOf, Session_, Span
<1>2. \A i \in DOMAIN d : d[i] \in Closed_
  OBVIOUS
<1>3. AllDone(<<>>) = <<>>
  BY DEF AllDone
<1>4. AllDone(d) \in Seq(Session_) /\ Len(AllDone(d)) = Len(d) /\ DOMAIN AllDone(d) = 1 .. Len(d)
  BY <1>1, <1>2 DEF AllDone
<1>5. AllDone(Append(d, x)) = Append(AllDone(d), AllOf(x))
  <2> DEFINE a == AllDone(Append(d, x))
             b == Append(AllDone(d), AllOf(x))
  <2>1. DOMAIN a = 1 .. Len(d) + 1 /\ DOMAIN b = 1 .. Len(d) + 1
    BY <1>4 DEF AllDone
  <2>2. \A i \in 1 .. Len(d) + 1 : a[i] = b[i]
    BY <1>4 DEF AllDone
  <2>3. a = [i \in DOMAIN a |-> a[i]] /\ b = [i \in DOMAIN b |-> b[i]]
    BY <1>4 DEF AllDone
  <2> HIDE DEF a, b
  <2>4. a = b
    BY <2>1, <2>2, <2>3
  <2>5. QED
    BY <2>4 DEF a, b
<1>6. QED
  BY <1>1, <1>3, <1>4, <1>5

(* One more row in both.                                                   *)
LEMMA SameRowsAppend ==
  ASSUME NEW S, NEW R, NEW d \in Seq(S), NEW f \in Seq(R), NEW x \in S, NEW y \in R,
         SameRows(d, f), x.in = y.in, x.out = y.out
  PROVE  SameRows(Append(d, x), Append(f, y))
<1>1. Len(Append(f, y)) = Len(Append(d, x)) /\ DOMAIN Append(d, x) = 1 .. Len(d) + 1
      /\ Len(d) = Len(f) /\ Len(d) \in Nat
  BY DEF SameRows
<1>2. ASSUME NEW i \in 1 .. Len(d) + 1
      PROVE  Append(f, y)[i].in = Append(d, x)[i].in /\ Append(f, y)[i].out = Append(d, x)[i].out
  <2>1. CASE i \in 1 .. Len(d)
    <3>1. Append(f, y)[i] = f[i] /\ Append(d, x)[i] = d[i] /\ i \in DOMAIN d
      BY <1>1, <2>1
    <3>2. QED
      BY <3>1 DEF SameRows
  <2>2. CASE i = Len(d) + 1
    <3>1. Append(f, y)[i] = y /\ Append(d, x)[i] = x
      BY <1>1, <2>2
    <3>2. QED
      BY <3>1
  <2>3. QED
    BY <1>1, <2>1, <2>2
<1>3. QED
  BY <1>1, <1>2 DEF SameRows

(* An event keeps the sessions the same.                                   *)
LEMMA SameSessionsStep ==
  ASSUME NEW q \in SessionAcc, NEW s, NEW e \in Logged_, q.in = 0 => q.since = 0,
         SameSessions(q, s)
  PROVE  SameSessions(SessionStep(q, e), AllStep(s, e))
<1> DEFINE qq == SessionStep(q, e)
           ss == AllStep(s, e)
<1>1. s \in AllAcc /\ s.in = q.in /\ s.in \in Nat /\ s.done \in Seq(InOut) /\ s.total \in Nat
      /\ e.at \in Nat /\ e.kind \in EventKinds /\ q.done \in Seq(Closed_) /\ q.in \in Nat
      /\ q.since \in Nat /\ q.paused \in Nat
  BY DEF SameSessions, AllAcc, Logged_, SessionAcc
<1>2. /\ ss.in = IF e.kind = "LOGIN" THEN e.at ELSE IF e.kind = "LOGOUT" THEN 0 ELSE s.in
      /\ ss.total = IF e.kind = "LOGOUT" THEN s.total + Ran(s.in, e.at) ELSE s.total
      /\ ss.done = IF e.kind \in {"LOGIN", "LOGOUT"} /\ s.in # 0
                           THEN Append(s.done, [in |-> s.in, out |-> e.at]) ELSE s.done
  BY <1>1, AllFields
<1>3. qq.in = IF e.kind = "LOGIN" THEN e.at ELSE IF e.kind = "LOGOUT" THEN 0 ELSE q.in
  BY <1>1, SessionFields DEF EventKinds
<1>4. \E p \in Nat : qq.done = IF e.kind \in {"LOGIN", "LOGOUT"} /\ q.in # 0
                      THEN Append(q.done, [in |-> q.in, out |-> e.at, paused |-> p]) ELSE q.done
  <2>1. Ran(q.since, e.at) \in Nat
    BY <1>1 DEF Ran, Span
  <2>2. CASE e.kind = "LOGIN"
    BY <1>1, <2>2, SessionFields
  <2>3. CASE e.kind = "LOGOUT"
    <3>1. q.paused + Ran(q.since, e.at) \in Nat
      BY <1>1, <2>1
    <3>2. QED
      BY <1>1, <2>3, <3>1, SessionFields
  <2>4. CASE e.kind \in {"PAUSE", "UNPAUSE"}
    BY <1>1, <2>4, SessionFields
  <2>5. QED
    BY <1>1, <2>2, <2>3, <2>4 DEF EventKinds
<1>5. ss \in AllAcc
  <2>1. Ran(s.in, e.at) \in Nat
    BY <1>1 DEF Ran, Span
  <2>2. s.total + Ran(s.in, e.at) \in Nat
    BY <1>1, <2>1
  <2>3. [in |-> s.in, out |-> e.at] \in InOut
    BY <1>1 DEF InOut
  <2>4. Append(s.done, [in |-> s.in, out |-> e.at]) \in Seq(InOut)
    BY <1>1, <2>3
  <2>5. ss.in \in Nat /\ ss.total \in Nat /\ ss.done \in Seq(InOut)
    BY <1>1, <1>2, <2>2, <2>4
  <2>6. ss = [done |-> ss.done, in |-> ss.in, total |-> ss.total]
    BY <1>1 DEF AllStep, AllAcc
  <2> HIDE DEF ss
  <2>7. QED
    BY <2>5, <2>6 DEF AllAcc
<1> HIDE DEF qq, ss
<1>6. SameRows(q.done, s.done)
  BY DEF SameSessions
<1>7. SameRows(qq.done, ss.done)
  <2>1. CASE e.kind \in {"LOGIN", "LOGOUT"} /\ q.in # 0
    <3>1. PICK p \in Nat : qq.done = Append(q.done, [in |-> q.in, out |-> e.at, paused |-> p])
      BY <1>4, <2>1
    <3> DEFINE x == [in |-> q.in, out |-> e.at, paused |-> p]
               y == [in |-> q.in, out |-> e.at]
    <3>2. x \in Closed_ /\ y \in InOut /\ x.in = y.in /\ x.out = y.out
      BY <1>1, <3>1 DEF Closed_, InOut
    <3>3. ss.done = Append(s.done, y) /\ qq.done = Append(q.done, x)
      BY <1>1, <1>2, <2>1, <3>1
    <3> HIDE DEF x, y
    <3>4. QED
      BY <1>1, <1>6, <3>2, <3>3, SameRowsAppend
  <2>2. CASE ~(e.kind \in {"LOGIN", "LOGOUT"} /\ q.in # 0)
    BY <1>1, <1>2, <1>4, <1>6, <2>2
  <2>3. QED
    BY <2>1, <2>2
<1>8. ss.in = qq.in
  BY <1>1, <1>2, <1>3
<1>9. QED
  BY <1>5, <1>7, <1>8 DEF SameSessions, qq, ss

(* An event keeps the online time the same.                                *)
LEMMA SameOnlineStep ==
  ASSUME NEW q, NEW s, NEW t, NEW now \in Nat \ {0}, NEW e \in Logged_, now <= e.at,
         SessionsFit(q, now), SameSessions(q, s), SameOnline(q, s, t), t.login = 0 => t.since = 0
  PROVE  SameOnline(SessionStep(q, e), AllStep(s, e), AnalyticsStep(t, e))
<1> DEFINE qq == SessionStep(q, e)
           ss == AllStep(s, e)
           tt == AnalyticsStep(t, e)
           sum == SumOnline(AllDone(q.done))
           ran == Ran(q.in, e.at)
           rest == Ran(t.since, e.at)
<1>1. /\ q \in SessionAcc /\ q.in \in Nat /\ q.since \in Nat /\ q.paused \in Nat
      /\ q.done \in Seq(Closed_) /\ q.in <= now /\ (q.in = 0 => q.since = 0)
  BY DEF SessionsFit, SessionAcc
<1>2. /\ s \in AllAcc /\ s.in = q.in /\ s.total \in Nat
      /\ t \in TotalsAcc /\ t.login = q.in /\ t.online \in Nat /\ t.paused \in Nat /\ t.since \in Nat
      /\ s.total <= t.online /\ t.online = sum
  BY DEF SameSessions, SameOnline, AllAcc, TotalsAcc
<1>3. e.at \in Nat \ {0} /\ e.kind \in EventKinds /\ now \in Nat
  BY DEF Logged_
<1>4. ran \in Nat /\ rest \in Nat
  BY <1>1, <1>2, <1>3 DEF Ran, Span
<1> HIDE DEF ran, rest, sum
<1>5. /\ tt.login = IF e.kind = "LOGIN" THEN e.at ELSE IF e.kind = "LOGOUT" THEN 0 ELSE t.login
      /\ tt.since = IF e.kind = "PAUSE" /\ t.login # 0 THEN e.at ELSE 0
      /\ tt.online = IF e.kind \in {"LOGIN", "LOGOUT"} THEN t.online + ran ELSE t.online
      /\ tt.paused = t.paused + rest
  BY <1>2, TotalsFields DEF ran, rest
<1>6. ss.total = IF e.kind = "LOGOUT" THEN s.total + ran ELSE s.total
  BY <1>2, AllFields DEF ran
<1>7. qq.in = IF e.kind = "LOGIN" THEN e.at ELSE IF e.kind = "LOGOUT" THEN 0 ELSE q.in
  BY <1>1, <1>3, SessionFields DEF EventKinds
<1>8. tt.login = qq.in /\ ss.total <= tt.online
  BY <1>2, <1>3, <1>4, <1>5, <1>6, <1>7
<1>9. tt \in TotalsAcc
  <2>1. tt.login \in Nat /\ tt.since \in Nat /\ tt.online \in Nat /\ tt.paused \in Nat
    <3> HIDE DEF tt
    <3>1. tt.login \in Nat
      BY <1>1, <1>2, <1>3, <1>5
    <3>2. tt.since \in Nat
      BY <1>3, <1>5
    <3>3. tt.online \in Nat
      BY <1>2, <1>4, <1>5
    <3>4. tt.paused \in Nat
      BY <1>2, <1>4, <1>5
    <3>5. QED
      BY <3>1, <3>2, <3>3, <3>4
  <2>2. tt = [online |-> tt.online, paused |-> tt.paused, login |-> tt.login, since |-> tt.since]
    BY <1>2, <1>3 DEF AnalyticsStep, AnalyticsLogin, TotalsAcc, EventKinds
  <2> HIDE DEF tt
  <2>3. QED
    BY <2>1, <2>2 DEF TotalsAcc
<1>10. tt.online = SumOnline(AllDone(qq.done))
  <2>1. CASE e.kind \in {"LOGIN", "LOGOUT"} /\ q.in # 0
    <3>1. \E p \in Nat : qq.done = Append(q.done, [in |-> q.in, out |-> e.at, paused |-> p])
      <4>1. Ran(q.since, e.at) \in Nat
        BY <1>1, <1>3 DEF Ran, Span
      <4>2. q.paused + Ran(q.since, e.at) \in Nat
        BY <1>1, <4>1
      <4>3. QED
        BY <1>1, <2>1, <4>2, SessionFields
    <3>2. PICK p \in Nat : qq.done = Append(q.done, [in |-> q.in, out |-> e.at, paused |-> p])
      BY <3>1
    <3> DEFINE x == [in |-> q.in, out |-> e.at, paused |-> p]
    <3>3. x \in Closed_ /\ AllOf(x).online = ran
      BY <1>1, <1>3, <2>1, <3>2 DEF Closed_, AllOf, ran, Ran
    <3> HIDE DEF x, qq
    <3>4. AllDone(qq.done) = Append(AllDone(q.done), AllOf(x))
          /\ AllDone(q.done) \in Seq(Session_) /\ AllOf(x) \in Session_
      BY <1>1, <3>2, <3>3, AllDoneAppend DEF x
    <3>5. SumOnline(AllDone(qq.done)) = sum + ran
      BY <3>3, <3>4, OnlineAppend DEF sum
    <3>6. QED
      BY <1>2, <1>5, <2>1, <3>5
  <2>2. CASE e.kind \in {"LOGIN", "LOGOUT"} /\ q.in = 0
    <3>1. ran = 0
      BY <2>2 DEF ran, Ran
    <3>2. qq.done = q.done
      BY <1>1, <2>2, SessionFields
    <3> HIDE DEF qq, tt
    <3>3. QED
      BY <1>2, <1>5, <2>2, <3>1, <3>2 DEF sum
  <2>3. CASE e.kind \in {"PAUSE", "UNPAUSE"}
    <3>1. qq.done = q.done
      BY <1>1, <2>3, SessionFields
    <3>2. QED
      BY <1>2, <1>5, <2>3, <3>1 DEF sum
  <2>4. QED
    BY <1>3, <2>1, <2>2, <2>3 DEF EventKinds
<1>11. QED
  BY <1>8, <1>9, <1>10 DEF SameOnline

(* Both pauses run to the same time.                                       *)
LEMMA PausedCoversSum ==
  ASSUME NEW sum \in Nat, NEW qp \in Nat, NEW tp \in Nat, NEW qs \in Nat, NEW ts \in Nat,
         NEW at \in Nat, sum + qp + ts <= tp + qs
  PROVE  sum + (qp + (at - qs)) <= tp + (at - ts) /\ sum + qp + at <= tp + (at - ts) + qs
OBVIOUS

(* An event adds to the totals at least what it adds to the sessions.      *)
LEMMA PausedCoversStep ==
  ASSUME NEW q, NEW t, NEW now \in Nat \ {0}, NEW e \in Logged_, now <= e.at,
         SessionsFit(q, now), t \in TotalsAcc, t.login = q.in, PausedCovers(q, t, now)
  PROVE  PausedCovers(SessionStep(q, e), AnalyticsStep(t, e), e.at)
<1> DEFINE qq == SessionStep(q, e)
           tt == AnalyticsStep(t, e)
           sum == SumPaused(AllDone(q.done))
           ran == Ran(q.since, e.at)
           rest == Ran(t.since, e.at)
           at == e.at
<1>1. /\ q \in SessionAcc /\ q.in \in Nat /\ q.since \in Nat /\ q.paused \in Nat
      /\ q.done \in Seq(Closed_) /\ (q.in = 0 => q.since = 0) /\ q.since <= now
  BY DEF SessionsFit, SessionAcc
<1>2. /\ t.paused \in Nat /\ t.since \in Nat /\ t.login \in Nat
  BY DEF TotalsAcc
<1>3. /\ sum \in Nat /\ (t.login = 0 => t.since = 0) /\ (q.since = 0 <=> t.since = 0)
      /\ q.since <= t.since /\ t.since <= now
      /\ (q.since = 0 => sum + q.paused <= t.paused)
      /\ (q.since # 0 => sum + q.paused + t.since <= t.paused + q.since)
  BY DEF PausedCovers
<1>4. at \in Nat \ {0} /\ e.kind \in EventKinds /\ now \in Nat /\ now <= at
  BY DEF Logged_
<1>5. /\ ran \in Nat /\ rest \in Nat /\ ran = (IF q.since # 0 THEN at - q.since ELSE 0)
      /\ rest = IF t.since # 0 THEN at - t.since ELSE 0
  <2>1. q.since <= at /\ t.since <= at /\ at \in Nat
    BY <1>1, <1>2, <1>3, <1>4
  <2>2. QED
    BY <1>1, <1>2, <2>1, RanIs
<1>s. /\ sum + (q.paused + ran) <= t.paused + rest /\ sum + q.paused <= t.paused + rest
      /\ sum <= t.paused + rest
      /\ q.since # 0 => sum + q.paused + at <= t.paused + rest + q.since
  <2>1. t.since <= at /\ at \in Nat
    BY <1>2, <1>3, <1>4
  <2> HIDE DEF ran, rest, sum, at
  <2>2. CASE q.since = 0
    <3>1. ran = 0 /\ rest = 0 /\ sum + q.paused <= t.paused
      BY <1>3, <1>5, <2>2
    <3>2. QED
      BY <1>1, <1>2, <1>3, <2>2, <3>1
  <2>3. CASE q.since # 0
    <3>1. ran = at - q.since /\ rest = at - t.since
          /\ sum + q.paused + t.since <= t.paused + q.since
      BY <1>3, <1>5, <2>3
    <3>2. sum + q.paused <= t.paused
      <4>1. sum \in Nat /\ q.paused \in Nat /\ t.paused \in Nat /\ q.since \in Nat
            /\ t.since \in Nat /\ q.since <= t.since
        BY <1>1, <1>2, <1>3
      <4>2. sum + q.paused + t.since <= t.paused + q.since
        BY <3>1
      <4>3. QED
        BY <4>1, <4>2
    <3>3. /\ sum + (q.paused + (at - q.since)) <= t.paused + (at - t.since)
          /\ sum + q.paused + at <= t.paused + (at - t.since) + q.since
      <4>1. sum \in Nat /\ at \in Nat /\ q.paused \in Nat /\ t.paused \in Nat
            /\ q.since \in Nat /\ t.since \in Nat
        BY <1>1, <1>2, <1>3, <2>1
      <4>2. QED
        BY <3>1, <4>1, PausedCoversSum
    <3>4. t.paused <= t.paused + rest
      BY <1>2, <1>5
    <3>5. sum + q.paused <= t.paused + rest
      BY <1>1, <1>2, <1>3, <1>5, <3>2, <3>4
    <3>6. sum <= t.paused + rest
      <4>1. sum \in Nat /\ q.paused \in Nat /\ t.paused \in Nat /\ rest \in Nat
        BY <1>1, <1>2, <1>3, <1>5
      <4>2. QED
        BY <3>5, <4>1
    <3>7. QED
      BY <3>1, <3>3, <3>5, <3>6
  <2>4. QED
    BY <2>2, <2>3
<1> HIDE DEF ran, rest, sum, at
<1>6. /\ tt.login = (IF e.kind = "LOGIN" THEN at ELSE IF e.kind = "LOGOUT" THEN 0 ELSE t.login)
      /\ tt.since = (IF e.kind = "PAUSE" /\ t.login # 0 THEN at ELSE 0)
      /\ tt.paused = t.paused + rest
  BY <1>3, TotalsFields DEF rest, at
<1> DEFINE new == SumPaused(AllDone(qq.done))
<1>7. ASSUME NEW p \in Nat,
             qq.done = Append(q.done, [in |-> q.in, out |-> at, paused |-> p])
      PROVE  new = sum + p
  <2> DEFINE x == [in |-> q.in, out |-> at, paused |-> p]
  <2>1. x \in Closed_ /\ AllOf(x).paused = p
    BY <1>1, <1>4 DEF Closed_, AllOf
  <2> HIDE DEF x, qq
  <2>2. AllDone(qq.done) = Append(AllDone(q.done), AllOf(x))
        /\ AllDone(q.done) \in Seq(Session_) /\ AllOf(x) \in Session_
    BY <1>1, <1>7, <2>1, AllDoneAppend DEF x
  <2>3. QED
    BY <2>1, <2>2, PausedAppend DEF sum
<1>8. CASE e.kind = "LOGIN"
  <2>1. /\ qq.in = at /\ qq.since = 0 /\ qq.paused = 0
        /\ qq.done = IF q.in # 0 THEN Append(q.done, [in |-> q.in, out |-> at, paused |-> q.paused])
                     ELSE q.done
    BY <1>1, <1>8, SessionFields DEF at
  <2> HIDE DEF qq
  <2>2. new = IF q.in # 0 THEN sum + q.paused ELSE sum
    BY <1>1, <1>7, <2>1 DEF sum
  <2> HIDE DEF tt, new
  <2>3. /\ new \in Nat /\ tt.login # 0 /\ tt.since = 0 /\ tt.paused = t.paused + rest
    BY <1>1, <1>3, <1>4, <1>6, <1>8, <2>2
  <2>4. new + qq.paused <= tt.paused
    BY <1>1, <1>3, <1>s, <2>1, <2>2, <2>3
  <2>5. QED
    BY <1>4, <2>1, <2>3, <2>4 DEF PausedCovers, new, qq, tt, at
<1>9. CASE e.kind = "LOGOUT"
  <2>1. /\ qq.in = 0 /\ qq.since = 0 /\ qq.paused = (IF q.in # 0 THEN 0 ELSE q.paused)
        /\ qq.done = IF q.in # 0 THEN Append(q.done, [in |-> q.in, out |-> at, paused |-> q.paused + ran])
                     ELSE q.done
    BY <1>1, <1>9, SessionFields DEF at, ran
  <2> HIDE DEF qq
  <2>2. q.paused + ran \in Nat
    BY <1>1, <1>5
  <2>3. new = IF q.in # 0 THEN sum + (q.paused + ran) ELSE sum
    BY <1>7, <2>1, <2>2 DEF sum
  <2> HIDE DEF tt, new
  <2>4. /\ new \in Nat /\ tt.login = 0 /\ tt.since = 0 /\ tt.paused = t.paused + rest
    BY <1>1, <1>3, <1>4, <1>6, <1>9, <2>2, <2>3
  <2>5. new + qq.paused <= tt.paused
    <3>1. CASE q.in # 0
      BY <1>s, <1>1, <1>3, <1>5, <2>1, <2>3, <2>4, <3>1
    <3>2. CASE q.in = 0
      BY <1>s, <1>1, <1>3, <1>5, <2>1, <2>3, <2>4, <3>2
    <3>3. QED
      BY <3>1, <3>2
  <2>6. QED
    BY <1>4, <2>1, <2>4, <2>5 DEF PausedCovers, new, qq, tt, at
<1>10. CASE e.kind = "PAUSE"
  <2>1. /\ qq.in = q.in /\ qq.paused = q.paused /\ qq.done = q.done
        /\ qq.since = IF q.in # 0 /\ q.since = 0 THEN at ELSE q.since
    BY <1>1, <1>10, SessionFields DEF at
  <2> HIDE DEF qq
  <2>2. new = sum
    BY <2>1 DEF sum
  <2> HIDE DEF tt, new
  <2>3. /\ tt.login = t.login /\ tt.paused = t.paused + rest
        /\ tt.since = IF t.login # 0 THEN at ELSE 0
    BY <1>6, <1>10
  <2>4. /\ tt.login = 0 => tt.since = 0
        /\ qq.since = 0 <=> tt.since = 0
        /\ qq.since <= tt.since /\ tt.since <= at
    BY <1>1, <1>2, <1>3, <1>4, <2>1, <2>3
  <2>5. qq.since = 0 => new + qq.paused <= tt.paused
    BY <1>1, <1>2, <1>3, <1>4, <1>5, <2>1, <2>2, <2>3
  <2>6. qq.since # 0 => new + qq.paused + tt.since <= tt.paused + qq.since
    <3>1. CASE q.since # 0
      <4>1. qq.since = q.since /\ q.in # 0 /\ tt.since = at /\ qq.paused = q.paused
        BY <1>1, <2>1, <2>3, <2>4, <3>1
      <4>2. QED
        BY <1>s, <2>2, <2>3, <3>1, <4>1
    <3>2. CASE q.since = 0 /\ q.in # 0
      <4>1. qq.since = at /\ tt.since = at /\ qq.paused = q.paused
        BY <1>1, <1>4, <2>1, <2>3, <2>4, <3>2
      <4>2. QED
        BY <1>s, <1>1, <1>2, <1>3, <1>4, <1>5, <2>2, <2>3, <3>2, <4>1
    <3>3. CASE q.since = 0 /\ q.in = 0
      BY <2>1, <3>3
    <3>4. QED
      BY <3>1, <3>2, <3>3
  <2>7. QED
    BY <1>3, <2>2, <2>4, <2>5, <2>6 DEF PausedCovers, new, qq, tt, at
<1>11. CASE e.kind = "UNPAUSE"
  <2>1. /\ qq.in = q.in /\ qq.paused = q.paused + ran /\ qq.done = q.done /\ qq.since = 0
    BY <1>1, <1>11, SessionFields DEF at, ran
  <2> HIDE DEF qq
  <2>2. new = sum
    BY <2>1 DEF sum
  <2> HIDE DEF tt, new
  <2>3. tt.login = t.login /\ tt.paused = t.paused + rest /\ tt.since = 0
    BY <1>6, <1>11
  <2>4. new + qq.paused <= tt.paused
    BY <1>s, <2>1, <2>2, <2>3
  <2>5. QED
    BY <1>3, <1>4, <2>1, <2>2, <2>3, <2>4 DEF PausedCovers, new, qq, tt, at
<1>12. QED
  BY <1>4, <1>8, <1>9, <1>10, <1>11 DEF EventKinds

(* An event adds to the pauses report at least what it adds to the totals, *)
(* or ends there what a login ended for the totals.                        *)
LEMMA PausesCoverStep ==
  ASSUME NEW t \in TotalsAcc, NEW p, NEW now \in Nat \ {0}, NEW e \in Logged_, now <= e.at,
         t.login = 0 => t.since = 0, t.since <= now, PausesCover(t, p, now)
  PROVE  PausesCover(AnalyticsStep(t, e), PauseStep(p, e, {"UNPAUSE", "LOGOUT"}), e.at)
<1> DEFINE tt == AnalyticsStep(t, e)
           pp == PauseStep(p, e, {"UNPAUSE", "LOGOUT"})
           sum == SumLength(p.done)
           new == SumLength(pp.done)
           rest == Ran(t.since, e.at)
           at == e.at
<1>1. /\ p \in PauseAcc /\ p.since \in Nat /\ p.done \in Seq(FromTo) /\ p.since <= now
      /\ sum \in Nat /\ (t.since # 0 => p.since = t.since)
      /\ (t.since # 0 \/ p.since = 0 => t.paused <= sum)
      /\ (t.since = 0 /\ p.since # 0 => t.paused + p.since <= sum + now)
  BY DEF PausesCover, PauseAcc
<1>2. t.paused \in Nat /\ t.since \in Nat /\ t.login \in Nat
  BY DEF TotalsAcc
<1>3. at \in Nat \ {0} /\ e.kind \in EventKinds /\ now \in Nat /\ now <= at
  BY DEF Logged_
<1>4. rest \in Nat /\ rest = IF t.since # 0 THEN at - t.since ELSE 0
  BY <1>2, <1>3, RanIs
<1> HIDE DEF rest, sum, at
<1>5. /\ tt.since = (IF e.kind = "PAUSE" /\ t.login # 0 THEN at ELSE 0)
      /\ tt.paused = t.paused + rest
  BY TotalsFields DEF rest, at
<1>6. /\ pp.since = (IF e.kind = "PAUSE" THEN at
                     ELSE IF e.kind \in {"UNPAUSE", "LOGOUT"} THEN 0 ELSE p.since)
      /\ pp.done = (IF (e.kind = "PAUSE" \/ e.kind \in {"UNPAUSE", "LOGOUT"}) /\ p.since # 0
                   THEN Append(p.done, [from |-> p.since, to |-> at]) ELSE p.done)
  BY <1>1, PauseFields DEF at
<1>7. /\ [from |-> p.since, to |-> at] \in FromTo
      /\ pp = [done |-> pp.done, since |-> pp.since]
  BY <1>1, <1>3 DEF FromTo, PauseStep, PauseAcc
<1> HIDE DEF pp, tt
<1>8. pp \in PauseAcc
  <2>1. Append(p.done, [from |-> p.since, to |-> at]) \in Seq(FromTo)
    BY <1>1, <1>7
  <2>2. pp.done \in Seq(FromTo) /\ pp.since \in Nat
    BY <1>1, <1>3, <1>6, <2>1
  <2>3. QED
    BY <1>7, <2>2 DEF PauseAcc
<1>9. new = IF e.kind # "LOGIN" /\ p.since # 0 THEN sum + (at - p.since) ELSE sum
  <2>1. SumLength(Append(p.done, [from |-> p.since, to |-> at])) = sum + Span(p.since, at)
    BY <1>1, <1>7, LengthAppend DEF sum
  <2>2. Span(p.since, at) = at - p.since
    BY <1>1, <1>3 DEF Span
  <2>3. CASE e.kind # "LOGIN" /\ p.since # 0
    BY <1>3, <1>6, <2>1, <2>2, <2>3 DEF EventKinds
  <2>4. CASE ~(e.kind # "LOGIN" /\ p.since # 0)
    <3>1. pp.done = p.done
      BY <1>6, <2>4
    <3>2. QED
      BY <2>4, <3>1 DEF sum
  <2>5. QED
    BY <2>3, <2>4
<1>10. e.kind # "LOGIN" => e.kind = "PAUSE" \/ e.kind \in {"UNPAUSE", "LOGOUT"}
  BY <1>3 DEF EventKinds
<1> HIDE DEF new
<1>11. /\ new \in Nat /\ pp.since <= at /\ (tt.since # 0 => pp.since = tt.since)
  BY <1>1, <1>3, <1>5, <1>6, <1>9, <1>10
<1>12. CASE e.kind = "LOGIN"
  <2>1. new = sum /\ tt.since = 0 /\ tt.paused = t.paused + rest /\ pp.since = p.since
    BY <1>5, <1>6, <1>9, <1>12
  <2>2. pp.since = 0 => tt.paused <= new
    BY <1>1, <1>2, <1>4, <2>1
  <2>3. pp.since # 0 => tt.paused + pp.since <= new + at
    BY <1>1, <1>2, <1>3, <1>4, <2>1
  <2>4. QED
    BY <1>8, <1>11, <2>1, <2>2, <2>3 DEF PausesCover, new, at, pp, tt
<1>13. CASE e.kind # "LOGIN"
  <2>1. tt.paused = t.paused + rest /\ new = IF p.since # 0 THEN sum + (at - p.since) ELSE sum
    BY <1>5, <1>9, <1>13
  <2>2. tt.paused <= new
    <3>0. t.paused \in Nat /\ t.since \in Nat /\ sum \in Nat /\ p.since \in Nat /\ at \in Nat
          /\ now \in Nat /\ now <= at /\ p.since <= now
      BY <1>1, <1>2, <1>3
    <3>1. CASE t.since # 0
      <4>1. rest = at - t.since /\ p.since = t.since /\ t.paused <= sum
        BY <1>1, <1>4, <3>1
      <4>2. new = sum + (at - t.since) /\ tt.paused = t.paused + (at - t.since)
        BY <2>1, <3>1, <4>1
      <4>3. QED
        BY <3>0, <4>1, <4>2
    <3>2. CASE t.since = 0 /\ p.since = 0
      <4>1. rest = 0 /\ t.paused <= sum
        BY <1>1, <1>4, <3>2
      <4>2. QED
        BY <2>1, <3>0, <3>2, <4>1
    <3>3. CASE t.since = 0 /\ p.since # 0
      <4>1. rest = 0 /\ t.paused + p.since <= sum + now
        BY <1>1, <1>4, <3>3
      <4>2. new = sum + (at - p.since) /\ tt.paused = t.paused
        BY <2>1, <3>0, <3>3, <4>1
      <4>3. QED
        BY <3>0, <4>1, <4>2
    <3>4. QED
      BY <3>1, <3>2, <3>3
  <2>3. tt.paused + pp.since <= new + at
    <3>1. pp.since \in Nat /\ pp.since <= at /\ new \in Nat /\ at \in Nat
      BY <1>3, <1>8, <1>11 DEF PauseAcc
    <3>2. tt.paused \in Nat
      BY <1>2, <1>4, <2>1
    <3>3. QED
      BY <2>2, <3>1, <3>2
  <2>4. QED
    BY <1>8, <1>11, <2>2, <2>3 DEF PausesCover, new, at, pp, tt
<1>14. QED
  BY <1>12, <1>13

(* An event keeps the number of pauses the same in both pause reports.     *)
LEMMA SameCountStep ==
  ASSUME NEW u, NEW p, NEW e \in Logged_, SameCount(u, p)
  PROVE  SameCount(PauseStep(u, e, {"UNPAUSE"}), PauseStep(p, e, {"UNPAUSE", "LOGOUT"}))
<1>1. ASSUME NEW x \in PauseAcc, NEW ends, "PAUSE" \notin ends
      PROVE  /\ PauseStep(x, e, ends) \in PauseAcc
             /\ Listed(PauseStep(x, e, ends)) =
                  IF e.kind = "PAUSE" THEN Listed(x) + 1 ELSE Listed(x)
  <2> DEFINE y == PauseStep(x, e, ends)
             new == [from |-> x.since, to |-> e.at]
  <2>1. x.since \in Nat /\ x.done \in Seq(FromTo) /\ e.at \in Nat \ {0} /\ Len(x.done) \in Nat
    BY <1>1 DEF PauseAcc, Logged_
  <2>2. new \in FromTo
    BY <2>1 DEF FromTo
  <2>3. /\ y.since = (IF e.kind = "PAUSE" THEN e.at ELSE IF e.kind \in ends THEN 0 ELSE x.since)
        /\ y.done = (IF (e.kind = "PAUSE" \/ e.kind \in ends) /\ x.since # 0
                       THEN Append(x.done, new) ELSE x.done)
    BY <1>1, PauseFields
  <2>4. y = [done |-> y.done, since |-> y.since]
    BY <1>1 DEF PauseStep, PauseAcc
  <2> HIDE DEF y, new
  <2>5. Append(x.done, new) \in Seq(FromTo) /\ Len(Append(x.done, new)) = Len(x.done) + 1
    BY <2>1, <2>2
  <2>6. y.done \in Seq(FromTo) /\ y.since \in Nat
    BY <2>1, <2>3, <2>5
  <2>7. y \in PauseAcc
    BY <2>4, <2>6 DEF PauseAcc
  <2>8. Listed(y) = IF e.kind = "PAUSE" THEN Listed(x) + 1 ELSE Listed(x)
    <3>1. CASE e.kind = "PAUSE"
      <4>0. y.since # 0 /\ y.done = IF x.since # 0 THEN Append(x.done, new) ELSE x.done
        BY <2>1, <2>3, <3>1
      <4>1. Len(y.done) = Listed(x)
        <5>1. CASE x.since # 0
          BY <2>5, <4>0, <5>1 DEF Listed
        <5>2. CASE x.since = 0
          BY <2>1, <4>0, <5>2 DEF Listed
        <5>3. QED
          BY <5>1, <5>2
      <4>2. QED
        BY <3>1, <4>0, <4>1 DEF Listed
    <3>2. CASE e.kind # "PAUSE" /\ e.kind \in ends
      <4>0. y.since = 0 /\ y.done = IF x.since # 0 THEN Append(x.done, new) ELSE x.done
        BY <2>1, <2>3, <3>2
      <4>1. Len(y.done) = Listed(x)
        <5>1. CASE x.since # 0
          BY <2>5, <4>0, <5>1 DEF Listed
        <5>2. CASE x.since = 0
          BY <2>1, <4>0, <5>2 DEF Listed
        <5>3. QED
          BY <5>1, <5>2
      <4>2. Len(y.done) \in Nat
        BY <2>6
      <4>3. Listed(y) = Len(y.done)
        BY <4>0, <4>2 DEF Listed
      <4>4. QED
        BY <3>2, <4>1, <4>3
    <3>3. CASE e.kind # "PAUSE" /\ e.kind \notin ends
      BY <2>1, <2>3, <2>5, <3>3 DEF Listed
    <3>4. QED
      BY <3>1, <3>2, <3>3
  <2>9. QED
    BY <2>7, <2>8 DEF y
<1>2. u \in PauseAcc /\ p \in PauseAcc /\ Listed(u) = Listed(p)
  BY DEF SameCount
<1>3. "PAUSE" \notin {"UNPAUSE"} /\ "PAUSE" \notin {"UNPAUSE", "LOGOUT"}
  OBVIOUS
<1>4. QED
  BY <1>1, <1>2, <1>3 DEF SameCount

-----------------------------------------------------------------------------
(* Event by event.                                                         *)

Together(q, s, t, p, u, now) ==
  /\ SessionsFit(q, now) /\ SameSessions(q, s) /\ SameOnline(q, s, t)
  /\ PausedCovers(q, t, now) /\ PausesCover(t, p, now) /\ SameCount(u, p)

AllStart == [done |-> <<>>, in |-> 0, total |-> 0]
TotalsStart == [online |-> 0, paused |-> 0, login |-> 0, since |-> 0]
PauseStart == [done |-> <<>>, since |-> 0]

(* The readers start together,                                             *)
LEMMA TogetherStart ==
  Together(NoSession, AllStart, TotalsStart, PauseStart, PauseStart, 1)
<1>1. SessionsFit(NoSession, 1)
  BY DEF SessionsFit, SessionAcc, NoSession
<1>2. SameSessions(NoSession, AllStart)
  BY DEF SameSessions, SameRows, NoSession, AllStart, AllAcc
<1>3. AllDone(<<>>) = <<>>
  BY DEF AllDone
<1>4. <<>> \in Seq({[online |-> 0, paused |-> 0, from |-> 0, to |-> 0]})
  OBVIOUS
<1>5. SumOnline(<<>>) = 0 /\ SumPaused(<<>>) = 0 /\ SumLength(<<>>) = 0
  BY <1>4, OnlineAppend, PausedAppend, LengthAppend
<1>6. SameOnline(NoSession, AllStart, TotalsStart)
  BY <1>3, <1>5 DEF SameOnline, NoSession, AllStart, TotalsStart, TotalsAcc
<1>7. PausedCovers(NoSession, TotalsStart, 1)
  BY <1>3, <1>5 DEF PausedCovers, NoSession, TotalsStart
<1>8. PausesCover(TotalsStart, PauseStart, 1)
  BY <1>5 DEF PausesCover, TotalsStart, PauseStart, PauseAcc
<1>9. SameCount(PauseStart, PauseStart)
  BY DEF SameCount, PauseStart, PauseAcc
<1>10. QED
  BY <1>1, <1>2, <1>6, <1>7, <1>8, <1>9 DEF Together

(* stay together with every event,                                         *)
LEMMA TogetherStep ==
  ASSUME NEW q, NEW s, NEW t, NEW p, NEW u, NEW now \in Nat \ {0}, NEW e \in Logged_,
         now <= e.at, Together(q, s, t, p, u, now)
  PROVE  Together(SessionStep(q, e), AllStep(s, e), AnalyticsStep(t, e),
                  PauseStep(p, e, {"UNPAUSE", "LOGOUT"}), PauseStep(u, e, {"UNPAUSE"}), e.at)
<1>1. SessionsFit(q, now) /\ SameSessions(q, s) /\ SameOnline(q, s, t)
      /\ PausedCovers(q, t, now) /\ PausesCover(t, p, now) /\ SameCount(u, p)
  BY DEF Together
<1>2. q \in SessionAcc /\ (q.in = 0 => q.since = 0) /\ t \in TotalsAcc /\ t.login = q.in
      /\ (t.login = 0 => t.since = 0) /\ t.since <= now
  BY <1>1 DEF SessionsFit, SameOnline, PausedCovers
<1>3. SessionsFit(SessionStep(q, e), e.at)
  BY <1>1, SessionStepFits
<1>4. SameSessions(SessionStep(q, e), AllStep(s, e))
  BY <1>1, <1>2, SameSessionsStep
<1>5. SameOnline(SessionStep(q, e), AllStep(s, e), AnalyticsStep(t, e))
  BY <1>1, <1>2, SameOnlineStep
<1>6. PausedCovers(SessionStep(q, e), AnalyticsStep(t, e), e.at)
  BY <1>1, <1>2, PausedCoversStep
<1>7. PausesCover(AnalyticsStep(t, e), PauseStep(p, e, {"UNPAUSE", "LOGOUT"}), e.at)
  BY <1>1, <1>2, PausesCoverStep
<1>8. SameCount(PauseStep(u, e, {"UNPAUSE"}), PauseStep(p, e, {"UNPAUSE", "LOGOUT"}))
  BY <1>1, SameCountStep
<1>9. QED
  BY <1>3, <1>4, <1>5, <1>6, <1>7, <1>8 DEF Together

(* and as time passes.                                                     *)
LEMMA TogetherLater ==
  ASSUME NEW q, NEW s, NEW t, NEW p, NEW u, NEW now \in Nat, NEW later \in Nat,
         now <= later, Together(q, s, t, p, u, now)
  PROVE  Together(q, s, t, p, u, later)
<1>1. SessionsFit(q, later)
  BY FitsLater DEF Together
<1>2. PausedCovers(q, t, later)
  <2>1. t \in TotalsAcc /\ t.since \in Nat /\ t.since <= now
    BY DEF Together, SameOnline, TotalsAcc, PausedCovers
  <2>2. t.since <= later
    BY <2>1
  <2>3. QED
    BY <2>2 DEF Together, PausedCovers
<1>3. PausesCover(t, p, later)
  <2>1. /\ p \in PauseAcc /\ p.since \in Nat /\ p.since <= now /\ SumLength(p.done) \in Nat
        /\ t.paused \in Nat
    BY DEF Together, SameOnline, TotalsAcc, PausesCover, PauseAcc
  <2>2. p.since <= later
    BY <2>1
  <2>3. t.since = 0 /\ p.since # 0 => t.paused + p.since <= SumLength(p.done) + later
    <3>1. t.since = 0 /\ p.since # 0 => t.paused + p.since <= SumLength(p.done) + now
      BY DEF Together, PausesCover
    <3>2. QED
      BY <2>1, <3>1
  <2>4. QED
    BY <2>2, <2>3 DEF Together, PausesCover
<1>4. QED
  BY <1>1, <1>2, <1>3 DEF Together

(* A report without a window picks every event.                            *)
LEMMA WithinWhole ==
  ASSUME NEW s \in Seq(Logged_)
  PROVE  Within(s, Whole) = s
<1> DEFINE n == Len(s)
           r == WithinFold(Whole, <<>>, s)
<1>1. n \in Nat /\ DOMAIN s = 1 .. n /\ \A i \in 1 .. n : s[i] \in Logged_
  OBVIOUS
<1>2. PICK a : Run(a, "within", Whole, s, <<>>, n, r)
  BY <1>1, WithinSteps
<1>3. Within(s, Whole) = r
  BY DEF Within, WithinFold
<1> HIDE DEF n, r
<1> DEFINE KeptAll(b, k) == b \in Seq(Logged_) /\ Len(b) = k /\ \A i \in 1 .. k : b[i] = s[i]
           T == {k \in Nat : k <= n => KeptAll(a[k], k)}
<1>4. 0 \in T
  <2>1. a[0] = <<>>
    BY <1>2 DEF Run
  <2>2. <<>> \in Seq(Logged_) /\ Len(<<>>) = 0 /\ 1 .. 0 = {}
    OBVIOUS
  <2>3. KeptAll(a[0], 0)
    BY <2>1, <2>2
  <2>4. QED
    BY <2>3
<1>5. ASSUME NEW k \in T PROVE k + 1 \in T
  <2>1. SUFFICES ASSUME k + 1 <= n PROVE KeptAll(a[k + 1], k + 1)
    OBVIOUS
  <2>2. k \in 0 .. n - 1 /\ KeptAll(a[k], k) /\ s[k + 1] \in Logged_ /\ k \in Nat
    BY <1>1, <2>1
  <2>3. a[k + 1] = Picked(a[k], s[k + 1], Whole)
    BY <1>2, <2>2 DEF Run, Step
  <2>4. a[k + 1] = Append(a[k], s[k + 1])
    BY <2>2, <2>3 DEF Picked, InWindow, Whole, Logged_
  <2>5. QED
    BY <2>2, <2>4
<1> HIDE DEF T
<1>6. T = Nat
  <2>1. T \in SUBSET Nat
    BY DEF T
  <2>2. QED
    BY <1>4, <1>5, <2>1, Induction
<1>7. KeptAll(a[n], n)
  BY <1>1, <1>6 DEF T
<1>8. a[n] = r
  BY <1>2 DEF Run
<1>9. KeptAll(r, n)
  BY <1>7, <1>8
<1>10. r = s
  <2>1. r \in Seq(Logged_) /\ s \in Seq(Logged_) /\ Len(r) = Len(s)
        /\ \A i \in 1 .. Len(s) : r[i] = s[i]
    BY <1>9 DEF n
  <2>2. QED
    BY <2>1
<1>11. QED
  BY <1>3, <1>10

(* So they are together at the end.                                        *)
LEMMA FoldsTogether ==
  ASSUME NEW now \in Nat \ {0}, NEW s, Good(s, now)
  PROVE  Together(FoldLeft(SessionStep, NoSession, s), FoldLeft(AllStep, AllStart, s),
                  FoldLeft(AnalyticsStep, TotalsStart, s),
                  PauseFold({"UNPAUSE", "LOGOUT"}, PauseStart, s),
                  PauseFold({"UNPAUSE"}, PauseStart, s), now)
<1> DEFINE n == Len(s)
           fq == FoldLeft(SessionStep, NoSession, s)
           fs == FoldLeft(AllStep, AllStart, s)
           ft == FoldLeft(AnalyticsStep, TotalsStart, s)
           fp == PauseFold({"UNPAUSE", "LOGOUT"}, PauseStart, s)
           fu == PauseFold({"UNPAUSE"}, PauseStart, s)
<1>1. s \in Seq(Logged_) /\ n \in Nat /\ DOMAIN s = 1 .. n
  BY DEF Good
<1>2. PICK a : Run(a, "sessions", 0, s, NoSession, n, fq)
  BY <1>1, SessionSteps
<1>3. PICK b : Run(b, "all", 0, s, AllStart, n, fs)
  BY <1>1, AllSteps
<1>4. PICK c : Run(c, "totals", 0, s, TotalsStart, n, ft)
  BY <1>1, TotalSteps
<1>5. PICK d : Run(d, "pauses", {"UNPAUSE", "LOGOUT"}, s, PauseStart, n, fp)
  BY <1>1, PauseSteps
<1>6. PICK f : Run(f, "pauses", {"UNPAUSE"}, s, PauseStart, n, fu)
  BY <1>1, PauseSteps
<1> HIDE DEF n, fq, fs, ft, fp, fu
<1> DEFINE T == {k \in Nat : k <= n => Together(a[k], b[k], c[k], d[k], f[k], LastOf(s, k))}
<1>7. 0 \in T
  BY <1>2, <1>3, <1>4, <1>5, <1>6, TogetherStart DEF Run, LastOf
<1>8. ASSUME NEW k \in T PROVE k + 1 \in T
  <2>1. SUFFICES ASSUME k + 1 <= n
                 PROVE  Together(a[k + 1], b[k + 1], c[k + 1], d[k + 1], f[k + 1], LastOf(s, k + 1))
    OBVIOUS
  <2>2. k \in 0 .. n - 1 /\ Together(a[k], b[k], c[k], d[k], f[k], LastOf(s, k))
    BY <1>1, <2>1
  <2>3. /\ a[k + 1] = SessionStep(a[k], s[k + 1])
        /\ b[k + 1] = AllStep(b[k], s[k + 1])
        /\ c[k + 1] = AnalyticsStep(c[k], s[k + 1])
    BY <1>2, <1>3, <1>4, <2>2 DEF Run, Step
  <2>4. /\ d[k + 1] = PauseStep(d[k], s[k + 1], {"UNPAUSE", "LOGOUT"})
        /\ f[k + 1] = PauseStep(f[k], s[k + 1], {"UNPAUSE"})
    BY <1>5, <1>6, <2>2 DEF Run, Step
  <2>5. /\ s[k + 1] \in Logged_ /\ LastOf(s, k) \in Nat \ {0}
        /\ LastOf(s, k) <= s[k + 1].at /\ LastOf(s, k + 1) = s[k + 1].at
    BY <2>2, LastIs DEF n
  <2>6. QED
    BY <2>2, <2>3, <2>4, <2>5, TogetherStep
<1> HIDE DEF T
<1>9. T = Nat
  <2>1. T \in SUBSET Nat
    BY DEF T
  <2>2. QED
    BY <1>7, <1>8, <2>1, Induction
<1>10. Together(a[n], b[n], c[n], d[n], f[n], LastOf(s, n))
  BY <1>1, <1>9 DEF T
<1>11. Together(fq, fs, ft, fp, fu, LastOf(s, n))
  BY <1>2, <1>3, <1>4, <1>5, <1>6, <1>10 DEF Run
<1>12. LastOf(s, n) \in Nat /\ LastOf(s, n) <= now
  <2>1. n # 0 => n \in DOMAIN s
    BY <1>1
  <2>2. n # 0 => s[n].at <= now /\ s[n] \in Logged_
    BY <1>1, <2>1 DEF Good
  <2>3. QED
    BY <2>2 DEF LastOf, Logged_
<1>13. QED
  BY <1>11, <1>12, TogetherLater DEF fq, fs, ft, fp, fu

-----------------------------------------------------------------------------
(* The reports.                                                            *)

(* What the five reports are, of the folds.                                *)
LEMMA ReportsAre ==
  ASSUME NEW now \in Nat \ {0}, NEW s \in Seq(Logged_), NEW type
  PROVE  LET fs == FoldLeft(AllStep, AllStart, s)
             ft == FoldLeft(AnalyticsStep, TotalsStart, s)
             fp == PauseFold({"UNPAUSE", "LOGOUT"}, PauseStart, s)
             fu == PauseFold({"UNPAUSE"}, PauseStart, s)
         IN  /\ get_queue_sessions(s, Whole, now) = QueueSessionsWhole(s, now)
             /\ type # "STATIC" =>
                  /\ get_all_agent_sessions(s, Whole, type, now) =
                       IF fs.in = 0 THEN [sessions |-> fs.done, total |-> fs.total]
                       ELSE [sessions |-> Append(fs.done, [in |-> fs.in, out |-> 0]),
                             total |-> fs.total + Span(fs.in, now)]
                  /\ get_agent_analytics(s, Whole, type, now).online =
                       ft.online + IF ft.login # 0 THEN Span(ft.login, now) ELSE 0
                  /\ get_agent_analytics(s, Whole, type, now).paused =
                       ft.paused + IF ft.since # 0 THEN Span(ft.since, now) ELSE 0
             /\ get_queue_pauses(s, Whole, now) =
                  IF fu.since = 0 THEN fu.done
                  ELSE Append(fu.done, [from |-> fu.since, to |-> 0])
             /\ get_all_agent_pauses(s, Whole, type, now) =
                  IF fp.since = 0 THEN [pauses |-> fp.done, total |-> SumLength(fp.done)]
                  ELSE [pauses |-> Append(fp.done, [from |-> fp.since, to |-> 0]),
                        total |-> SumLength(fp.done) + Span(fp.since, now)]
<1>1. Within(s, Whole) = s /\ <<>> \o Within(s, Whole) = s
  BY WithinWhole
<1>2. Whole.from = 0 /\ EndOf(Whole, now) = now
  BY DEF Whole, EndOf
<1>3. get_queue_sessions(s, Whole, now) = QueueSessionsWhole(s, now)
  BY DEF get_queue_sessions
<1>4. LET fs == FoldLeft(AllStep, AllStart, s)
      IN  type # "STATIC" =>
            get_all_agent_sessions(s, Whole, type, now) =
                  IF fs.in = 0 THEN [sessions |-> fs.done, total |-> fs.total]
                  ELSE [sessions |-> Append(fs.done, [in |-> fs.in, out |-> 0]),
                        total |-> fs.total + Span(fs.in, now)]
  BY <1>1, <1>2 DEF get_all_agent_sessions, AllStart
<1>5. AnalyticsStart(s, Whole) = TotalsStart
  BY <1>2 DEF AnalyticsStart, TotalsStart, Inside
<1>6. LET ft == FoldLeft(AnalyticsStep, TotalsStart, s)
      IN  type # "STATIC" =>
          /\ get_agent_analytics(s, Whole, type, now).online =
                  ft.online + IF ft.login # 0 THEN Span(ft.login, now) ELSE 0
          /\ get_agent_analytics(s, Whole, type, now).paused =
                  ft.paused + IF ft.since # 0 THEN Span(ft.since, now) ELSE 0
  BY <1>1, <1>2, <1>5 DEF get_agent_analytics
<1>7. \A ends : Pauses(s, ends) = PauseFold(ends, PauseStart, s)
  BY DEF Pauses, PauseFold, PauseStart
<1>8. LET fu == PauseFold({"UNPAUSE"}, PauseStart, s)
      IN  get_queue_pauses(s, Whole, now) =
                  IF fu.since = 0 THEN fu.done
                  ELSE Append(fu.done, [from |-> fu.since, to |-> 0])
  BY <1>7 DEF get_queue_pauses
<1>9. LET fp == PauseFold({"UNPAUSE", "LOGOUT"}, PauseStart, s)
      IN  get_all_agent_pauses(s, Whole, type, now) =
                  IF fp.since = 0 THEN [pauses |-> fp.done, total |-> SumLength(fp.done)]
                  ELSE [pauses |-> Append(fp.done, [from |-> fp.since, to |-> 0]),
                        total |-> SumLength(fp.done) + Span(fp.since, now)]
  BY <1>1, <1>2, <1>7 DEF get_all_agent_pauses, SumOf, SumLength
<1>10. QED
  BY <1>3, <1>4, <1>6, <1>8, <1>9

(* get_queue_sessions keeps the rows.                                      *)
LEMMA AllRows ==
  ASSUME NEW d \in Seq(Closed_), NEW f \in Seq(InOut), SameRows(d, f)
  PROVE  AllDone(d) \in Seq(Session_) /\ SameRows(AllDone(d), f)
<1>1. \A y \in Closed_ : AllOf(y) \in Session_ /\ AllOf(y).in = y.in /\ AllOf(y).out = y.out
  BY DEF Closed_, AllOf, Session_, Span
<1>2. \A i \in DOMAIN d : d[i] \in Closed_
  OBVIOUS
<1>3. AllDone(d) \in Seq(Session_) /\ Len(AllDone(d)) = Len(d) /\ DOMAIN AllDone(d) = DOMAIN d
      /\ \A i \in DOMAIN d : AllDone(d)[i] = AllOf(d[i])
  BY <1>1, <1>2 DEF AllDone
<1>4. QED
  BY <1>1, <1>2, <1>3 DEF SameRows

Rows(s) == [i \in DOMAIN s |-> <<s[i].in, s[i].out>>]

(* The same rows, as pairs.                                                *)
LEMMA RowsAgree ==
  ASSUME NEW S, NEW R, NEW d \in Seq(S), NEW f \in Seq(R), SameRows(d, f)
  PROVE  Rows(d) = Rows(f)
<1>1. DOMAIN d = DOMAIN f /\ \A i \in DOMAIN d : f[i].in = d[i].in /\ f[i].out = d[i].out
  BY DEF SameRows
<1>2. QED
  BY <1>1 DEF Rows

(* ReportsAgree, of one agent.                                             *)
Agreed(evs, type, now) ==
  LET q == get_queue_sessions(evs, Whole, now)
      s == get_all_agent_sessions(evs, Whole, type, now)
      t == get_agent_analytics(evs, Whole, type, now)
      p == get_all_agent_pauses(evs, Whole, type, now)
  IN  /\ type # "STATIC" =>
           /\ Rows(q) = Rows(s.sessions)
           /\ s.total <= t.online
           /\ t.online = SumOnline(q)
           /\ SumPaused(q) <= t.paused /\ t.paused <= p.total
      /\ SumPaused(q) <= p.total
      /\ Len(get_queue_pauses(evs, Whole, now)) = Len(p.pauses)

(* The reports of one agent agree.                                         *)
LEMMA ReportsOfDynamic ==
  ASSUME NEW now \in Nat \ {0}, NEW evs, Good(evs, now)
  PROVE  Agreed(evs, "DYNAMIC", now)
<1> DEFINE fq == FoldLeft(SessionStep, NoSession, evs)
           fs == FoldLeft(AllStep, AllStart, evs)
           ft == FoldLeft(AnalyticsStep, TotalsStart, evs)
           fp == PauseFold({"UNPAUSE", "LOGOUT"}, PauseStart, evs)
           fu == PauseFold({"UNPAUSE"}, PauseStart, evs)
           q == get_queue_sessions(evs, Whole, now)
           s == get_all_agent_sessions(evs, Whole, "DYNAMIC", now)
           t == get_agent_analytics(evs, Whole, "DYNAMIC", now)
           p == get_all_agent_pauses(evs, Whole, "DYNAMIC", now)
           u == get_queue_pauses(evs, Whole, now)
<1>1. Together(fq, fs, ft, fp, fu, now)
  BY FoldsTogether
<1>2. evs \in Seq(Logged_)
  BY DEF Good
<1>3. q = IF fq.in = 0 THEN AllDone(fq.done) ELSE Append(AllDone(fq.done), OpenOf(fq, now))
  BY <1>2, ReportsAre, WholeIs
<1>4. s = IF fs.in = 0 THEN [sessions |-> fs.done, total |-> fs.total]
          ELSE [sessions |-> Append(fs.done, [in |-> fs.in, out |-> 0]),
                total |-> fs.total + Span(fs.in, now)]
  BY <1>2, ReportsAre
<1>5. /\ t.online = ft.online + Ran(ft.login, now)
      /\ t.paused = ft.paused + Ran(ft.since, now)
  BY <1>2, ReportsAre DEF Ran
<1>6. u = IF fu.since = 0 THEN fu.done ELSE Append(fu.done, [from |-> fu.since, to |-> 0])
  BY <1>2, ReportsAre
<1>7. p = IF fp.since = 0 THEN [pauses |-> fp.done, total |-> SumLength(fp.done)]
          ELSE [pauses |-> Append(fp.done, [from |-> fp.since, to |-> 0]),
                total |-> SumLength(fp.done) + Span(fp.since, now)]
  BY <1>2, ReportsAre
<1> HIDE DEF fq, fs, ft, fp, fu, q, s, t, p, u
<1>8. /\ fq \in SessionAcc /\ fq.done \in Seq(Closed_) /\ fq.in \in Nat /\ fq.since \in Nat
      /\ fq.paused \in Nat /\ (fq.in = 0 => fq.since = 0) /\ fq.in <= now
  BY <1>1 DEF Together, SessionsFit, SessionAcc
<1>9. /\ fs.done \in Seq(InOut) /\ fs.in = fq.in /\ fs.total \in Nat /\ SameRows(fq.done, fs.done)
  BY <1>1 DEF Together, SameSessions, AllAcc
<1>10. /\ ft.login = fq.in /\ ft.since \in Nat /\ ft.online \in Nat /\ ft.paused \in Nat
       /\ fs.total <= ft.online /\ ft.online = SumOnline(AllDone(fq.done))
  BY <1>1 DEF Together, SameOnline, TotalsAcc
<1>11. /\ SumPaused(AllDone(fq.done)) \in Nat /\ (fq.since = 0 <=> ft.since = 0)
       /\ fq.since <= ft.since /\ ft.since <= now
       /\ (fq.since = 0 => SumPaused(AllDone(fq.done)) + fq.paused <= ft.paused)
       /\ (fq.since # 0 => SumPaused(AllDone(fq.done)) + fq.paused + ft.since <= ft.paused + fq.since)
  BY <1>1 DEF Together, PausedCovers
<1>12. /\ fp.done \in Seq(FromTo) /\ fp.since \in Nat /\ fp.since <= now /\ SumLength(fp.done) \in Nat
       /\ (ft.since # 0 => fp.since = ft.since)
       /\ (ft.since # 0 \/ fp.since = 0 => ft.paused <= SumLength(fp.done))
       /\ (ft.since = 0 /\ fp.since # 0 => ft.paused + fp.since <= SumLength(fp.done) + now)
  BY <1>1 DEF Together, PausesCover, PauseAcc
<1>13. AllDone(fq.done) \in Seq(Session_) /\ SameRows(AllDone(fq.done), fs.done)
  BY <1>8, <1>9, AllRows
<1>14. fq.in # 0 => /\ OpenOf(fq, now) \in Session_ /\ OpenOf(fq, now).in = fq.in
                    /\ OpenOf(fq, now).out = 0 /\ OpenOf(fq, now).online = Ran(fq.in, now)
                    /\ OpenOf(fq, now).paused = fq.paused + Ran(fq.since, now)
  BY <1>8 DEF OpenOf, Session_, Span, Ran
<1>15. Rows(q) = Rows(s.sessions)
  <2>1. CASE fq.in = 0
    BY <1>3, <1>4, <1>9, <1>13, <2>1, RowsAgree
  <2>2. CASE fq.in # 0
    <3> DEFINE x == OpenOf(fq, now)
               y == [in |-> fs.in, out |-> 0]
               d == AllDone(fq.done)
    <3>1. x \in Session_ /\ y \in InOut /\ x.in = y.in /\ x.out = y.out
      BY <1>8, <1>9, <1>14, <2>2 DEF InOut
    <3>2. q = Append(d, x) /\ s.sessions = Append(fs.done, y)
      BY <1>3, <1>4, <1>9, <2>2
    <3>3. d \in Seq(Session_) /\ SameRows(d, fs.done)
      BY <1>13
    <3> HIDE DEF x, y, d
    <3>4. SameRows(Append(d, x), Append(fs.done, y))
      BY <1>9, <3>1, <3>3, SameRowsAppend
    <3>5. Append(d, x) \in Seq(Session_) /\ Append(fs.done, y) \in Seq(InOut)
      BY <1>9, <3>1, <3>3
    <3> DEFINE dd == Append(d, x)
               ff == Append(fs.done, y)
    <3>6. dd \in Seq(Session_) /\ ff \in Seq(InOut) /\ SameRows(dd, ff)
      BY <3>4, <3>5
    <3>7. q = dd /\ s.sessions = ff
      BY <3>2
    <3> HIDE DEF dd, ff
    <3>8. Rows(dd) = Rows(ff)
      BY <3>6, RowsAgree
    <3>9. QED
      BY <3>7, <3>8
  <2>3. QED
    BY <2>1, <2>2
<1>16. s.total = fs.total + Ran(fs.in, now)
  BY <1>4, <1>9 DEF Ran
<1>17. Ran(fq.in, now) \in Nat /\ Ran(fq.since, now) \in Nat
  BY <1>8 DEF Ran, Span
<1>18. s.total <= t.online
  BY <1>5, <1>9, <1>10, <1>16, <1>17
<1>19. t.online = SumOnline(q)
  <2>1. CASE fq.in = 0
    BY <1>3, <1>5, <1>10, <2>1 DEF Ran
  <2>2. CASE fq.in # 0
    <3>1. SumOnline(q) = SumOnline(AllDone(fq.done)) + OpenOf(fq, now).online
      BY <1>3, <1>13, <1>14, <2>2, OnlineAppend
    <3>2. QED
      BY <1>5, <1>10, <1>14, <2>2, <3>1
  <2>3. QED
    BY <2>1, <2>2
<1>20. SumPaused(q) <= t.paused
  <2> DEFINE sum == SumPaused(AllDone(fq.done))
             rest == Ran(ft.since, now)
             ran == Ran(fq.since, now)
  <2>0. now \in Nat
    OBVIOUS
  <2>1. fq.in # 0 => SumPaused(q) = sum + (fq.paused + ran)
    BY <1>3, <1>13, <1>14, PausedAppend
  <2>2. fq.in = 0 => SumPaused(q) = sum
    BY <1>3
  <2>3. sum + (fq.paused + ran) <= ft.paused + rest
    <3>1. CASE fq.since = 0
      <4>1. ran = 0 /\ rest = 0 /\ sum + fq.paused <= ft.paused
        BY <1>11, <3>1 DEF Ran
      <4>2. QED
        BY <1>8, <1>10, <1>11, <4>1
    <3>2. CASE fq.since # 0
      <4>1. fq.since <= now
        BY <1>8, <1>10, <1>11, <2>0
      <4>2. ran = now - fq.since /\ rest = now - ft.since
        BY <1>8, <1>10, <1>11, <2>0, <3>2, <4>1, RanIs
      <4>3. sum + fq.paused + ft.since <= ft.paused + fq.since
        BY <1>11, <3>2
      <4>4. sum \in Nat
        BY <1>11
      <4> HIDE DEF sum, ran, rest
      <4>5. sum + (fq.paused + (now - fq.since)) <= ft.paused + (now - ft.since)
        BY <1>8, <1>10, <2>0, <4>3, <4>4, PausedCoversSum
      <4>6. QED
        BY <4>2, <4>5
    <3>3. QED
      BY <3>1, <3>2
  <2>4. sum \in Nat /\ ran \in Nat
    BY <1>11, <1>17
  <2> HIDE DEF sum, ran, rest
  <2>5. sum <= sum + (fq.paused + ran) /\ ft.paused + rest = t.paused
    BY <1>5, <1>8, <2>4 DEF rest
  <2>6. CASE fq.in # 0
    BY <2>1, <2>3, <2>5, <2>6
  <2>7. CASE fq.in = 0
    <3>1. fq.since = 0 /\ ft.since = 0
      BY <1>8, <1>11, <2>7
    <3>2. rest = 0
      BY <3>1 DEF rest, Ran
    <3>3. sum + fq.paused <= ft.paused
      BY <1>11, <3>1 DEF sum
    <3>4. t.paused = ft.paused
      BY <1>5, <1>10, <3>1 DEF Ran
    <3>5. QED
      BY <1>8, <1>10, <2>2, <2>4, <2>7, <3>3, <3>4
  <2>8. QED
    BY <2>6, <2>7
<1>21. t.paused <= p.total
  <2> DEFINE sum == SumLength(fp.done)
             rest == Ran(ft.since, now)
             more == Ran(fp.since, now)
  <2>0. now \in Nat
    OBVIOUS
  <2>1. p.total = sum + more
    BY <1>7, <1>12 DEF Ran
  <2>2. rest \in Nat /\ rest = IF ft.since # 0 THEN now - ft.since ELSE 0
    BY <1>10, <1>11, <2>0, RanIs
  <2>3. more \in Nat /\ more = IF fp.since # 0 THEN now - fp.since ELSE 0
    BY <1>12, <2>0, RanIs
  <2>4. sum \in Nat
    BY <1>12
  <2>5. CASE ft.since # 0
    <3>1. more = rest /\ ft.paused <= sum
      BY <1>12, <2>5
    <3> HIDE DEF sum, rest, more
    <3>2. QED
      BY <1>10, <2>1, <2>2, <2>4, <3>1, <1>5 DEF rest
  <2>6. CASE ft.since = 0
    <3>1. rest = 0
      BY <2>6 DEF Ran
    <3>2. t.paused = ft.paused
      BY <1>5, <1>10, <3>1
    <3>3. CASE fp.since = 0
      BY <1>10, <1>12, <2>1, <2>3, <2>4, <3>2, <3>3
    <3>4. CASE fp.since # 0
      <4>1. ft.paused + fp.since <= sum + now /\ more = now - fp.since
        BY <1>12, <2>3, <2>6, <3>4
      <4> HIDE DEF sum, rest, more
      <4>2. ft.paused <= sum + more
        <5>1. ft.paused \in Nat /\ fp.since \in Nat /\ sum \in Nat
          BY <1>10, <1>12, <2>4
        <5>2. QED
          BY <2>0, <4>1, <5>1
      <4>3. QED
        BY <2>1, <3>2, <4>2
    <3>5. QED
      BY <3>3, <3>4
  <2>7. QED
    BY <2>5, <2>6
<1>22. Len(u) = Len(p.pauses)
  <2>1. fu \in PauseAcc /\ fp \in PauseAcc /\ Listed(fu) = Listed(fp)
    BY <1>1 DEF Together, SameCount
  <2>2. ASSUME NEW x \in PauseAcc
        PROVE  Len(IF x.since = 0 THEN x.done ELSE Append(x.done, [from |-> x.since, to |-> 0]))
                 = Listed(x)
    <3>1. x.done \in Seq(FromTo) /\ x.since \in Nat
      BY DEF PauseAcc
    <3>2. [from |-> x.since, to |-> 0] \in FromTo /\ Len(x.done) \in Nat
      BY <3>1 DEF FromTo
    <3>3. Len(Append(x.done, [from |-> x.since, to |-> 0])) = Len(x.done) + 1
      BY <3>1, <3>2
    <3>4. CASE x.since = 0
      BY <3>2, <3>4 DEF Listed
    <3>5. CASE x.since # 0
      BY <3>3, <3>5 DEF Listed
    <3>6. QED
      BY <3>4, <3>5
  <2>3. p.pauses = IF fp.since = 0 THEN fp.done
                   ELSE Append(fp.done, [from |-> fp.since, to |-> 0])
    BY <1>7
  <2>4. QED
    BY <1>6, <2>1, <2>2, <2>3
<1>23. SumPaused(q) <= p.total
  <2>1. SumPaused(q) \in Nat
    <3>1. CASE fq.in # 0
      <4>1. SumPaused(q) = SumPaused(AllDone(fq.done)) + (fq.paused + Ran(fq.since, now))
        BY <1>3, <1>13, <1>14, <3>1, PausedAppend
      <4>2. QED
        BY <1>8, <1>11, <1>17, <4>1
    <3>2. CASE fq.in = 0
      BY <1>3, <1>11, <3>2
    <3>3. QED
      BY <3>1, <3>2
  <2>2. Ran(ft.since, now) \in Nat /\ Ran(fp.since, now) \in Nat
    BY <1>10, <1>12 DEF Ran, Span
  <2>3. t.paused \in Nat
    BY <1>5, <1>10, <2>2
  <2>4. p.total \in Nat
    BY <1>7, <1>12, <2>2 DEF Ran
  <2>5. QED
    BY <1>20, <1>21, <2>1, <2>3, <2>4
<1>24. QED
  BY <1>15, <1>18, <1>19, <1>20, <1>21, <1>22, <1>23 DEF Agreed, q, s, t, p, u

(* ... and so do those of an agent of any other type: without a window the  *)
(* reports treat him alike, unless he is static.                            *)
LEMMA ReportsOfOne ==
  ASSUME NEW now \in Nat \ {0}, NEW evs, Good(evs, now), NEW type
  PROVE  Agreed(evs, type, now)
<1>1. evs \in Seq(Logged_)
  BY DEF Good
<1> DEFINE fs == FoldLeft(AllStep, AllStart, evs)
           ft == FoldLeft(AnalyticsStep, TotalsStart, evs)
           fp == PauseFold({"UNPAUSE", "LOGOUT"}, PauseStart, evs)
           s == IF fs.in = 0 THEN [sessions |-> fs.done, total |-> fs.total]
                ELSE [sessions |-> Append(fs.done, [in |-> fs.in, out |-> 0]),
                      total |-> fs.total + Span(fs.in, now)]
           online == ft.online + IF ft.login # 0 THEN Span(ft.login, now) ELSE 0
           spent == ft.paused + IF ft.since # 0 THEN Span(ft.since, now) ELSE 0
           p == IF fp.since = 0 THEN [pauses |-> fp.done, total |-> SumLength(fp.done)]
                ELSE [pauses |-> Append(fp.done, [from |-> fp.since, to |-> 0]),
                      total |-> SumLength(fp.done) + Span(fp.since, now)]
<1>2. ASSUME NEW any
      PROVE  /\ get_all_agent_pauses(evs, Whole, any, now) = p
             /\ any # "STATIC" => /\ get_all_agent_sessions(evs, Whole, any, now) = s
                                  /\ get_agent_analytics(evs, Whole, any, now).online = online
                                  /\ get_agent_analytics(evs, Whole, any, now).paused = spent
  BY <1>1, ReportsAre
<1> HIDE DEF s, online, spent, p
<1>3. /\ get_all_agent_pauses(evs, Whole, "DYNAMIC", now) = p
      /\ get_all_agent_sessions(evs, Whole, "DYNAMIC", now) = s
      /\ get_agent_analytics(evs, Whole, "DYNAMIC", now).online = online
      /\ get_agent_analytics(evs, Whole, "DYNAMIC", now).paused = spent
  BY <1>2
<1>4. QED
  BY <1>2, <1>3, ReportsOfDynamic DEF Agreed

-----------------------------------------------------------------------------
(* The log.                                                                *)

Lines == [kind : DOMAIN LineEvent, agent : Agents, at : Nat \ {0}]

(* Events that are sorted, and lines that will be.                         *)
Logs(evs, now) == DOMAIN evs = Agents /\ \A a \in Agents : Good(evs[a], now)
Unread(lines, now) == lines \in Seq(Lines) /\ \A i \in DOMAIN lines : lines[i].at <= now

EventsInv ==
  /\ clock \in Nat \ {0}
  /\ Logs(events, clock)
  /\ Unread(unread, clock)

(* An event that is inserted by its time leaves the log sorted.            *)
LEMMA InsertGood ==
  ASSUME NEW now \in Nat \ {0}, NEW s, Good(s, now), NEW e \in Logged_, e.at <= now
  PROVE  Good(InsertEvent(s, e), now)
<1> DEFINE n == Len(s)
           r == InsertEvent(s, e)
           stays(i) == i \in DOMAIN s /\ s[i].at <= e.at
<1>1. s \in Seq(Logged_) /\ n \in Nat /\ DOMAIN s = 1 .. n /\ \A i \in 1 .. n : s[i] \in Logged_
  BY DEF Good
<1>2. r = [i \in 1 .. n + 1 |-> IF stays(i) THEN s[i]
                                ELSE IF i = 1 \/ stays(i - 1) THEN e ELSE s[i - 1]]
  BY DEF InsertEvent
<1>3. \A i \in 1 .. n : s[i].at \in Nat \ {0} /\ s[i].at <= now
  BY <1>1 DEF Good, Logged_
<1>4. e.at \in Nat \ {0} /\ now \in Nat
  BY DEF Logged_
<1>5. \A i, j \in 1 .. n : i <= j => s[i].at <= s[j].at
  BY <1>1 DEF Good, Sorted
<1>6. \A i \in Nat : stays(i) => i \in 1 .. n
  BY <1>1
<1>7. \A i \in 1 .. n : ~stays(i) => e.at <= s[i].at
  BY <1>1, <1>3, <1>4
<1>8. \A i \in 1 .. n : stays(i) => s[i].at <= e.at
  OBVIOUS
<1>9. \A i \in 1 .. n, j \in 1 .. n : i <= j /\ stays(j) => stays(i)
  BY <1>1, <1>3, <1>4, <1>5
<1> HIDE DEF n, r, stays
<1>10. ASSUME NEW i \in 1 .. n + 1
       PROVE  \/ i \in 1 .. n /\ stays(i) /\ r[i] = s[i]
              \/ ~stays(i) /\ (i = 1 \/ stays(i - 1)) /\ r[i] = e
              \/ ~stays(i) /\ i - 1 \in 1 .. n /\ ~stays(i - 1) /\ r[i] = s[i - 1]
  BY <1>1, <1>2, <1>6
<1>11. \A i \in 1 .. n + 1 : r[i] \in Logged_ /\ r[i].at <= now /\ r[i].at \in Nat
  BY <1>1, <1>3, <1>4, <1>10
<1>12. r \in Seq(Logged_) /\ DOMAIN r = 1 .. n + 1
  BY <1>1, <1>2, <1>11
<1>13. ASSUME NEW i \in 1 .. n + 1, NEW j \in 1 .. n + 1, i < j
       PROVE  r[i].at <= r[j].at
  <2>1. i \in Nat /\ j \in Nat /\ i \in 1 .. n /\ j - 1 \in 1 .. n /\ i <= j - 1
    BY <1>1, <1>13
  <2>2. CASE stays(i)
    <3>1. r[i] = s[i] /\ s[i].at <= e.at /\ s[i].at \in Nat
      BY <1>3, <1>8, <1>10, <2>1, <2>2
    <3>2. CASE stays(j)
      <4>1. j \in 1 .. n /\ r[j] = s[j]
        BY <1>6, <1>10, <2>1, <3>2
      <4>2. QED
        BY <1>5, <2>1, <3>1, <4>1, <1>13
    <3>3. CASE ~stays(j)
      <4>1. CASE r[j] = e
        BY <3>1, <4>1
      <4>2. CASE r[j] # e
        <5>1. r[j] = s[j - 1]
          BY <1>10, <3>3, <4>2
        <5>2. QED
          BY <1>5, <2>1, <3>1, <5>1
      <4>3. QED
        BY <4>1, <4>2
    <3>4. QED
      BY <3>2, <3>3
  <2>3. CASE ~stays(i)
    <3>1. ~stays(j - 1) /\ ~stays(j)
      BY <1>6, <1>9, <2>1, <2>3, <1>13
    <3>2. r[j] = s[j - 1] /\ e.at <= s[j - 1].at /\ s[j - 1].at \in Nat
      BY <1>3, <1>7, <1>10, <2>1, <3>1
    <3>3. CASE r[i] = e
      BY <3>2, <3>3
    <3>4. CASE r[i] # e
      <4>1. i - 1 \in 1 .. n /\ r[i] = s[i - 1]
        BY <1>10, <2>3, <3>4
      <4>2. i - 1 <= j - 1
        BY <2>1
      <4>3. QED
        BY <1>5, <2>1, <3>2, <4>1, <4>2
    <3>5. QED
      BY <3>3, <3>4
  <2>4. QED
    BY <2>2, <2>3
<1>14. Sorted(r)
  <2>1. ASSUME NEW i \in 1 .. n + 1, NEW j \in 1 .. n + 1, i <= j PROVE r[i].at <= r[j].at
    <3>1. CASE i = j
      BY <1>11, <3>1
    <3>2. CASE i # j
      <4>1. i < j
        BY <1>1, <2>1, <3>2
      <4>2. QED
        BY <1>13, <4>1
    <3>3. QED
      BY <3>1, <3>2
  <2>2. QED
    BY <1>12, <2>1 DEF Sorted
<1>15. QED
  BY <1>11, <1>12, <1>14 DEF Good, r

(* A log stays one.                                                        *)
LEMMA GoodLater ==
  ASSUME NEW now \in Nat, NEW later \in Nat, now <= later, NEW s, Good(s, now)
  PROVE  Good(s, later)
<1>1. \A i \in DOMAIN s : s[i].at \in Nat /\ s[i].at <= now
  <2>1. \A i \in DOMAIN s : s[i] \in Logged_
    BY DEF Good
  <2>2. QED
    BY <2>1 DEF Good, Logged_
<1>2. \A i \in DOMAIN s : s[i].at <= later
  BY <1>1
<1>3. QED
  BY <1>2 DEF Good

(* What a call logs.                                                       *)
LEMMA LoggedGood ==
  ASSUME clock \in Nat \ {0}, NEW s, Good(s, clock), NEW kind
  PROVE  Good(Logged(s, kind), clock)
<1>1. CASE kind \in EventKinds
  <2> DEFINE e == [kind |-> kind, at |-> clock]
  <2>1. e \in Logged_ /\ e.at <= clock
    BY <1>1 DEF Logged_
  <2>2. Logged(s, kind) = InsertEvent(s, e)
    BY <1>1 DEF Logged
  <2> HIDE DEF e
  <2>3. QED
    BY <2>1, <2>2, InsertGood
<1>2. CASE kind \notin EventKinds
  BY <1>2 DEF Logged
<1>3. QED
  BY <1>1, <1>2

(* What a line of queue_log logs.                                          *)
LEMMA LineGood ==
  ASSUME NEW now \in Nat \ {0}, NEW s, Good(s, now), NEW l \in Lines, l.at <= now
  PROVE  Good(LineEvents(s, l), now)
<1> DEFINE e == [kind |-> LineEvent[l.kind], at |-> l.at]
<1>1. e \in Logged_ /\ e.at <= now
  BY DEF Lines, LineEvent, Logged_, EventKinds
<1>2. LineEvents(s, l) \in {s, InsertEvent(s, e)}
  BY DEF LineEvents
<1> HIDE DEF e
<1>3. QED
  BY <1>1, <1>2, InsertGood

(* What an import logs.                                                    *)
LEMMA ImportGood ==
  ASSUME NEW now \in Nat \ {0}, NEW lines, Unread(lines, now), Logs(events, now)
  PROVE  Logs(Imported(lines).events, now)
<1> DEFINE n == Len(lines)
           start == [row |-> row, events |-> events]
           r == FoldLeft(ImportLine, start, lines)
<1>1. n \in Nat /\ DOMAIN lines = 1 .. n /\ \A i \in 1 .. n : lines[i] \in Lines /\ lines[i].at <= now
  BY DEF Unread
<1>2. PICK a : Run(a, "import", 0, lines, start, n, r)
  BY <1>1, ImportSteps
<1>3. start.events = events /\ Imported(lines) = r
  BY DEF Imported
<1> HIDE DEF n, start, r
<1> DEFINE T == {k \in Nat : k <= n => Logs(a[k].events, now)}
<1>4. 0 \in T
  BY <1>2, <1>3 DEF Run
<1>5. ASSUME NEW k \in T PROVE k + 1 \in T
  <2>1. SUFFICES ASSUME k + 1 <= n PROVE Logs(a[k + 1].events, now)
    OBVIOUS
  <2>2. k \in 0 .. n - 1 /\ k + 1 \in 1 .. n /\ Logs(a[k].events, now)
    BY <1>1, <2>1
  <2> DEFINE l == lines[k + 1]
             v == a[k].events
  <2>3. l \in Lines /\ l.at <= now /\ l.agent \in Agents
    BY <1>1, <2>2 DEF Lines
  <2>4. a[k + 1] = ImportLine(a[k], l)
    BY <1>2, <2>2 DEF Run, Step
  <2>5. a[k + 1].events = [v EXCEPT ![l.agent] = LineEvents(v[l.agent], l)]
    BY <2>4 DEF ImportLine
  <2>6. Logs(v, now)
    BY <2>2
  <2> HIDE DEF l, v
  <2>7. Good(LineEvents(v[l.agent], l), now)
    BY <2>3, <2>6, LineGood DEF Logs
  <2>8. QED
    BY <2>3, <2>5, <2>6, <2>7 DEF Logs
<1> HIDE DEF T
<1>6. T = Nat
  <2>1. T \in SUBSET Nat
    BY DEF T
  <2>2. QED
    BY <1>4, <1>5, <2>1, Induction
<1>7. Logs(a[n].events, now)
  BY <1>1, <1>6 DEF T
<1>8. QED
  BY <1>2, <1>3, <1>7 DEF Run

-----------------------------------------------------------------------------
(* The steps.                                                              *)

(* The log starts empty.                                                   *)
LEMMA EventsInit == Init => EventsInv
<1> SUFFICES ASSUME Init PROVE EventsInv
  OBVIOUS
<1>1. Good(<<>>, 1)
  BY DEF Good, Sorted
<1>2. clock = 1 /\ events = [a \in Agents |-> <<>>] /\ unread = <<>>
  BY DEF Init
<1>3. Unread(<<>>, 1)
  BY DEF Unread
<1>4. QED
  BY <1>1, <1>2, <1>3 DEF EventsInv, Logs

(* A call logs at most one event for one agent.                            *)
LEMMA PutsKeeps ==
  ASSUME EventsInv, NEW a, NEW r, NEW kind, Puts(a, r, kind), UNCHANGED <<clock, unread>>
  PROVE  EventsInv'
<1>1. events' = [events EXCEPT ![a] = Logged(events[a], kind)]
  BY DEF Puts
<1>2. a \in Agents => Good(Logged(events[a], kind), clock)
  BY LoggedGood DEF EventsInv, Logs
<1>3. Logs(events', clock)
  BY <1>1, <1>2 DEF EventsInv, Logs
<1>4. QED
  BY <1>3 DEF EventsInv

(* A line is written now.                                                  *)
LEMMA LineKeeps ==
  ASSUME EventsInv, NEW kind \in DOMAIN LineEvent, NEW a \in Agents, Line(kind, a),
         UNCHANGED <<clock, events>>
  PROVE  EventsInv'
<1> DEFINE l == [kind |-> kind, agent |-> a, at |-> clock]
<1>1. l \in Lines /\ l.at <= clock
  BY DEF EventsInv, Lines
<1>2. unread' = Append(unread, l) /\ Unread(unread, clock)
  BY DEF Line, EventsInv
<1> HIDE DEF l
<1>3. Unread(Append(unread, l), clock)
  BY <1>1, <1>2 DEF Unread
<1>4. QED
  BY <1>2, <1>3 DEF EventsInv

(* The clock.                                                              *)
LEMMA TickKeeps ==
  ASSUME EventsInv, Tick
  PROVE  EventsInv'
<1>1. clock \in Nat \ {0} /\ clock' = clock + 1 /\ UNCHANGED <<events, unread>>
  BY DEF EventsInv, Tick, tables
<1>2. clock' \in Nat \ {0} /\ clock <= clock'
  BY <1>1
<1>3. Logs(events, clock')
  BY <1>1, <1>2, GoodLater DEF EventsInv, Logs
<1>4. Unread(unread, clock')
  <2>1. \A i \in DOMAIN unread : unread[i] \in Lines /\ unread[i].at <= clock
    BY DEF EventsInv, Unread
  <2>2. \A i \in DOMAIN unread : unread[i].at <= clock'
    BY <1>1, <2>1 DEF Lines
  <2>3. QED
    BY <2>2 DEF EventsInv, Unread
<1>5. QED
  BY <1>1, <1>2, <1>3, <1>4 DEF EventsInv

(* Steps that touch neither the log nor the lines.                         *)
LEMMA StaysKept ==
  ASSUME EventsInv, UNCHANGED <<clock, events, unread>>
  PROVE  EventsInv'
BY DEF EventsInv

(* The exchange.                                                           *)
LEMMA MoveKeeps ==
  ASSUME EventsInv, NEW a \in Agents, UNCHANGED events,
         \/ Adds(a) \/ Removes(a) \/ Rings(a) \/ Hangs(a)
         \/ \E on \in BOOLEAN : Pauses_(a, on)
  PROVE  EventsInv'
<1>1. CASE Adds(a)
  <2>1. Line("ADDMEMBER", a) /\ UNCHANGED <<clock, events>>
    BY <1>1 DEF Adds, Moves
  <2>2. QED
    BY <2>1, LineKeeps DEF LineEvent
<1>2. CASE Removes(a)
  <2>1. Line("REMOVEMEMBER", a) /\ UNCHANGED <<clock, events>>
    BY <1>2 DEF Removes, Moves
  <2>2. QED
    BY <2>1, LineKeeps DEF LineEvent
<1>3. CASE Rings(a) \/ Hangs(a)
  BY <1>3, StaysKept DEF Rings, Hangs, Moves
<1>4. CASE \E on \in BOOLEAN : Pauses_(a, on)
  <2>1. PICK on \in BOOLEAN : Pauses_(a, on)
    BY <1>4
  <2>2. Line(IF on THEN "PAUSE" ELSE "UNPAUSE", a) /\ UNCHANGED <<clock, events>>
    BY <2>1 DEF Pauses_, Moves
  <2>3. (IF on THEN "PAUSE" ELSE "UNPAUSE") \in DOMAIN LineEvent
    BY DEF LineEvent
  <2>4. QED
    BY <2>2, <2>3, LineKeeps
<1>5. QED
  BY <1>1, <1>2, <1>3, <1>4

(* The calls of a process.                                                 *)
LEMMA CallKeeps ==
  ASSUME EventsInv, NEW p, CallStep(p)
  PROVE  EventsInv'
<1>1. CASE Read(p)
  BY <1>1, StaysKept DEF Read, exchange, tables
<1>2. CASE db_agent_login(p)
  <2>1. UNCHANGED <<clock, unread>>
    BY <1>2 DEF db_agent_login, exchange
  <2>2. \E a, r, kind : Puts(a, r, kind)
    BY <1>2 DEF db_agent_login
  <2>3. QED
    BY <2>1, <2>2, PutsKeeps
<1>3. CASE db_agent_logout(p)
  <2>1. UNCHANGED <<clock, unread>>
    BY <1>3 DEF db_agent_logout, exchange
  <2>2. \E a, r, kind : Puts(a, r, kind)
    BY <1>3 DEF db_agent_logout
  <2>3. QED
    BY <2>1, <2>2, PutsKeeps
<1>4. CASE db_agent_pause(p)
  <2>1. UNCHANGED <<clock, unread>>
    BY <1>4 DEF db_agent_pause, exchange
  <2>2. \E a, r, kind : Puts(a, r, kind)
    BY <1>4 DEF db_agent_pause
  <2>3. QED
    BY <2>1, <2>2, PutsKeeps
<1>5. CASE sync_queue_log(p)
  <2>1. events' = Imported(unread).events /\ unread' = <<>> /\ clock' = clock
    BY <1>5 DEF sync_queue_log
  <2>2. Logs(Imported(unread).events, clock)
    BY ImportGood DEF EventsInv
  <2>3. Unread(<<>>, clock)
    BY DEF Unread
  <2>4. QED
    BY <2>1, <2>2, <2>3 DEF EventsInv
<1>6. CASE QueueShow(p)
  BY <1>6, StaysKept DEF QueueShow, exchange, tables
<1>7. CASE reconcile_agents(p)
  <2> DEFINE shown == Next_(p).arg
             was == seen[p][1]
             kind(a) == SyncLog(was.row[a], shown[a], Valid(a, shown, was.static))
  <2>1. UNCHANGED <<clock, unread>>
    BY <1>7 DEF reconcile_agents, exchange
  <2>2. events' = events \/ events' = [a \in Agents |-> Logged(events[a], kind(a))]
    BY <1>7 DEF reconcile_agents, tables
  <2> HIDE DEF kind
  <2>3. ASSUME NEW a \in Agents PROVE Good(events'[a], clock)
    <3>1. Good(events[a], clock) /\ clock \in Nat \ {0}
      BY DEF EventsInv, Logs
    <3>2. Good(Logged(events[a], kind(a)), clock)
      BY <3>1, LoggedGood
    <3>3. QED
      BY <2>2, <3>1, <3>2
  <2>4. DOMAIN events' = Agents
    BY <2>2 DEF EventsInv, Logs
  <2>5. QED
    BY <2>1, <2>3, <2>4 DEF EventsInv, Logs
<1>8. QED
  BY <1>1, <1>2, <1>3, <1>4, <1>5, <1>6, <1>7 DEF CallStep

(* The collector.                                                          *)
LEMMA CollectorKeeps ==
  ASSUME EventsInv, CollectorStep \/ Collector_cut \/ Collector_drops
  PROVE  EventsInv'
<1>1. CASE Collector_connects \/ handle_event \/ Collector_cut \/ Collector_drops
  BY <1>1, StaysKept DEF Collector_connects, handle_event, Collector_cut, Collector_drops,
                         exchange, tables
<1>2. CASE db_agent_status_update
  <2>1. UNCHANGED <<clock, unread>>
    BY <1>2 DEF db_agent_status_update
  <2>2. (\E a, r, kind : Puts(a, r, kind)) \/ UNCHANGED events
    BY <1>2 DEF db_agent_status_update, tables
  <2>3. QED
    BY <2>1, <2>2, PutsKeeps, StaysKept
<1>3. CASE db_agent_call_event
  <2>1. UNCHANGED <<clock, unread>>
    BY <1>3 DEF db_agent_call_event, exchange
  <2>2. \E a, r, kind : Puts(a, r, kind)
    BY <1>3 DEF db_agent_call_event
  <2>3. QED
    BY <2>1, <2>2, PutsKeeps
<1>4. QED
  BY <1>1, <1>2, <1>3 DEF CollectorStep

(* The requests.                                                           *)
LEMMA RequestKeeps ==
  ASSUME EventsInv, NEW w, NEW a \in Agents, Request(w, a)
  PROVE  EventsInv'
<1>1. CASE queue_agent_join(w, a) \/ queue_agent_leave(w, a)
  BY <1>1, MoveKeeps DEF queue_agent_join, queue_agent_leave, tables
<1>2. CASE queue_agent_add(w, a) \/ queue_agent_remove(w, a)
  BY <1>2, StaysKept DEF queue_agent_add, queue_agent_remove, exchange, tables
<1>3. ASSUME NEW on \in BOOLEAN, queue_agent_pause(w, a, on) \/ queue_agent_set(w, a, on)
      PROVE  EventsInv'
  <2>1. Pauses_(a, on) /\ UNCHANGED events
    BY <1>3 DEF queue_agent_pause, queue_agent_set, tables
  <2>2. QED
    BY <2>1, MoveKeeps
<1>4. ASSUME NEW on \in BOOLEAN, queue_agent_set_fails(w, a, on)
      PROVE  EventsInv'
  BY <1>4, StaysKept DEF queue_agent_set_fails, exchange, tables
<1>5. QED
  BY <1>1, <1>2, <1>3, <1>4 DEF Request

(* Every step.                                                             *)
LEMMA EventsStep == EventsInv /\ [Next]_vars => EventsInv'
<1> SUFFICES ASSUME EventsInv, [Next]_vars PROVE EventsInv'
  OBVIOUS
<1>1. CASE ByPhone
  <2>1. PICK a \in Agents : \/ Adds(a) \/ Removes(a) \/ Rings(a) \/ Hangs(a)
                            \/ \E on \in BOOLEAN : Pauses_(a, on)
    BY <1>1 DEF ByPhone
  <2>2. UNCHANGED events
    BY <1>1 DEF ByPhone, tables
  <2>3. QED
    BY <2>1, <2>2, MoveKeeps
<1>2. CASE Tick
  BY <1>2, TickKeeps
<1>3. CASE CollectorStep \/ Collector_cut \/ Collector_drops
  BY <1>3, CollectorKeeps
<1>4. CASE CallStep(Collector)
  BY <1>4, CallKeeps
<1>5. ASSUME NEW w \in Web, WebStep(w) PROVE EventsInv'
  <2>1. CASE AgentForm(w)
    BY <2>1, StaysKept DEF AgentForm, exchange
  <2>2. CASE CallStep(w)
    BY <2>2, CallKeeps
  <2>3. QED
    BY <1>5, <2>1, <2>2 DEF WebStep
<1>6. ASSUME NEW w \in Web, api_apply_changes(w) PROVE EventsInv'
  BY <1>6, StaysKept DEF api_apply_changes, tables
<1>7. ASSUME NEW w \in Web, NEW a \in Agents, Request(w, a) PROVE EventsInv'
  BY <1>7, RequestKeeps
<1>8. CASE Dashboard
  BY <1>8, StaysKept DEF Dashboard, get_live_dashboard_status, exchange
<1>9. CASE UNCHANGED vars
  BY <1>9, StaysKept DEF vars, exchange, tables
<1>10. QED
  BY <1>1, <1>2, <1>3, <1>4, <1>5, <1>6, <1>7, <1>8, <1>9 DEF Next

(* The log of every agent is sorted by its timestamps and tells nothing of *)
(* the future, and the lines of queue_log that are not imported will be so *)
(* (the statements that write queue_agent_events in rcm_queue_db.py).      *)
THEOREM EventsInvariant == Spec => []EventsInv
<1>1. Init => EventsInv
  BY EventsInit
<1>2. EventsInv /\ [Next]_vars => EventsInv'
  BY EventsStep
<1>3. QED
  BY <1>1, <1>2, PTL DEF Spec

(* Sorted logs give PauseFits.                                             *)
LEMMA EventsGivePauseFits == EventsInv => PauseFits
<1> SUFFICES ASSUME EventsInv, NEW a \in Agents, NEW w \in Windows
             PROVE  LET s == get_queue_sessions(events[a], w, clock)
                    IN  \A i \in DOMAIN s : s[i].paused <= s[i].online
  BY DEF PauseFits
<1>1. clock \in Nat \ {0} /\ Good(events[a], clock)
  BY DEF EventsInv, Logs
<1>2. w \in Window
  BY <1>1 DEF Windows, Window, Whole
<1>3. Fitting(get_queue_sessions(events[a], w, clock))
  BY <1>1, <1>2, SessionsFitTheirPauses
<1>4. QED
  BY <1>3 DEF Fitting

(* No session of get_queue_sessions has a longer pause than itself, in any *)
(* window: the available time is never less than nothing.                  *)
THEOREM PauseFitsInvariant == Spec => []PauseFits
<1>1. EventsInv => PauseFits
  BY EventsGivePauseFits
<1>2. QED
  BY <1>1, EventsInvariant, PTL

(* The sums of ReportsAgree.                                               *)
LEMMA SumsAre ==
  ASSUME NEW s
  PROVE  LET SpentOnline(x) == x.online
             SpentPaused(x) == x.paused
         IN  SumOf(s, SpentOnline) = SumOnline(s) /\ SumOf(s, SpentPaused) = SumPaused(s)
BY DEF SumOf, SumOnline, SumPaused

(* Sorted logs give ReportsAgree.                                          *)
LEMMA EventsGiveReportsAgree == EventsInv => ReportsAgree
<1> SUFFICES ASSUME EventsInv, NEW a \in Agents
             PROVE  Agreed(events[a], TypeFound(a), clock)
  BY SumsAre DEF ReportsAgree, Agreed, Rows
<1>1. clock \in Nat \ {0} /\ Good(events[a], clock)
  BY DEF EventsInv, Logs
<1>2. QED
  BY <1>1, ReportsOfOne

(* Of an agent who is not static, the sessions of a queue, the sessions     *)
(* report and the totals per agent tell the same sessions and the same      *)
(* online time, and no total counts more pause than the pause report.  The  *)
(* pause reports list as many pauses of any agent.                          *)
THEOREM ReportsAgreeInvariant == Spec => []ReportsAgree
<1>1. EventsInv => ReportsAgree
  BY EventsGiveReportsAgree
<1>2. QED
  BY <1>1, EventsInvariant, PTL
===============================================================================
