-------------------------- MODULE MailReports_proofs --------------------------
(***************************************************************************)
(* What the scheduler thread mails, for any calendar, settings, plans,     *)
(* recipients and extensions: a report is for the last time that fits its  *)
(* schedule, nobody receives one twice, and no call is told twice, unless  *)
(* a success was not logged.                                               *)
(*                                                                         *)
(* And the import of Master.csv that it rests on: what one import reads    *)
(* and stores, whatever the calls, legs and length of the head, and the    *)
(* invariant of its steps, from which a leg of a call in one file has one  *)
(* row, and no other leg.  That part is stated of sets of files, rows and  *)
(* places that are given, so that it can be said of the state before a     *)
(* step and of that after.                                                 *)
(***************************************************************************)
EXTENDS MailReports, FiniteSetTheorems, WellFoundedInduction, TLAPS

-----------------------------------------------------------------------------
(* Natural numbers.                                                        *)

LEMMA SmallestOf ==
  ASSUME NEW T \in SUBSET Nat, T # {}
  PROVE  \E n \in T : \A m \in T : n <= m
<1>1. PICK n \in T : \A m \in T : ~ (<<m, n>> \in OpToRel(<, Nat))
  BY WFMin, NatLessThanWellFounded
<1>2. \A m \in T : ~(m < n)
  BY <1>1 DEF OpToRel
<1>3. QED
  BY <1>2

LEMMA Induction ==
  ASSUME NEW T \in SUBSET Nat, 0 \in T, \A n \in T : n + 1 \in T
  PROVE  T = Nat
<1> DEFINE U == Nat \ T
<1>1. SUFFICES ASSUME U # {} PROVE FALSE
  OBVIOUS
<1>2. PICK n \in U : \A m \in U : n <= m
  <2> HIDE DEF U
  <2>1. U \subseteq Nat
    BY DEF U
  <2>2. QED
    BY <1>1, <2>1, SmallestOf
<1>3. n # 0 /\ n - 1 \in T
  BY <1>2
<1>4. QED
  BY <1>2, <1>3

(* What Asterisk writes.                                                   *)
Line == [uid : Calls, leg : Legs, start : Nat, missed : Exts \cup {Nobody}, bad : BOOLEAN]

-----------------------------------------------------------------------------
(* The lines of an import are folded; the fold is a function on the sets   *)
(* of their numbers, and what it does from 1 to n is one line after the    *)
(* other.                                                                  *)
Folded(s, start, n, g) ==
  g = [t \in SUBSET (1 .. n) |->
         IF t = {} THEN start ELSE StoreLine(s[Max(t)], g[t \ {Max(t)}])]

FoldOf(start, s) == FoldLeft(LAMBDA acc, l : StoreLine(l, acc), start, s)

LEMMA FoldIs ==
  ASSUME NEW s, NEW start, NEW n \in Nat, DOMAIN s = 1 .. n
  PROVE  FoldOf(start, s) = (CHOOSE g : Folded(s, start, n, g))[1 .. n]
BY DEF FoldOf, FoldLeft, MapThenFoldSet, Folded

LEMMA MaxIs ==
  ASSUME NEW n \in Nat, NEW t \in SUBSET (1 .. n), n \in t
  PROVE  Max(t) = n
<1>1. \A y \in t : n >= y
  OBVIOUS
<1>2. \A x \in t : (\A y \in t : x >= y) => x = n
  OBVIOUS
<1>3. QED
  BY <1>1, <1>2 DEF Max

LEMMA FoldExists ==
  ASSUME NEW s, NEW start
  PROVE  \A n \in Nat : \E g : Folded(s, start, n, g)
<1> DEFINE T == {n \in Nat : \E g : Folded(s, start, n, g)}
<1>1. 0 \in T
  <2> DEFINE g == [t \in SUBSET (1 .. 0) |-> start]
  <2>1. \A t \in SUBSET (1 .. 0) : t = {}
    OBVIOUS
  <2>2. Folded(s, start, 0, g)
    BY <2>1 DEF Folded
  <2>3. QED
    BY <2>2
<1>2. ASSUME NEW n \in T PROVE n + 1 \in T
  <2>1. PICK g : Folded(s, start, n, g)
    OBVIOUS
  <2> DEFINE h == [t \in SUBSET (1 .. n + 1) |->
                     IF n + 1 \in t THEN StoreLine(s[n + 1], g[t \ {n + 1}]) ELSE g[t]]
             Next_(t) == IF t = {} THEN start ELSE StoreLine(s[Max(t)], h[t \ {Max(t)}])
  <2>2. \A t \in SUBSET (1 .. n + 1) : n + 1 \notin t => t \in SUBSET (1 .. n)
    OBVIOUS
  <2>3. \A t \in SUBSET (1 .. n + 1) : t \ {n + 1} \in SUBSET (1 .. n)
    OBVIOUS
  <2>4. \A t \in SUBSET (1 .. n) : t \in SUBSET (1 .. n + 1) /\ n + 1 \notin t
    OBVIOUS
  <2>5. \A t \in SUBSET (1 .. n) : h[t] = g[t]
    BY <2>4
  <2>6. \A t \in SUBSET (1 .. n + 1) : n + 1 \in t => h[t] = StoreLine(s[n + 1], g[t \ {n + 1}])
    OBVIOUS
  <2>7. \A t \in SUBSET (1 .. n) :
          g[t] = IF t = {} THEN start ELSE StoreLine(s[Max(t)], g[t \ {Max(t)}])
    BY <2>1 DEF Folded
  <2>8. h = [t \in SUBSET (1 .. n + 1) |-> h[t]]
    OBVIOUS
  <2> HIDE DEF h
  <2>9. ASSUME NEW t \in SUBSET (1 .. n + 1) PROVE h[t] = Next_(t)
    <3>1. CASE n + 1 \in t
      <4>1. Max(t) = n + 1 /\ t # {}
        BY <3>1, MaxIs
      <4>2. h[t \ {n + 1}] = g[t \ {n + 1}]
        BY <2>3, <2>5
      <4>3. QED
        BY <2>6, <3>1, <4>1, <4>2
    <3>2. CASE n + 1 \notin t
      <4>1. t \in SUBSET (1 .. n) /\ t \ {Max(t)} \in SUBSET (1 .. n)
        BY <2>2, <3>2
      <4>2. h[t] = g[t] /\ h[t \ {Max(t)}] = g[t \ {Max(t)}]
        BY <2>5, <4>1
      <4>3. QED
        BY <2>7, <4>1, <4>2
    <3>3. QED
      BY <3>1, <3>2
  <2>10. h = [t \in SUBSET (1 .. n + 1) |-> Next_(t)]
    <3> HIDE DEF Next_
    <3>1. QED
      BY <2>8, <2>9
  <2>11. Folded(s, start, n + 1, h)
    BY <2>10 DEF Folded
  <2>12. QED
    BY <2>11
<1> HIDE DEF T
<1>3. T \in SUBSET Nat
  BY DEF T
<1>4. T = Nat
  BY <1>1, <1>2, <1>3, Induction
<1>5. QED
  BY <1>4 DEF T

LEMMA FoldSteps ==
  ASSUME NEW s, NEW start, NEW n \in Nat, DOMAIN s = 1 .. n
  PROVE  \E a : /\ a[0] = start
                /\ a[n] = FoldOf(start, s)
                /\ \A k \in 0 .. n - 1 : a[k + 1] = StoreLine(s[k + 1], a[k])
<1> DEFINE g == CHOOSE h : Folded(s, start, n, h)
           a == [k \in 0 .. n |-> g[1 .. k]]
<1>1. Folded(s, start, n, g)
  BY FoldExists
<1>2. g[1 .. n] = FoldOf(start, s)
  BY FoldIs
<1> HIDE DEF g
<1>0. n \in 0 .. n /\ 0 \in 0 .. n
  OBVIOUS
<1>3. a[n] = FoldOf(start, s)
  <2>1. a[n] = g[1 .. n]
    BY <1>0
  <2> HIDE DEF a
  <2>2. QED
    BY <1>2, <2>1
<1>4. \A t \in SUBSET (1 .. n) :
        g[t] = IF t = {} THEN start ELSE StoreLine(s[Max(t)], g[t \ {Max(t)}])
  BY <1>1 DEF Folded
<1>5. a[0] = start
  <2>1. 1 .. 0 = {} /\ {} \in SUBSET (1 .. n)
    OBVIOUS
  <2>2. g[{}] = start
    BY <1>4, <2>1
  <2>3. a[0] = g[1 .. 0]
    BY <1>0
  <2>4. QED
    BY <2>1, <2>2, <2>3
<1>6. ASSUME NEW k \in 0 .. n - 1 PROVE a[k + 1] = StoreLine(s[k + 1], a[k])
  <2>1. /\ 1 .. k + 1 \in SUBSET (1 .. n) /\ k + 1 \in 1 .. k + 1 /\ k + 1 \in Nat
        /\ 1 .. k + 1 \in SUBSET (1 .. k + 1)
    OBVIOUS
  <2>2. Max(1 .. k + 1) = k + 1
    BY <2>1, MaxIs
  <2>3. (1 .. k + 1) \ {k + 1} = 1 .. k
    OBVIOUS
  <2>4. g[1 .. k + 1] = StoreLine(s[k + 1], g[1 .. k])
    BY <1>4, <2>1, <2>2, <2>3
  <2>5. QED
    BY <2>4
<1> HIDE DEF a
<1>7. QED
  BY <1>3, <1>5, <1>6

(* One line is stored.                                                     *)
KeyOf(l, seen) ==
  IF BaseKey(l.uid) \in seen THEN LegKey(l, FirstFree(l, seen)) ELSE BaseKey(l.uid)

LEMMA StoreIs ==
  ASSUME NEW l, NEW S, NEW F, NEW O
  PROVE  \E f : StoreLine(l, [seen |-> S, free |-> F, out |-> O])
                  = [seen |-> S \cup {KeyOf(l, S)}, free |-> f,
                     out |-> Append(O, [key |-> KeyOf(l, S), line |-> l])]
<1> DEFINE acc == [seen |-> S, free |-> F, out |-> O]
           e   == [key |-> KeyOf(l, S), line |-> l]
<1>1. PICK f : StoreLine(l, acc) = Store([seen |-> S, free |-> f, out |-> O], l, KeyOf(l, S))
  <2>1. acc.seen = S /\ \A f : [acc EXCEPT !.free = f] = [seen |-> S, free |-> f, out |-> O]
    OBVIOUS
  <2>2. \/ StoreLine(l, acc) = Store(acc, l, KeyOf(l, S))
        \/ \E f : StoreLine(l, acc) = Store([acc EXCEPT !.free = f], l, KeyOf(l, S))
    <3> HIDE DEF acc
    <3>1. QED
      BY <2>1 DEF StoreLine, KeyOf
  <2>3. QED
    BY <2>1, <2>2
<1>2. Store([seen |-> S, free |-> f, out |-> O], l, KeyOf(l, S))
        = [seen |-> S \cup {KeyOf(l, S)}, free |-> f, out |-> Append(O, e)]
  <2> DEFINE a == [seen |-> S, free |-> f, out |-> O]
             b == [seen |-> S, free |-> f, out |-> Append(O, e)]
  <2> HIDE DEF e
  <2>1. a.seen = S /\ a.out = O /\ [a EXCEPT !.out = Append(O, e)] = b
    OBVIOUS
  <2>2. [b EXCEPT !.seen = S \cup {KeyOf(l, S)}]
          = [seen |-> S \cup {KeyOf(l, S)}, free |-> f, out |-> Append(O, e)]
    <3> DEFINE T == S \cup {KeyOf(l, S)}
               P == Append(O, e)
    <3> HIDE DEF T, P
    <3>1. [[seen |-> S, free |-> f, out |-> P] EXCEPT !.seen = T]
            = [seen |-> T, free |-> f, out |-> P]
      OBVIOUS
    <3>2. QED
      BY <3>1 DEF T, P
  <2> HIDE DEF a, b
  <2>3. Store(a, l, KeyOf(l, S)) = [[a EXCEPT !.out = Append(O, e)] EXCEPT !.seen = S \cup {KeyOf(l, S)}]
    BY <2>1 DEF Store, e
  <2>4. QED
    BY <2>1, <2>2, <2>3 DEF a
<1>3. QED
  BY <1>1, <1>2

-----------------------------------------------------------------------------
(* The files Asterisk wrote, a place in one of them, and the rows of their *)
(* lines.                                                                  *)

SplitIn(F, u) ==
  \E f, g \in F : \E l \in Lines(f), k \in Lines(g) : f # g /\ l.uid = u /\ k.uid = u

(* A leg is written once.                                                  *)
Apart(F) ==
  \A f, g \in F : \A i \in 1 .. Len(f), j \in 1 .. Len(g) :
    f[i].uid = g[j].uid /\ f[i].leg = g[j].leg => f = g /\ i = j

FirstOf(f, i) == \A j \in 1 .. i - 1 : f[j].uid # f[i].uid

(* The row is that of a line: it has the key of the leg or of its call.    *)
RowOf(r, f, i) ==
  /\ r.line = f[i]
  /\ r.key = BaseKey(f[i].uid) \/ \E n : r.key = LegKey(f[i], n)

Right(F, r) == \E f \in F : \E i \in 1 .. Len(f) : RowOf(r, f, i)

(* That of the call is the first leg's in the file, unless an import read   *)
(* past a leg of the call: P are such calls.                                *)
Leads(F, P, r) ==
  \A f \in F : \A i \in 1 .. Len(f) :
    r.line = f[i] /\ r.key = BaseKey(f[i].uid) /\ ~SplitIn(F, f[i].uid) /\ f[i].uid \notin P
      => FirstOf(f, i)

(* A leg with a key of its own has the first one, and is not the first.    *)
Exact(F, r) ==
  \A f \in F : \A i \in 1 .. Len(f) :
    r.line = f[i] /\ ~SplitIn(F, f[i].uid) /\ r.key # BaseKey(f[i].uid)
      => r.key = LegKey(f[i], 1) /\ ~FirstOf(f, i)

At(pl, f) == pl.offset \in 1 .. Len(f) /\ pl.head[1] = f[1]

(* The calls before the place have a row, but for P.                       *)
Complete(F, P, pl, R) ==
  \A f \in F : At(pl, f) =>
    \A m \in 1 .. pl.offset : f[m].uid \in P \/ BaseKey(f[m].uid) \in Keys(R)

(* The lines after the place have none.                                    *)
Bounded(F, pl, R) ==
  \A f \in F : At(pl, f) =>
    \A r \in R : \A i \in 1 .. Len(f) : r.line = f[i] => i <= pl.offset

(* A line of a call in one file has one row.                               *)
OneEach(F, R) ==
  \A r, s \in R : r.line = s.line /\ ~SplitIn(F, r.line.uid) => r.key = s.key

LEMMA KeysDiffer ==
  ASSUME NEW l \in Line, NEW u, NEW n
  PROVE  LegKey(l, n) # BaseKey(u)
<1>1. l.leg # Nobody
  BY LegsAssumption DEF Line, Nobody
<1>2. LegKey(l, n).leg = l.leg /\ BaseKey(u).leg = Nobody
  BY DEF LegKey, BaseKey
<1>3. QED
  BY <1>1, <1>2

LEMMA SameKey ==
  /\ \A u, v : BaseKey(u) = BaseKey(v) => u = v
  /\ \A l, k, m, n : LegKey(l, m) = LegKey(k, n) => l.uid = k.uid /\ l.leg = k.leg
<1>1. \A u : BaseKey(u).uid = u
  BY DEF BaseKey
<1>2. \A l, n : LegKey(l, n).uid = l.uid /\ LegKey(l, n).leg = l.leg
  BY DEF LegKey
<1>3. QED
  BY <1>1, <1>2

(* Two rows with one key are rows of one line, or of a call in two files,   *)
(* or of one with a leg that was read past.                                 *)
LEMMA KeyOfOne ==
  ASSUME NEW F \in SUBSET Seq(Line), Apart(F), NEW P, NEW r, NEW s, Right(F, r), Right(F, s),
         Leads(F, P, r), Leads(F, P, s), r.key = s.key, r.line # s.line
  PROVE  SplitIn(F, r.key.uid) \/ r.key.uid \in P
<1>1. PICK f \in F : \E i \in 1 .. Len(f) : RowOf(r, f, i)
  BY DEF Right
<1>2. PICK i \in 1 .. Len(f) : RowOf(r, f, i)
  BY <1>1
<1>3. PICK g \in F : \E j \in 1 .. Len(g) : RowOf(s, g, j)
  BY DEF Right
<1>4. PICK j \in 1 .. Len(g) : RowOf(s, g, j)
  BY <1>3
<1>5. f[i] \in Line /\ g[j] \in Line /\ Len(f) \in Nat /\ Len(g) \in Nat
  OBVIOUS
<1>6. CASE \E n : r.key = LegKey(f[i], n)
  <2>1. \E n : s.key = LegKey(g[j], n)
    BY <1>4, <1>5, <1>6, KeysDiffer DEF RowOf
  <2>2. f[i].uid = g[j].uid /\ f[i].leg = g[j].leg
    <3>1. PICK m : r.key = LegKey(f[i], m)
      BY <1>6
    <3>2. PICK n : s.key = LegKey(g[j], n)
      BY <2>1
    <3>3. LegKey(f[i], m) = LegKey(g[j], n)
      BY <3>1, <3>2
    <3>4. QED
      BY <3>3, SameKey
  <2>3. f[i] = g[j]
    BY <2>2 DEF Apart
  <2>4. QED
    BY <1>2, <1>4, <2>3 DEF RowOf
<1>7. CASE ~\E n : r.key = LegKey(f[i], n)
  <2>1. r.key = BaseKey(f[i].uid) /\ r.line = f[i]
    BY <1>2, <1>7 DEF RowOf
  <2>2. s.key = BaseKey(g[j].uid) /\ s.line = g[j]
    BY <1>4, <1>5, <2>1, KeysDiffer DEF RowOf
  <2>3. f[i].uid = g[j].uid /\ r.key.uid = f[i].uid
    <3>1. BaseKey(f[i].uid) = BaseKey(g[j].uid)
      BY <2>1, <2>2
    <3>2. f[i].uid = g[j].uid
      BY <3>1, SameKey
    <3>3. BaseKey(f[i].uid).uid = f[i].uid
      BY DEF BaseKey
    <3>4. QED
      BY <2>1, <3>2, <3>3
  <2>4. SUFFICES ASSUME ~SplitIn(F, f[i].uid), f[i].uid \notin P PROVE FALSE
    BY <2>3
  <2>5. FirstOf(f, i) /\ FirstOf(g, j)
    <3>1. FirstOf(f, i)
      BY <2>1, <2>4 DEF Leads
    <3>2. ~SplitIn(F, g[j].uid) /\ g[j].uid \notin P
      BY <2>3, <2>4
    <3>3. FirstOf(g, j)
      BY <2>2, <3>2 DEF Leads
    <3>4. QED
      BY <3>1, <3>3
  <2>6. f = g
    <3>1. f[i] \in Lines(f) /\ g[j] \in Lines(g)
      BY <1>5 DEF Lines
    <3>2. QED
      BY <2>3, <2>4, <3>1 DEF SplitIn
  <2>7. i = j
    <3>1. ~(i < j) /\ ~(j < i)
      BY <2>3, <2>5, <2>6 DEF FirstOf
    <3>2. QED
      BY <1>5, <3>1
  <2>8. QED
    BY <1>2, <1>4, <2>6, <2>7 DEF RowOf
<1>8. QED
  BY <1>6, <1>7

-----------------------------------------------------------------------------
(* Files grow.                                                             *)

(* Every file is still there, perhaps with more lines.                     *)
Grows(F, G) ==
  \A f \in F : \E g \in G : Len(f) <= Len(g) /\ \A i \in 1 .. Len(f) : g[i] = f[i]

LEMMA GrowsInto ==
  ASSUME NEW F \in SUBSET Seq(Line), NEW G \in SUBSET Seq(Line), Apart(F), Apart(G), Grows(F, G),
         NEW f \in F, NEW i \in 1 .. Len(f), NEW g \in G, NEW j \in 1 .. Len(g), f[i] = g[j]
  PROVE  i = j /\ Len(f) <= Len(g) /\ \A k \in 1 .. Len(f) : g[k] = f[k]
<1>1. PICK h \in G : Len(f) <= Len(h) /\ \A k \in 1 .. Len(f) : h[k] = f[k]
  BY DEF Grows
<1>2. i \in 1 .. Len(h) /\ h[i] = g[j]
  BY <1>1
<1>3. h[i].uid = g[j].uid /\ h[i].leg = g[j].leg
  BY <1>2
<1>4. h = g /\ i = j
  BY <1>2, <1>3 DEF Apart
<1>5. QED
  BY <1>1, <1>4

LEMMA GrowsApart ==
  ASSUME NEW F \in SUBSET Seq(Line), NEW G \in SUBSET Seq(Line), Apart(F), Apart(G), Grows(F, G),
         NEW f \in F, NEW h \in F, NEW i \in 1 .. Len(f), NEW m \in 1 .. Len(h),
         NEW g \in G, NEW j \in 1 .. Len(g), NEW k \in 1 .. Len(g), f[i] = g[j], h[m] = g[k]
  PROVE  f = h
<1>1. /\ Len(f) \in Nat /\ Len(h) \in Nat
      /\ \A n \in 1 .. Len(f) : g[n] = f[n]
      /\ \A n \in 1 .. Len(h) : g[n] = h[n]
  BY GrowsInto
<1>2. 1 \in 1 .. Len(f) /\ 1 \in 1 .. Len(h)
  BY <1>1
<1>3. f[1] = h[1]
  BY <1>1, <1>2
<1>4. f[1].uid = h[1].uid /\ f[1].leg = h[1].leg
  BY <1>3
<1>5. QED
  BY <1>2, <1>4 DEF Apart

LEMMA GrowsSplit ==
  ASSUME NEW F \in SUBSET Seq(Line), NEW G \in SUBSET Seq(Line), Apart(F), Apart(G), Grows(F, G),
         NEW u, SplitIn(F, u)
  PROVE  SplitIn(G, u)
<1>1. PICK f \in F, h \in F : \E l \in Lines(f), k \in Lines(h) : f # h /\ l.uid = u /\ k.uid = u
  BY DEF SplitIn
<1>2. PICK i \in 1 .. Len(f), m \in 1 .. Len(h) : f # h /\ f[i].uid = u /\ h[m].uid = u
  BY <1>1 DEF Lines
<1>3. PICK g \in G : Len(f) <= Len(g) /\ \A n \in 1 .. Len(f) : g[n] = f[n]
  BY DEF Grows
<1>4. PICK k \in G : Len(h) <= Len(k) /\ \A n \in 1 .. Len(h) : k[n] = h[n]
  BY DEF Grows
<1>5. /\ i \in 1 .. Len(g) /\ m \in 1 .. Len(k) /\ f[i] = g[i] /\ h[m] = k[m]
  BY <1>3, <1>4
<1>6. g # k
  <2>1. SUFFICES ASSUME g = k PROVE f = h
    BY <1>2
  <2>2. m \in 1 .. Len(g) /\ h[m] = g[m]
    BY <1>5, <2>1
  <2>3. QED
    BY <1>5, <2>2, GrowsApart
<1>7. g[i] \in Lines(g) /\ k[m] \in Lines(k) /\ g[i].uid = u /\ k[m].uid = u
  BY <1>2, <1>5 DEF Lines
<1>8. QED
  BY <1>6, <1>7 DEF SplitIn

LEMMA GrowsRight ==
  ASSUME NEW F \in SUBSET Seq(Line), NEW G \in SUBSET Seq(Line), Apart(F), Apart(G), Grows(F, G),
         NEW r, Right(F, r)
  PROVE  Right(G, r)
<1>1. PICK f \in F : \E i \in 1 .. Len(f) : RowOf(r, f, i)
  BY DEF Right
<1>2. PICK i \in 1 .. Len(f) : RowOf(r, f, i)
  BY <1>1
<1>3. PICK g \in G : Len(f) <= Len(g) /\ \A n \in 1 .. Len(f) : g[n] = f[n]
  BY DEF Grows
<1>4. i \in 1 .. Len(g) /\ g[i] = f[i]
  BY <1>3
<1>5. RowOf(r, g, i)
  BY <1>2, <1>4 DEF RowOf
<1>6. QED
  BY <1>4, <1>5 DEF Right

LEMMA GrowsLeads ==
  ASSUME NEW F \in SUBSET Seq(Line), NEW G \in SUBSET Seq(Line), Apart(F), Apart(G), Grows(F, G),
         NEW P, NEW r, Right(F, r), Leads(F, P, r)
  PROVE  Leads(G, P, r)
<1> SUFFICES ASSUME NEW g \in G, NEW j \in 1 .. Len(g), r.line = g[j], ~SplitIn(G, g[j].uid),
                    r.key = BaseKey(g[j].uid), g[j].uid \notin P
             PROVE  FirstOf(g, j)
  BY DEF Leads
<1>1. PICK f \in F : \E i \in 1 .. Len(f) : RowOf(r, f, i)
  BY DEF Right
<1>2. PICK i \in 1 .. Len(f) : f[i] = r.line
  BY <1>1 DEF RowOf
<1>3. i = j /\ Len(f) <= Len(g) /\ \A n \in 1 .. Len(f) : g[n] = f[n]
  BY <1>2, GrowsInto
<1>4. ~SplitIn(F, f[i].uid)
  <2>1. ~SplitIn(G, f[i].uid)
    BY <1>2
  <2>2. QED
    BY <2>1, GrowsSplit
<1>5. FirstOf(f, i)
  BY <1>2, <1>4 DEF Leads
<1>6. Len(f) \in Nat /\ i \in 1 .. Len(f) /\ g[i] = f[i]
  BY <1>3
<1>7. QED
  BY <1>3, <1>5, <1>6 DEF FirstOf

LEMMA GrowsOneEach ==
  ASSUME NEW F \in SUBSET Seq(Line), NEW G \in SUBSET Seq(Line), Apart(F), Apart(G), Grows(F, G),
         NEW R, OneEach(F, R)
  PROVE  OneEach(G, R)
<1>1. \A u : ~SplitIn(G, u) => ~SplitIn(F, u)
  BY GrowsSplit
<1>2. QED
  BY <1>1 DEF OneEach

LEMMA GrowsExact ==
  ASSUME NEW F \in SUBSET Seq(Line), NEW G \in SUBSET Seq(Line), Apart(F), Apart(G), Grows(F, G),
         NEW r, Right(F, r), Exact(F, r)
  PROVE  Exact(G, r)
<1> SUFFICES ASSUME NEW g \in G, NEW j \in 1 .. Len(g), r.line = g[j], ~SplitIn(G, g[j].uid),
                    r.key # BaseKey(g[j].uid)
             PROVE  r.key = LegKey(g[j], 1) /\ ~FirstOf(g, j)
  BY DEF Exact
<1>1. PICK f \in F : \E i \in 1 .. Len(f) : RowOf(r, f, i)
  BY DEF Right
<1>2. PICK i \in 1 .. Len(f) : f[i] = r.line
  BY <1>1 DEF RowOf
<1>3. i = j /\ Len(f) <= Len(g) /\ \A n \in 1 .. Len(f) : g[n] = f[n]
  BY <1>2, GrowsInto
<1>4. ~SplitIn(F, f[i].uid)
  <2>1. ~SplitIn(G, f[i].uid)
    BY <1>2
  <2>2. QED
    BY <2>1, GrowsSplit
<1>5. r.key = LegKey(f[i], 1) /\ ~FirstOf(f, i)
  BY <1>2, <1>4 DEF Exact
<1>6. ~FirstOf(g, j)
  BY <1>3, <1>5 DEF FirstOf
<1>7. QED
  BY <1>2, <1>5, <1>6

PlaceOK(F, pl) == pl = NoPlace \/ \E f \in F : At(pl, f)

LEMMA NowhereIs == \A f : ~At(NoPlace, f)
BY DEF NoPlace, At

LEMMA GrowsPlace ==
  ASSUME NEW F \in SUBSET Seq(Line), NEW G \in SUBSET Seq(Line), Grows(F, G),
         NEW pl, PlaceOK(F, pl)
  PROVE  PlaceOK(G, pl)
<1>1. SUFFICES ASSUME NEW f \in F, At(pl, f) PROVE \E g \in G : At(pl, g)
  BY DEF PlaceOK
<1>2. PICK g \in G : Len(f) <= Len(g) /\ \A n \in 1 .. Len(f) : g[n] = f[n]
  BY DEF Grows
<1>3. Len(f) \in Nat /\ Len(g) \in Nat /\ pl.offset \in 1 .. Len(f)
  BY <1>1 DEF At
<1>4. pl.offset \in 1 .. Len(g) /\ g[1] = f[1]
  BY <1>2, <1>3
<1>5. QED
  BY <1>1, <1>4 DEF At

(* The file of a place is the one that grew out of its file.               *)
LEMMA FileOfPlace ==
  ASSUME NEW F \in SUBSET Seq(Line), NEW G \in SUBSET Seq(Line), Apart(F), Apart(G), Grows(F, G),
         NEW pl, PlaceOK(F, pl), NEW g \in G, At(pl, g)
  PROVE  \E f \in F : At(pl, f) /\ Len(f) <= Len(g) /\ \A n \in 1 .. Len(f) : g[n] = f[n]
<1>1. PICK f \in F : At(pl, f)
  BY NowhereIs DEF PlaceOK
<1>2. Len(f) \in Nat /\ Len(g) \in Nat /\ 1 \in 1 .. Len(f) /\ 1 \in 1 .. Len(g) /\ f[1] = g[1]
  BY <1>1 DEF At
<1>3. QED
  BY <1>1, <1>2, GrowsInto

LEMMA GrowsComplete ==
  ASSUME NEW F \in SUBSET Seq(Line), NEW G \in SUBSET Seq(Line), Apart(F), Apart(G), Grows(F, G),
         NEW P, NEW pl, PlaceOK(F, pl), NEW R, Complete(F, P, pl, R)
  PROVE  Complete(G, P, pl, R)
<1> SUFFICES ASSUME NEW g \in G, At(pl, g), NEW m \in 1 .. pl.offset
             PROVE  g[m].uid \in P \/ BaseKey(g[m].uid) \in Keys(R)
  BY DEF Complete
<1>1. PICK f \in F : At(pl, f) /\ \A n \in 1 .. Len(f) : g[n] = f[n]
  BY FileOfPlace
<1>2. m \in 1 .. Len(f)
  BY <1>1 DEF At
<1>3. f[m].uid \in P \/ BaseKey(f[m].uid) \in Keys(R)
  BY <1>1 DEF Complete
<1>4. QED
  BY <1>1, <1>2, <1>3

LEMMA GrowsBounded ==
  ASSUME NEW F \in SUBSET Seq(Line), NEW G \in SUBSET Seq(Line), Apart(F), Apart(G), Grows(F, G),
         NEW pl, PlaceOK(F, pl), NEW R, \A r \in R : Right(F, r), Bounded(F, pl, R)
  PROVE  Bounded(G, pl, R)
<1> SUFFICES ASSUME NEW g \in G, At(pl, g), NEW r \in R, NEW j \in 1 .. Len(g), r.line = g[j]
             PROVE  j <= pl.offset
  BY DEF Bounded
<1>1. PICK f \in F : At(pl, f) /\ Len(f) <= Len(g) /\ \A n \in 1 .. Len(f) : g[n] = f[n]
  BY FileOfPlace
<1>2. PICK h \in F : \E i \in 1 .. Len(h) : RowOf(r, h, i)
  BY DEF Right
<1>3. PICK i \in 1 .. Len(h) : r.line = h[i]
  BY <1>2 DEF RowOf
<1>4. i = j
  <2>1. h[i] = g[j]
    BY <1>3
  <2>2. QED
    BY <2>1, GrowsInto
<1>5. 1 \in 1 .. Len(f) /\ 1 \in 1 .. Len(g) /\ f[1] = g[1]
  BY <1>1 DEF At
<1>6. h = f
  <2>1. h[i] = g[j] /\ f[1] = g[1]
    BY <1>3, <1>5
  <2>2. QED
    BY <1>5, <2>1, GrowsApart
<1>7. QED
  BY <1>1, <1>3, <1>4, <1>6 DEF Bounded

-----------------------------------------------------------------------------
(* The fold of an import.                                                  *)

(* What an import of a file from o on knows: the keys that count as taken  *)
(* are keys of rows, and those of all calls before o but P; lines after o  *)
(* have none of them, if that is known.                                    *)
Importing(F, P, c, o, T, R, exact) ==
  /\ c \in F /\ o \in 0 .. Len(c) /\ IsFiniteSet(T)
  /\ \A y \in T : \E r \in R : r.key = y
  /\ \A r \in R : Right(F, r)
  /\ \A m \in 1 .. o : c[m].uid \in P \/ BaseKey(c[m].uid) \in T
  /\ exact => \A r \in R : r.key \in T => \A i \in 1 .. Len(c) : r.line = c[i] => i <= o

(* And what it has after k lines.                                          *)
Fresh(F, P, c, o, T, exact, k, S, O) ==
  /\ IsFiniteSet(S) /\ T \subseteq S /\ O \in Seq([key : S, line : Line]) /\ Len(O) = k
  /\ \A y \in S : y \in T \/ \E j \in 1 .. k : O[j].key = y
  /\ \A j \in 1 .. k : /\ O[j].line = c[o + j] /\ BaseKey(c[o + j].uid) \in S
                       /\ Right(F, O[j]) /\ Leads(F, P, O[j]) /\ (exact => Exact(F, O[j]))

LEMMA FirstFreeIs ==
  ASSUME NEW l, NEW S, IsFiniteSet(S), LegKey(l, 1) \notin S
  PROVE  FirstFree(l, S) = 1
<1>1. Cardinality(S) \in Nat
  BY FS_CardinalityType
<1>2. 1 \in 1 .. Cardinality(S) + 1 /\ \A k \in 1 .. 1 - 1 : LegKey(l, k) \in S
  BY <1>1
<1>3. ASSUME NEW n \in 1 .. Cardinality(S) + 1, \A k \in 1 .. n - 1 : LegKey(l, k) \in S
      PROVE  n = 1
  <2>1. n \in Nat /\ n >= 1
    BY <1>1
  <2>2. ~(n > 1)
    BY <1>3, <2>1
  <2>3. QED
    BY <2>1, <2>2
<1>4. QED
  BY <1>2, <1>3 DEF FirstFree

(* The key of the next line.                                               *)
LEMMA NextKey ==
  ASSUME NEW F \in SUBSET Seq(Line), Apart(F), NEW P, NEW c, NEW o, NEW T, NEW R, NEW exact \in BOOLEAN,
         Importing(F, P, c, o, T, R, exact), NEW k \in 0 .. Len(c) - o - 1, NEW S, NEW O,
         Fresh(F, P, c, o, T, exact, k, S, O),
         NEW e, e = [key |-> KeyOf(c[o + k + 1], S), line |-> c[o + k + 1]]
  PROVE  Right(F, e) /\ Leads(F, P, e) /\ (exact => Exact(F, e))
<1> DEFINE i == o + k + 1
           l == c[i]
<1>1. /\ c \in F /\ o \in 0 .. Len(c) /\ Len(c) \in Nat /\ o \in Nat /\ k \in Nat
      /\ i \in 1 .. Len(c) /\ i \in Nat /\ l \in Line
  BY DEF Importing
<1> HIDE DEF i, l
<1>2. e.line = l /\ e.key = KeyOf(l, S) /\ l = c[i] /\ i = o + k + 1
  BY DEF i, l
<1>3. \A j \in 1 .. o : c[j].uid \in P \/ BaseKey(c[j].uid) \in S
  BY DEF Importing, Fresh
<1>4. ASSUME BaseKey(l.uid) \notin S, l.uid \notin P PROVE FirstOf(c, i)
  <2>1. SUFFICES ASSUME NEW j \in 1 .. i - 1, c[j].uid = l.uid PROVE FALSE
    BY <1>2 DEF FirstOf
  <2>2. ~(j <= o)
    BY <1>1, <1>2, <1>3, <1>4, <2>1
  <2>3. j - o \in 1 .. k /\ o + (j - o) = j
    BY <1>1, <1>2, <2>2
  <2>4. BaseKey(c[j].uid) \in S
    BY <2>3 DEF Fresh
  <2>5. QED
    BY <1>4, <2>1, <2>4
<1>5. \/ (KeyOf(l, S) = BaseKey(l.uid) /\ BaseKey(l.uid) \notin S)
      \/ (KeyOf(l, S) = LegKey(l, FirstFree(l, S)) /\ BaseKey(l.uid) \in S)
  BY DEF KeyOf
<1>6. Right(F, e)
  <2>1. RowOf(e, c, i)
    BY <1>2, <1>5 DEF RowOf
  <2>2. QED
    BY <1>1, <2>1 DEF Right
<1>9. Leads(F, P, e)
  <2> SUFFICES ASSUME NEW g \in F, NEW n \in 1 .. Len(g), e.line = g[n], g[n].uid \notin P,
                      e.key = BaseKey(g[n].uid)
               PROVE  FirstOf(g, n)
    BY DEF Leads
  <2>1. g = c /\ n = i
    <3>1. g[n].uid = c[i].uid /\ g[n].leg = c[i].leg
      BY <1>2
    <3>2. QED
      BY <1>1, <3>1 DEF Apart
  <2>2. l.uid \notin P /\ e.key = BaseKey(l.uid)
    BY <1>2, <2>1
  <2>3. BaseKey(l.uid) \notin S
    BY <1>1, <1>2, <1>5, <2>2, KeysDiffer
  <2>4. QED
    BY <1>4, <2>1, <2>2, <2>3
<1>7. ASSUME exact PROVE Exact(F, e)
  <2> SUFFICES ASSUME NEW g \in F, NEW n \in 1 .. Len(g), e.line = g[n], ~SplitIn(F, g[n].uid),
                      e.key # BaseKey(g[n].uid)
               PROVE  e.key = LegKey(g[n], 1) /\ ~FirstOf(g, n)
    BY DEF Exact
  <2>1. g = c /\ n = i
    <3>1. g[n].uid = c[i].uid /\ g[n].leg = c[i].leg
      BY <1>2
    <3>2. QED
      BY <1>1, <3>1 DEF Apart
  <2>2. ~SplitIn(F, l.uid) /\ e.key # BaseKey(l.uid)
    BY <1>2, <2>1
  <2>3. e.key = LegKey(l, FirstFree(l, S)) /\ BaseKey(l.uid) \in S
    BY <1>2, <1>5, <2>2
  (* A key that counts as taken is that of a row of a line before.         *)
  <2>4. ASSUME NEW y \in S
        PROVE  \E r : r.key = y /\ Right(F, r) /\ \A m \in 1 .. Len(c) : r.line = c[m] => m < i
    <3>1. CASE y \in T
      <4>1. PICK r \in R : r.key = y
        BY <3>1 DEF Importing
      <4>2. Right(F, r)
        BY DEF Importing
      <4>3. \A m \in 1 .. Len(c) : r.line = c[m] => m <= o
        BY <1>7, <3>1, <4>1 DEF Importing
      <4>4. \A m \in 1 .. Len(c) : r.line = c[m] => m < i
        BY <1>1, <1>2, <4>3
      <4>5. QED
        BY <4>1, <4>2, <4>4
    <3>2. CASE y \notin T
      <4>1. PICK j \in 1 .. k : O[j].key = y
        BY <3>2 DEF Fresh
      <4>2. Right(F, O[j]) /\ O[j].line = c[o + j]
        BY DEF Fresh
      <4>3. o + j \in 1 .. Len(c) /\ o + j < i
        BY <1>1, <1>2
      <4>4. ASSUME NEW m \in 1 .. Len(c), O[j].line = c[m] PROVE m < i
        <5>1. c[m].uid = c[o + j].uid /\ c[m].leg = c[o + j].leg
          BY <4>2, <4>4
        <5>2. m = o + j
          BY <1>1, <4>3, <5>1 DEF Apart
        <5>3. QED
          BY <4>3, <5>2
      <4>5. QED
        BY <4>1, <4>2, <4>4
    <3>3. QED
      BY <3>1, <3>2
  <2>5. LegKey(l, 1) \notin S
    <3>1. SUFFICES ASSUME LegKey(l, 1) \in S PROVE FALSE
      OBVIOUS
    <3>2. PICK r : /\ r.key = LegKey(l, 1) /\ Right(F, r)
                   /\ \A m \in 1 .. Len(c) : r.line = c[m] => m < i
      BY <2>4, <3>1
    <3>3. PICK f \in F : \E m \in 1 .. Len(f) : RowOf(r, f, m)
      BY <3>2 DEF Right
    <3>4. PICK m \in 1 .. Len(f) : RowOf(r, f, m)
      BY <3>3
    <3>5. PICK q : r.key = LegKey(f[m], q)
      BY <1>1, <3>2, <3>4, KeysDiffer DEF RowOf
    <3>6. LegKey(f[m], q) = LegKey(l, 1)
      BY <3>2, <3>5
    <3>7. f[m].uid = c[i].uid /\ f[m].leg = c[i].leg
      BY <1>2, <3>6, SameKey
    <3>8. f = c /\ m = i
      BY <1>1, <3>7 DEF Apart
    <3>9. r.line = c[i]
      BY <3>4, <3>8 DEF RowOf
    <3>10. QED
      BY <1>1, <3>2, <3>9
  <2>6. ~FirstOf(c, i)
    <3>1. PICK r : /\ r.key = BaseKey(l.uid) /\ Right(F, r)
                   /\ \A m \in 1 .. Len(c) : r.line = c[m] => m < i
      BY <2>3, <2>4
    <3>2. PICK f \in F : \E m \in 1 .. Len(f) : RowOf(r, f, m)
      BY <3>1 DEF Right
    <3>3. PICK m \in 1 .. Len(f) : RowOf(r, f, m)
      BY <3>2
    <3>4. f[m] \in Line
      OBVIOUS
    <3>5. BaseKey(l.uid) = BaseKey(f[m].uid)
      BY <3>1, <3>3, <3>4, KeysDiffer DEF RowOf
    <3>6. f[m].uid = l.uid
      BY <3>5, SameKey
    <3>7. f = c
      <4>1. f[m] \in Lines(f) /\ c[i] \in Lines(c)
        BY <1>1 DEF Lines
      <4>2. QED
        BY <1>1, <1>2, <2>2, <3>6, <4>1 DEF SplitIn
    <3>8. r.line = c[m] /\ m \in 1 .. Len(c)
      BY <3>3, <3>7 DEF RowOf
    <3>9. m < i
      BY <3>1, <3>8
    <3>10. m \in 1 .. i - 1 /\ c[m].uid = c[i].uid
      BY <1>1, <1>2, <3>6, <3>7, <3>9
    <3>11. QED
      BY <3>10 DEF FirstOf
  <2>7. FirstFree(l, S) = 1
    BY <2>5, FirstFreeIs DEF Fresh
  <2>8. QED
    BY <1>2, <2>1, <2>3, <2>6, <2>7
<1>8. QED
  BY <1>6, <1>7, <1>9

(* One more line.                                                          *)
LEMMA FreshStep ==
  ASSUME NEW F \in SUBSET Seq(Line), Apart(F), NEW P, NEW c, NEW o, NEW T, NEW R, NEW exact \in BOOLEAN,
         Importing(F, P, c, o, T, R, exact), NEW k \in 0 .. Len(c) - o - 1, NEW S, NEW O,
         Fresh(F, P, c, o, T, exact, k, S, O), NEW K, K = KeyOf(c[o + k + 1], S)
  PROVE  Fresh(F, P, c, o, T, exact, k + 1, S \cup {K}, Append(O, [key |-> K, line |-> c[o + k + 1]]))
<1> DEFINE l == c[o + k + 1]
           e == [key |-> K, line |-> l]
           Q == Append(O, e)
           U == S \cup {K}
<1>1. /\ c \in F /\ o \in 0 .. Len(c) /\ Len(c) \in Nat /\ o \in Nat /\ k \in Nat
      /\ o + k + 1 \in 1 .. Len(c)
  BY DEF Importing
<1>2. l \in Line
  BY <1>1
<1>3. Right(F, e) /\ Leads(F, P, e) /\ (exact => Exact(F, e))
  BY NextKey
<1>4. e.key = K /\ e.line = l
  OBVIOUS
<1>5. BaseKey(l.uid) \in U
  BY DEF KeyOf
<1>6. e \in [key : U, line : Line]
  BY <1>2
<1> HIDE DEF l, e
<1>7. /\ Q \in Seq([key : U, line : Line]) /\ Len(Q) = k + 1
      /\ Q[k + 1] = e /\ \A j \in 1 .. k : Q[j] = O[j]
  <2>1. O \in Seq([key : S, line : Line]) /\ Len(O) = k
    BY DEF Fresh
  <2>2. [key : S, line : Line] \subseteq [key : U, line : Line]
    OBVIOUS
  <2> DEFINE A == [key : S, line : Line]
             B == [key : U, line : Line]
  <2>3. O \in Seq(A) /\ A \subseteq B /\ e \in B
    BY <1>6, <2>1, <2>2
  <2> HIDE DEF A, B
  <2>4. O \in Seq(B)
    BY <2>3
  <2>5. Q \in Seq(B) /\ Len(Q) = k + 1 /\ Q[k + 1] = e /\ \A j \in 1 .. k : Q[j] = O[j]
    BY <1>1, <2>1, <2>3, <2>4
  <2>6. QED
    BY <2>5 DEF B
<1> HIDE DEF Q, U
<1>8. IsFiniteSet(U) /\ T \subseteq U
  BY FS_AddElement DEF Fresh, U
<1>9. ASSUME NEW y \in U PROVE y \in T \/ \E j \in 1 .. k + 1 : Q[j].key = y
  <2>1. CASE y \in S
    <3>1. y \in T \/ \E j \in 1 .. k : O[j].key = y
      BY <2>1 DEF Fresh
    <3>2. QED
      BY <1>1, <1>7, <3>1
  <2>2. CASE y = K
    BY <1>1, <1>4, <1>7, <2>2
  <2>3. QED
    BY <2>1, <2>2 DEF U
<1>10. ASSUME NEW j \in 1 .. k + 1
       PROVE  /\ Q[j].line = c[o + j] /\ BaseKey(c[o + j].uid) \in U
              /\ Right(F, Q[j]) /\ Leads(F, P, Q[j]) /\ (exact => Exact(F, Q[j]))
  <2>1. CASE j = k + 1
    <3>1. Q[j] = e /\ o + j = o + k + 1
      BY <1>1, <1>7, <2>1
    <3>2. QED
      BY <1>3, <1>4, <1>5, <3>1 DEF l
  <2>2. CASE j # k + 1
    <3>1. j \in 1 .. k /\ Q[j] = O[j]
      BY <1>1, <1>7, <2>2
    <3>2. QED
      BY <3>1 DEF Fresh, U
  <2>3. QED
    BY <2>1, <2>2
<1>11. QED
  BY <1>7, <1>8, <1>9, <1>10 DEF Fresh, Q, e, l, U

(* The lines up to one.                                                    *)
LEMMA FoldFresh ==
  ASSUME NEW F \in SUBSET Seq(Line), Apart(F), NEW P, NEW c, NEW o, NEW T, NEW R, NEW exact \in BOOLEAN,
         Importing(F, P, c, o, T, R, exact), NEW free, NEW last \in o .. Len(c)
  PROVE  \E S, Q, O :
           /\ FoldOf([seen |-> T, free |-> free, out |-> <<>>], SubSeq(c, o + 1, last)) = [seen |-> S, free |-> Q, out |-> O]
           /\ Fresh(F, P, c, o, T, exact, last - o, S, O)
<1> DEFINE s == SubSeq(c, o + 1, last)
           n == last - o
           start == [seen |-> T, free |-> free, out |-> <<>>]
<1>1. /\ c \in Seq(Line) /\ o \in 0 .. Len(c) /\ Len(c) \in Nat /\ o \in Nat /\ n \in Nat
      /\ last \in Nat /\ last <= Len(c)
  BY DEF Importing
<1>2. DOMAIN s = 1 .. n /\ \A k \in 1 .. n : s[k] = c[o + k]
  BY <1>1
<1> HIDE DEF s, n
<1>3. PICK a : /\ a[0] = start
               /\ a[n] = FoldOf(start, s)
               /\ \A k \in 0 .. n - 1 : a[k + 1] = StoreLine(s[k + 1], a[k])
  <2> HIDE DEF start
  <2>1. QED
    BY <1>1, <1>2, FoldSteps
<1> DEFINE Good(k) == \E S, Q, O : /\ a[k] = [seen |-> S, free |-> Q, out |-> O]
                                  /\ Fresh(F, P, c, o, T, exact, k, S, O)
           M == {k \in Nat : k <= n => Good(k)}
<1>4. 0 \in M
  <2>1. Fresh(F, P, c, o, T, exact, 0, T, <<>>)
    BY DEF Fresh, Importing
  <2>2. Good(0)
    BY <1>3, <2>1
  <2>3. QED
    BY <2>2
<1>5. ASSUME NEW k \in M PROVE k + 1 \in M
  <2>1. SUFFICES ASSUME k + 1 <= n PROVE Good(k + 1)
    <3> HIDE DEF Good
    <3>1. QED
      OBVIOUS
  <2>2. k \in 0 .. n - 1 /\ k \in Nat /\ k <= n
    BY <1>1, <2>1
  <2>3. PICK S, Q, O : /\ a[k] = [seen |-> S, free |-> Q, out |-> O]
                       /\ Fresh(F, P, c, o, T, exact, k, S, O)
    BY <2>2
  <2> DEFINE l == c[o + k + 1]
             K == KeyOf(l, S)
  <2>4. a[k + 1] = StoreLine(l, [seen |-> S, free |-> Q, out |-> O])
    <3>1. k + 1 \in 1 .. n /\ o + (k + 1) = o + k + 1
      BY <1>1, <2>2
    <3>2. s[k + 1] = c[o + k + 1]
      BY <1>2, <3>1
    <3>3. QED
      BY <1>3, <2>2, <2>3, <3>2
  <2>5. PICK f : a[k + 1] = [seen |-> S \cup {K}, free |-> f,
                             out |-> Append(O, [key |-> K, line |-> l])]
    <3> HIDE DEF l
    <3>1. \E f : StoreLine(l, [seen |-> S, free |-> Q, out |-> O])
                   = [seen |-> S \cup {KeyOf(l, S)}, free |-> f,
                      out |-> Append(O, [key |-> KeyOf(l, S), line |-> l])]
      BY StoreIs
    <3>2. QED
      BY <2>4, <3>1
  <2>6. k \in 0 .. Len(c) - o - 1
    BY <1>1, <2>2 DEF n
  <2>7. Fresh(F, P, c, o, T, exact, k + 1, S \cup {K}, Append(O, [key |-> K, line |-> l]))
    BY <2>3, <2>6, FreshStep
  <2>8. QED
    BY <2>5, <2>7
<1> HIDE DEF M
<1>6. M = Nat
  <2>1. M \in SUBSET Nat
    BY DEF M
  <2>2. QED
    BY <1>4, <1>5, <2>1, Induction
<1>7. Good(n)
  <2> HIDE DEF Good
  <2>1. n \in M
    BY <1>1, <1>6
  <2>2. QED
    BY <1>1, <2>1 DEF M
<1>8. QED
  BY <1>3, <1>7 DEF s, n

-----------------------------------------------------------------------------
(* The invariant.                                                          *)

Table(F, P, R, exact) ==
  /\ IsFiniteSet(Keys(R))
  /\ \A r \in R : /\ r = [key |-> r.key, line |-> r.line]
                  /\ Right(F, r) /\ Leads(F, P, r) /\ (exact => Exact(F, r))

Uids(L) == { l.uid : l \in L }

(* The files, the rows, the place saved, the import under way, whether a    *)
(* place was not saved, and the calls with legs that were read past; the    *)
(* import under way may add some.                                          *)
GoodImport(F, R, pl, im, un, P) ==
  /\ F \subseteq Seq(Line) /\ Apart(F)
  /\ un \in BOOLEAN
  /\ Table(F, P, R, ~un) /\ (~un => OneEach(F, R))
  /\ PlaceOK(F, pl) /\ Complete(F, P, pl, R)
  /\ ~un /\ (im.pc = "save" => im.out = <<>>) => Bounded(F, pl, R)
  /\ im.pc \in {"idle", "commit", "save"}
  /\ im = [pc |-> im.pc, by |-> im.by, out |-> im.out, place |-> im.place, lost |-> im.lost]
  /\ PlaceOK(F, im.place)
  /\ im.pc = "save" => Complete(F, P \cup Uids(im.lost), im.place, R) /\ Bounded(F, im.place, R)
  /\ im.pc = "commit" => /\ Table(F, P, Lines(im.out), ~un)
                         /\ ~un => OneEach(F, Upsert(R, im.out))
                         /\ Complete(F, P \cup Uids(im.lost), im.place, R \cup Lines(im.out))
                         /\ Bounded(F, im.place, R \cup Lines(im.out))

ImportInv ==
  GoodImport(Files, rows, place, imp, unsaved, Uids(passed)) /\ (csv \in rotated => csv = <<>>)

LEMMA KeysOf ==
  /\ \A R, O : Keys(R \cup O) = Keys(R) \cup Keys(O)
  /\ \A R, O : Keys(R) \subseteq Keys(R \cup O)
  /\ \A R, y : y \in Keys(R) <=> \E r \in R : r.key = y
  /\ Keys({}) = {}
BY DEF Keys

LEMMA GrowsTable ==
  ASSUME NEW F \in SUBSET Seq(Line), NEW G \in SUBSET Seq(Line), Apart(F), Apart(G), Grows(F, G),
         NEW P, NEW R, NEW exact, Table(F, P, R, exact)
  PROVE  Table(G, P, R, exact)
<1> SUFFICES ASSUME NEW r \in R PROVE Right(G, r) /\ Leads(G, P, r) /\ (exact => Exact(G, r))
  BY DEF Table
<1>1. Right(F, r) /\ Leads(F, P, r) /\ (exact => Exact(F, r))
  BY DEF Table
<1>2. QED
  BY <1>1, GrowsRight, GrowsLeads, GrowsExact

LEMMA GrowsGood ==
  ASSUME NEW F, NEW G \in SUBSET Seq(Line), Apart(G), Grows(F, G),
         NEW R, NEW pl, NEW im, NEW un, NEW P, GoodImport(F, R, pl, im, un, P)
  PROVE  GoodImport(G, R, pl, im, un, P)
<1> DEFINE Q == P \cup Uids(im.lost)
<1>1. /\ F \in SUBSET Seq(Line) /\ Apart(F) /\ Table(F, P, R, ~un)
      /\ PlaceOK(F, pl) /\ PlaceOK(F, im.place)
  BY DEF GoodImport
<1>2. PlaceOK(G, pl) /\ PlaceOK(G, im.place)
  BY <1>1, GrowsPlace
<1>3. Table(G, P, R, ~un)
  BY <1>1, GrowsTable
<1>4. Complete(G, P, pl, R)
  BY <1>1, GrowsComplete DEF GoodImport
<1>5. \A r \in R : Right(F, r)
  BY <1>1 DEF Table
<1>6. ~un /\ (im.pc = "save" => im.out = <<>>) => Bounded(G, pl, R)
  BY <1>1, <1>5, GrowsBounded DEF GoodImport
<1>7. ASSUME im.pc = "save" PROVE Complete(G, Q, im.place, R) /\ Bounded(G, im.place, R)
  <2>1. Complete(F, Q, im.place, R) /\ Bounded(F, im.place, R)
    BY <1>7 DEF GoodImport
  <2> HIDE DEF Q
  <2>2. QED
    BY <1>1, <1>5, <2>1, GrowsComplete, GrowsBounded
<1>8. ASSUME im.pc = "commit"
      PROVE  /\ Table(G, P, Lines(im.out), ~un)
             /\ ~un => OneEach(G, Upsert(R, im.out))
             /\ Complete(G, Q, im.place, R \cup Lines(im.out))
             /\ Bounded(G, im.place, R \cup Lines(im.out))
  <2>1. /\ Table(F, P, Lines(im.out), ~un)
        /\ ~un => OneEach(F, Upsert(R, im.out))
        /\ Complete(F, Q, im.place, R \cup Lines(im.out))
        /\ Bounded(F, im.place, R \cup Lines(im.out))
    BY <1>8 DEF GoodImport
  <2>2. \A r \in R \cup Lines(im.out) : Right(F, r)
    BY <1>5, <2>1 DEF Table
  <2> HIDE DEF Q
  <2>3. Table(G, P, Lines(im.out), ~un)
    BY <1>1, <2>1, GrowsTable
  <2>4. ~un => OneEach(G, Upsert(R, im.out))
    BY <1>1, <2>1, GrowsOneEach
  <2>5. QED
    BY <1>1, <2>1, <2>2, <2>3, <2>4, GrowsComplete, GrowsBounded
<1>9. ~un => OneEach(G, R)
  BY <1>1, GrowsOneEach DEF GoodImport
<1>10. QED
  BY <1>2, <1>3, <1>4, <1>6, <1>7, <1>8, <1>9 DEF GoodImport

LEMMA HeadIs ==
  ASSUME csv \in Seq(Line), 1 \in 1 .. Len(csv)
  PROVE  Head512[1] = csv[1]
<1> DEFINE n == IF Len(csv) < HeadLines THEN Len(csv) ELSE HeadLines
<1>1. n \in Nat /\ 1 <= n /\ n <= Len(csv)
  BY HeadAssumption
<1> HIDE DEF n
<1>2. SubSeq(csv, 1, n)[1] = csv[1]
  BY <1>1
<1>3. QED
  BY <1>2 DEF Head512, n

(* What an import has read.                                                *)
LEMMA WhatIsRead ==
  ASSUME ImportInv, imp.pc = "idle", csv # <<>>, NEW last \in source_offset .. Len(csv)
  PROVE  /\ source_offset \in 0 .. Len(csv)
         /\ Table(Files, Uids(passed), Lines(new_records(last)), ~unsaved)
         /\ ~unsaved => OneEach(Files, Upsert(rows, new_records(last)))
         /\ \A m \in 1 .. last : \/ csv[m].uid \in Uids(passed)
                                 \/ BaseKey(csv[m].uid) \in Keys(rows \cup Lines(new_records(last)))
         /\ last = source_offset => new_records(last) = <<>>
<1> DEFINE o == source_offset
           T == Taken
           F == Files
           exact == ~unsaved
           P == IF reset_source THEN {} ELSE Uids(passed)
<1>1. /\ F \in SUBSET Seq(Line) /\ Apart(F) /\ csv \in F /\ csv \in Seq(Line) /\ Len(csv) \in Nat
      /\ exact \in BOOLEAN
  BY DEF ImportInv, GoodImport, Files
<1>2. /\ Table(F, Uids(passed), rows, exact) /\ PlaceOK(F, place)
      /\ Complete(F, Uids(passed), place, rows)
      /\ (exact => Bounded(F, place, rows) /\ OneEach(F, rows))
  BY DEF ImportInv, GoodImport
<1>3. Importing(F, P, csv, o, T, rows, exact)
  <2>1. \A y \in Keys(rows) : \E r \in rows : r.key = y
    BY KeysOf
  <2>2. \A r \in rows : Right(F, r)
    BY <1>2 DEF Table
  <2>3. CASE reset_source
    <3>1. o = 0 /\ T = {}
      BY <2>3 DEF source_offset, Taken
    <3> HIDE DEF o, T, F, P, exact
    <3>2. QED
      BY <1>1, <2>2, <3>1, FS_EmptySet DEF Importing
  <2>4. CASE ~reset_source
    <3>1. /\ o = place.offset /\ T = Keys(rows)
          /\ place # NoPlace /\ ~(place.offset > Len(csv)) /\ place.head = Head512
      BY <2>4 DEF source_offset, Taken, reset_source
    <3>2. PICK f \in F : At(place, f)
      BY <1>2, <3>1 DEF PlaceOK
    <3>3. Len(f) \in Nat /\ place.offset \in Nat /\ 1 <= place.offset
      BY <1>1, <3>2 DEF At
    <3>4. place.offset \in 1 .. Len(csv) /\ 1 \in 1 .. Len(csv)
      BY <1>1, <3>1, <3>3
    <3>5. Head512[1] = csv[1]
      BY <1>1, <3>4, HeadIs
    <3>6. At(place, csv)
      BY <3>1, <3>4, <3>5 DEF At
    <3>7. \A m \in 1 .. o : csv[m].uid \in P \/ BaseKey(csv[m].uid) \in T
      BY <1>1, <1>2, <2>4, <3>1, <3>6 DEF Complete
    <3>8. exact => \A r \in rows : \A i \in 1 .. Len(csv) : r.line = csv[i] => i <= o
      BY <1>1, <1>2, <3>1, <3>6 DEF Bounded
    <3>9. o \in 0 .. Len(csv) /\ IsFiniteSet(T)
      BY <1>1, <1>2, <3>1, <3>4 DEF Table
    <3>10. \A y \in T : \E r \in rows : r.key = y
      BY <2>1, <3>1
    <3> HIDE DEF o, T, F, P, exact
    <3>11. QED
      BY <1>1, <2>2, <3>7, <3>8, <3>9, <3>10 DEF Importing
  <2>5. QED
    BY <2>3, <2>4
<1>12. P \subseteq Uids(passed)
  OBVIOUS
<1>13. reset_source => P = {} /\ T = {} /\ o = 0
  BY DEF Taken, source_offset
<1>14. ~reset_source /\ exact => \A r \in rows : \A i \in 1 .. Len(csv) : r.line = csv[i] => i <= o
  <2>1. SUFFICES ASSUME ~reset_source, exact
                 PROVE  \A r \in rows : \A i \in 1 .. Len(csv) : r.line = csv[i] => i <= o
    OBVIOUS
  <2>2. T = Keys(rows)
    BY <2>1 DEF Taken
  <2>3. \A r \in rows : r.key \in T
    BY <2>2, KeysOf
  <2> HIDE DEF o, T, F, P, exact
  <2>4. QED
    BY <1>3, <2>1, <2>3 DEF Importing
<1> DEFINE n == last - o
<1>4. PICK S, Q, O :
        /\ FoldOf([seen |-> T, free |-> Candidates, out |-> <<>>], SubSeq(csv, o + 1, last))
             = [seen |-> S, free |-> Q, out |-> O]
        /\ Fresh(F, P, csv, o, T, exact, n, S, O)
  <2>0. last \in o .. Len(csv)
    OBVIOUS
  <2> HIDE DEF o, T, F, P, exact
  <2>1. QED
    BY <1>1, <1>3, <2>0, FoldFresh
<1>5. new_records(last) = O
  <2>1. new_records(last) = FoldOf([seen |-> Taken, free |-> Candidates, out |-> <<>>],
                                   SubSeq(csv, source_offset + 1, last)).out
    BY DEF new_records, FoldOf
  <2>2. new_records(last) = [seen |-> S, free |-> Q, out |-> O].out
    BY <1>4, <2>1
  <2>3. QED
    BY <2>2
<1>6. /\ o \in 0 .. Len(csv) /\ T \subseteq Keys(rows) /\ last \in o .. Len(csv)
      /\ \A m \in 1 .. o : csv[m].uid \in P \/ BaseKey(csv[m].uid) \in T
  <2>0. last \in o .. Len(csv)
    OBVIOUS
  <2> HIDE DEF o, T, F, P, exact
  <2>1. QED
    BY <1>3, <2>0, KeysOf DEF Importing
<1> HIDE DEF o, T, F, P, exact
<1>7. /\ O \in Seq([key : S, line : Line]) /\ Len(O) = n /\ n \in Nat /\ IsFiniteSet(S)
      /\ DOMAIN O = 1 .. n /\ \A j \in 1 .. n : O[j] \in [key : S, line : Line]
  <2>1. O \in Seq([key : S, line : Line]) /\ Len(O) = n /\ IsFiniteSet(S)
    BY <1>4 DEF Fresh
  <2>2. n \in Nat
    BY <1>1, <1>6
  <2> DEFINE A == [key : S, line : Line]
  <2>3. O \in Seq(A) /\ Len(O) = n
    BY <2>1
  <2> HIDE DEF A, n
  <2>4. DOMAIN O = 1 .. n /\ \A j \in 1 .. n : O[j] \in A
    BY <2>2, <2>3
  <2>5. QED
    BY <2>1, <2>2, <2>4 DEF A
<1>8. Table(F, Uids(passed), Lines(O), exact)
  <2>1. ASSUME NEW r \in Lines(O)
        PROVE  /\ r = [key |-> r.key, line |-> r.line] /\ r.key \in S
               /\ Right(F, r) /\ Leads(F, Uids(passed), r) /\ (exact => Exact(F, r))
    <3>1. PICK j \in 1 .. n : r = O[j]
      BY <1>7 DEF Lines
    <3>2. r \in [key : S, line : Line]
      BY <1>7, <3>1
    <3>3. r = [key |-> r.key, line |-> r.line] /\ r.key \in S
      BY <3>2
    <3>4. Right(F, r) /\ Leads(F, P, r) /\ (exact => Exact(F, r))
      BY <1>4, <3>1 DEF Fresh
    <3>5. Leads(F, Uids(passed), r)
      BY <1>12, <3>4 DEF Leads
    <3>6. QED
      BY <3>3, <3>4, <3>5
  <2>2. Keys(Lines(O)) \subseteq S
    BY <2>1, KeysOf
  <2>3. IsFiniteSet(Keys(Lines(O)))
    BY <1>7, <2>2, FS_Subset
  <2>4. QED
    BY <2>1, <2>3 DEF Table
<1>9. ASSUME NEW m \in 1 .. last
      PROVE  csv[m].uid \in Uids(passed) \/ BaseKey(csv[m].uid) \in Keys(rows \cup Lines(O))
  <2>1. CASE m <= o
    <3>1. m \in 1 .. o
      BY <1>1, <1>6, <2>1
    <3>2. csv[m].uid \in P \/ BaseKey(csv[m].uid) \in T
      BY <1>6, <3>1
    <3>3. QED
      BY <1>6, <1>12, <3>2, KeysOf
  <2>2. CASE ~(m <= o)
    <3>1. m - o \in 1 .. n /\ o + (m - o) = m
      BY <1>1, <1>6, <2>2
    <3>2. BaseKey(csv[m].uid) \in S
      BY <1>4, <3>1 DEF Fresh
    <3>3. CASE BaseKey(csv[m].uid) \in T
      BY <1>6, <3>3, KeysOf
    <3>4. CASE BaseKey(csv[m].uid) \notin T
      <4>1. PICK j \in 1 .. n : O[j].key = BaseKey(csv[m].uid)
        BY <1>4, <3>2, <3>4 DEF Fresh
      <4>2. O[j] \in Lines(O)
        BY <1>7 DEF Lines
      <4>3. QED
        BY <4>1, <4>2, KeysOf
    <3>5. QED
      BY <3>3, <3>4
  <2>3. QED
    BY <2>1, <2>2
<1>10. ASSUME last = o PROVE O = <<>>
  BY <1>1, <1>6, <1>7, <1>10
(* A line that is read has no row yet, or, when the file is read from its    *)
(* start, its row has the key it gets, or a key that another line gets.     *)
<1>15. ASSUME exact, NEW r \in rows, r.key \notin Keys(Lines(O)), NEW j \in 1 .. n,
              r.line = O[j].line, ~SplitIn(F, r.line.uid)
       PROVE  r.key = O[j].key
  <2>1. /\ O[j].line = csv[o + j] /\ BaseKey(csv[o + j].uid) \in S
        /\ Right(F, O[j]) /\ Leads(F, P, O[j]) /\ Exact(F, O[j])
    BY <1>4, <1>15 DEF Fresh
  <2>2. o + j \in 1 .. Len(csv) /\ ~(o + j <= o)
    BY <1>1, <1>6
  <2>3. P = {} /\ T = {}
    BY <1>13, <1>14, <1>15, <2>1, <2>2
  <2>4. BaseKey(csv[o + j].uid) \in Keys(Lines(O))
    <3>1. PICK i \in 1 .. n : O[i].key = BaseKey(csv[o + j].uid)
      BY <1>4, <2>1, <2>3 DEF Fresh
    <3>2. O[i] \in Lines(O)
      BY <1>7 DEF Lines
    <3>3. QED
      BY <3>1, <3>2, KeysOf
  <2>5. Exact(F, r) /\ r.line = csv[o + j] /\ r.key # BaseKey(csv[o + j].uid)
    BY <1>2, <1>15, <2>1, <2>4 DEF Table
  <2>6. r.key = LegKey(csv[o + j], 1) /\ ~FirstOf(csv, o + j)
    BY <1>1, <1>15, <2>2, <2>5 DEF Exact
  <2>7. O[j].key # BaseKey(csv[o + j].uid)
    BY <1>1, <1>15, <2>1, <2>2, <2>3, <2>6 DEF Leads
  <2>8. O[j].key = LegKey(csv[o + j], 1)
    BY <1>1, <1>15, <2>1, <2>2, <2>7 DEF Exact
  <2>9. QED
    BY <2>6, <2>8
<1>16. exact => OneEach(F, Upsert(rows, O))
  <2> SUFFICES ASSUME exact, NEW r \in Upsert(rows, O), NEW s \in Upsert(rows, O),
                      r.line = s.line, ~SplitIn(F, r.line.uid)
               PROVE  r.key = s.key
    BY DEF OneEach
  <2>1. \A x \in Upsert(rows, O) : \/ x \in rows /\ x.key \notin Keys(Lines(O))
                                  \/ \E j \in 1 .. n : x = O[j]
    BY <1>7 DEF Upsert, Lines
  <2>2. CASE r \in rows /\ s \in rows
    BY <1>2, <2>2 DEF OneEach
  <2>3. ASSUME NEW i \in 1 .. n, NEW j \in 1 .. n, r = O[i], s = O[j] PROVE r.key = s.key
    <3>1. csv[o + i] = csv[o + j] /\ o + i \in 1 .. Len(csv) /\ o + j \in 1 .. Len(csv)
      BY <1>1, <1>4, <1>6, <2>3 DEF Fresh
    <3>2. csv[o + i].uid = csv[o + j].uid /\ csv[o + i].leg = csv[o + j].leg
      BY <3>1
    <3>3. o + i = o + j
      BY <1>1, <3>1, <3>2 DEF Apart
    <3>4. i = j
      BY <1>1, <1>6, <3>3
    <3>5. QED
      BY <2>3, <3>4
  <2>4. CASE r \in rows /\ r.key \notin Keys(Lines(O)) /\ \E j \in 1 .. n : s = O[j]
    BY <1>15, <2>4
  <2>5. CASE s \in rows /\ s.key \notin Keys(Lines(O)) /\ \E j \in 1 .. n : r = O[j]
    <3>1. PICK j \in 1 .. n : r = O[j]
      BY <2>5
    <3>2. s.line = O[j].line /\ ~SplitIn(F, s.line.uid)
      BY <3>1
    <3>3. s.key = O[j].key
      BY <1>15, <2>5, <3>2
    <3>4. QED
      BY <3>1, <3>3
  <2>6. QED
    BY <2>1, <2>2, <2>3, <2>4, <2>5
<1>11. QED
  BY <1>5, <1>6, <1>8, <1>9, <1>10, <1>16 DEF o, F, exact

-----------------------------------------------------------------------------
(* The steps.                                                              *)

LEMMA NoPlaceGood ==
  ASSUME NEW F, NEW R, NEW P
  PROVE  PlaceOK(F, NoPlace) /\ Complete(F, P, NoPlace, R) /\ Bounded(F, NoPlace, R)
BY NowhereIs DEF PlaceOK, Complete, Bounded

LEMMA ReadKeeps ==
  ASSUME ImportInv, NEW who, sync_reads(who)
  PROVE  ImportInv'
<1> DEFINE F == Files
           P == Uids(passed)
           pl == [offset |-> Len(csv), head |-> Head512]
<1>1. /\ imp.pc = "idle" /\ csv # <<>>
      /\ UNCHANGED <<rows, place, unsaved, passed, csv, rotated>> /\ Files' = F /\ Uids(passed)' = P
  BY DEF sync_reads, Imports, Files, Uids
<1>2. /\ F \subseteq Seq(Line) /\ Apart(F) /\ csv \in F /\ csv \in Seq(Line)
      /\ unsaved \in BOOLEAN /\ Table(F, P, rows, ~unsaved) /\ (~unsaved => OneEach(F, rows))
      /\ PlaceOK(F, place) /\ Complete(F, P, place, rows)
      /\ (~unsaved => Bounded(F, place, rows)) /\ (csv \in rotated => csv = <<>>)
  BY <1>1 DEF ImportInv, GoodImport, Files
<1>3. SUFFICES GoodImport(F, rows, place, imp', unsaved, P)
  BY <1>1, <1>2 DEF ImportInv
<1> HIDE DEF P
<1>4. CASE imp' = [pc |-> "save", by |-> who, out |-> <<>>, place |-> NoPlace, lost |-> {}]
  <2>2. /\ imp'.pc = "save" /\ imp'.place = NoPlace
        /\ imp' = [pc |-> imp'.pc, by |-> imp'.by, out |-> imp'.out, place |-> imp'.place,
                   lost |-> imp'.lost]
    BY <1>4
  <2> HIDE DEF F
  <2>3. QED
    BY <1>2, <2>2, NoPlaceGood DEF GoodImport
<1>5. ASSUME NEW last \in source_offset .. Len(csv),
             imp' = [pc |-> IF last = source_offset THEN "save" ELSE "commit",
                     by |-> who, out |-> new_records(last), place |-> pl,
                     lost |-> Lines(SubSeq(csv, last + 1, Len(csv)))]
      PROVE  GoodImport(F, rows, place, imp', unsaved, P)
  <2> DEFINE new == new_records(last)
             lost == Lines(SubSeq(csv, last + 1, Len(csv)))
             Q == P \cup Uids(lost)
  <2> HIDE DEF pl, new, lost
  <2>2. /\ imp'.pc = (IF last = source_offset THEN "save" ELSE "commit")
        /\ imp'.out = new /\ imp'.place = pl /\ imp'.lost = lost
        /\ imp' = [pc |-> imp'.pc, by |-> imp'.by, out |-> imp'.out, place |-> imp'.place,
                   lost |-> imp'.lost]
    BY <1>5 DEF new, lost
  <2>3. /\ source_offset \in 0 .. Len(csv)
        /\ Table(F, P, Lines(new), ~unsaved)
        /\ ~unsaved => OneEach(F, Upsert(rows, new))
        /\ \A m \in 1 .. last : csv[m].uid \in P \/ BaseKey(csv[m].uid) \in Keys(rows \cup Lines(new))
        /\ last = source_offset => new = <<>>
    BY <1>1, WhatIsRead DEF new, P
  <2>4. Len(csv) \in Nat /\ 1 \in 1 .. Len(csv) /\ pl.offset = Len(csv) /\ pl.head = Head512
    BY <1>1, <1>2 DEF pl
  <2>5. Head512[1] = csv[1]
    BY <1>2, <2>4, HeadIs
  <2>6. At(pl, csv)
    BY <2>4, <2>5 DEF At
  <2>7. ASSUME NEW f \in F, At(pl, f) PROVE f = csv
    <3>1. f[1] = csv[1] /\ 1 \in 1 .. Len(f)
      BY <1>2, <2>4, <2>5, <2>7 DEF At
    <3>2. f[1].uid = csv[1].uid /\ f[1].leg = csv[1].leg
      BY <3>1
    <3>3. QED
      BY <1>2, <2>4, <3>1, <3>2 DEF Apart
  <2>14. ASSUME NEW m \in 1 .. Len(csv)
         PROVE  csv[m].uid \in Q \/ BaseKey(csv[m].uid) \in Keys(rows \cup Lines(new))
    <3>1. last \in Nat /\ last <= Len(csv)
      BY <2>3, <2>4
    <3>2. CASE m <= last
      <4>1. m \in 1 .. last
        BY <3>1, <3>2
      <4>2. QED
        BY <2>3, <4>1
    <3>3. CASE ~(m <= last)
      <4> DEFINE rest == SubSeq(csv, last + 1, Len(csv))
      <4>1. /\ m - last \in 1 .. Len(csv) - last /\ DOMAIN rest = 1 .. Len(csv) - last
            /\ rest[m - last] = csv[m]
        BY <1>2, <2>4, <3>1, <3>3
      <4>2. csv[m] \in lost
        BY <4>1 DEF lost, Lines
      <4>3. QED
        BY <4>2 DEF Uids
    <3>4. QED
      BY <3>2, <3>3
  <2> HIDE DEF F, Q
  <2>8. PlaceOK(F, pl)
    BY <1>2, <2>6 DEF PlaceOK
  <2>9. Complete(F, Q, pl, rows \cup Lines(new))
    BY <2>4, <2>7, <2>14 DEF Complete
  <2>10. \A R : Bounded(F, pl, R)
    BY <2>4, <2>7 DEF Bounded
  <2>15. Q = P \cup Uids(imp'.lost)
    BY <2>2 DEF Q
  <2>11. CASE last = source_offset
    <3>1. rows \cup Lines(new) = rows
      BY <2>3, <2>11 DEF Lines
    <3>2. Complete(F, Q, pl, rows)
      BY <2>9, <3>1
    <3>3. imp'.pc = "save"
      BY <2>2, <2>11
    <3>4. QED
      BY <1>2, <2>2, <2>8, <2>10, <2>15, <3>2, <3>3 DEF GoodImport
  <2>12. CASE last # source_offset
    <3>1. imp'.pc = "commit"
      BY <2>2, <2>12
    <3>2. QED
      BY <1>2, <2>2, <2>3, <2>8, <2>9, <2>10, <2>15, <3>1 DEF GoodImport
  <2>13. QED
    BY <2>11, <2>12
<1>6. QED
  BY <1>4, <1>5 DEF sync_reads

LEMMA RestingIs ==
  /\ Resting.pc = "idle" /\ Resting.place = NoPlace
  /\ Resting = [pc |-> Resting.pc, by |-> Resting.by, out |-> Resting.out, place |-> Resting.place,
                lost |-> Resting.lost]
BY DEF Resting

LEMMA UpsertIs ==
  ASSUME NEW F, NEW R, NEW O, NEW exact, NEW P, Table(F, P, R, exact), Table(F, P, Lines(O), exact)
  PROVE  /\ Table(F, P, Upsert(R, O), exact)
         /\ Upsert(R, O) \subseteq R \cup Lines(O)
         /\ Keys(Upsert(R, O)) = Keys(R \cup Lines(O))
<1>1. Upsert(R, O) \subseteq R \cup Lines(O)
  BY DEF Upsert
<1>2. Keys(Upsert(R, O)) = Keys(R \cup Lines(O))
  <2>1. ASSUME NEW y \in Keys(R \cup Lines(O)) PROVE y \in Keys(Upsert(R, O))
    <3>1. PICK r \in R \cup Lines(O) : r.key = y
      BY KeysOf
    <3>2. CASE y \in Keys(Lines(O))
      <4>1. PICK s \in Lines(O) : s.key = y
        BY <3>2, KeysOf
      <4>2. s \in Upsert(R, O)
        BY DEF Upsert
      <4>3. QED
        BY <4>1, <4>2, KeysOf
    <3>3. CASE y \notin Keys(Lines(O))
      <4>1. r \in R
        BY <3>1, <3>3, KeysOf
      <4>2. r \in Upsert(R, O)
        BY <3>1, <3>3, <4>1 DEF Upsert
      <4>3. QED
        BY <3>1, <4>2, KeysOf
    <3>4. QED
      BY <3>2, <3>3
  <2>2. ASSUME NEW y \in Keys(Upsert(R, O)) PROVE y \in Keys(R \cup Lines(O))
    BY <1>1, KeysOf
  <2>3. QED
    BY <2>1, <2>2
<1>3. IsFiniteSet(Keys(R \cup Lines(O)))
  <2>1. IsFiniteSet(Keys(R)) /\ IsFiniteSet(Keys(Lines(O)))
    BY DEF Table
  <2>2. IsFiniteSet(Keys(R) \cup Keys(Lines(O)))
    BY <2>1, FS_Union
  <2>3. Keys(R \cup Lines(O)) = Keys(R) \cup Keys(Lines(O))
    <3>1. \A A, B : Keys(A \cup B) = Keys(A) \cup Keys(B)
      BY KeysOf
    <3> DEFINE B == Lines(O)
    <3> HIDE DEF B
    <3>2. Keys(R \cup B) = Keys(R) \cup Keys(B)
      BY <3>1
    <3>3. QED
      BY <3>2 DEF B
  <2>4. QED
    BY <2>2, <2>3
<1>4. QED
  BY <1>1, <1>2, <1>3 DEF Table

LEMMA CommitKeeps ==
  ASSUME ImportInv, sync_commits
  PROVE  ImportInv'
<1> DEFINE F == Files
           P == Uids(passed)
           Q == P \cup Uids(imp.lost)
<1>1. /\ imp.pc = "commit" /\ UNCHANGED <<place, unsaved, passed, csv, rotated>>
      /\ Files' = F /\ Uids(passed)' = P
  BY DEF sync_commits, Imports, Files, Uids
<1>2. /\ F \subseteq Seq(Line) /\ Apart(F) /\ unsaved \in BOOLEAN
      /\ Table(F, P, rows, ~unsaved) /\ (~unsaved => OneEach(F, rows))
      /\ PlaceOK(F, place) /\ Complete(F, P, place, rows)
      /\ (~unsaved => Bounded(F, place, rows)) /\ (csv \in rotated => csv = <<>>)
      /\ imp = [pc |-> imp.pc, by |-> imp.by, out |-> imp.out, place |-> imp.place, lost |-> imp.lost]
      /\ PlaceOK(F, imp.place)
      /\ Table(F, P, Lines(imp.out), ~unsaved)
      /\ (~unsaved => OneEach(F, Upsert(rows, imp.out)))
      /\ Complete(F, Q, imp.place, rows \cup Lines(imp.out))
      /\ Bounded(F, imp.place, rows \cup Lines(imp.out))
  BY <1>1 DEF ImportInv, GoodImport
<1>3. SUFFICES GoodImport(F, rows', place, imp', unsaved, P)
  BY <1>1, <1>2 DEF ImportInv
<1> HIDE DEF P
<1>4. CASE rows' = rows /\ imp' = Resting
  <2> HIDE DEF F
  <2>1. QED
    BY <1>2, <1>4, RestingIs, NoPlaceGood DEF GoodImport
<1>5. CASE rows' = Upsert(rows, imp.out) /\ imp' = [imp EXCEPT !.pc = "save"]
  <2>1. /\ imp'.pc = "save" /\ imp'.out = imp.out /\ imp'.place = imp.place /\ imp'.lost = imp.lost
        /\ imp' = [pc |-> imp'.pc, by |-> imp'.by, out |-> imp'.out, place |-> imp'.place,
                   lost |-> imp'.lost]
    BY <1>2, <1>5
  <2>7. Q = P \cup Uids(imp'.lost)
    BY <2>1
  <2> HIDE DEF F, Q
  <2>2. /\ Table(F, P, rows', ~unsaved) /\ rows' \subseteq rows \cup Lines(imp.out)
        /\ Keys(rows') = Keys(rows \cup Lines(imp.out))
    BY <1>2, <1>5, UpsertIs
  <2>3. Complete(F, P, place, rows') /\ Complete(F, Q, imp.place, rows')
    BY <1>2, <2>2, KeysOf DEF Complete
  <2>4. Bounded(F, imp.place, rows')
    BY <1>2, <2>2 DEF Bounded
  <2>5. ASSUME ~unsaved, imp'.out = <<>> PROVE Bounded(F, place, rows')
    <3>1. rows' \subseteq rows
      BY <2>1, <2>2, <2>5 DEF Lines
    <3>2. QED
      BY <1>2, <2>5, <3>1 DEF Bounded
  <2>8. ~unsaved => OneEach(F, rows')
    BY <1>2, <1>5
  <2>6. QED
    BY <1>2, <2>1, <2>2, <2>3, <2>4, <2>5, <2>7, <2>8 DEF GoodImport
<1>6. QED
  BY <1>4, <1>5 DEF sync_commits

LEMMA TableWeakens ==
  ASSUME NEW F, NEW R, NEW a, NEW b, NEW P, NEW Q, Table(F, P, R, a), b => a, P \subseteq Q
  PROVE  Table(F, Q, R, b)
BY DEF Table, Leads

(* The import ends with the place saved, or not.                           *)
LEMMA EndKeeps ==
  ASSUME ImportInv, UNCHANGED <<csv, rotated, rows>>, imp' = Resting,
         \/ /\ imp.pc = "save" /\ place' = imp.place /\ unsaved' = unsaved
            /\ passed' = passed \cup imp.lost
         \/ place' = NoPlace /\ unsaved' = unsaved /\ passed' = passed
         \/ imp.pc = "save" /\ place' = place /\ unsaved' = Stale /\ passed' = passed
         \/ imp.pc # "save" /\ place' = place /\ unsaved' = unsaved /\ passed' = passed
  PROVE  ImportInv'
<1> DEFINE F == Files
           P == Uids(passed)
           P1 == Uids(passed')
<1>1. Files' = F /\ Uids(passed)' = P1
  BY DEF Files, Uids
<1>2. /\ F \subseteq Seq(Line) /\ Apart(F) /\ unsaved \in BOOLEAN
      /\ Table(F, P, rows, ~unsaved) /\ (~unsaved => OneEach(F, rows))
      /\ PlaceOK(F, place) /\ Complete(F, P, place, rows)
      /\ (~unsaved /\ (imp.pc = "save" => imp.out = <<>>) => Bounded(F, place, rows))
      /\ (csv \in rotated => csv = <<>>)
      /\ PlaceOK(F, imp.place)
      /\ imp.pc = "save" => /\ Complete(F, P \cup Uids(imp.lost), imp.place, rows)
                            /\ Bounded(F, imp.place, rows)
  BY DEF ImportInv, GoodImport
<1>12. P \subseteq P1 /\ (passed' = passed \cup imp.lost => P1 = P \cup Uids(imp.lost))
  BY DEF Uids
<1>3. SUFFICES GoodImport(F, rows, place', Resting, unsaved', P1)
  BY <1>1, <1>2 DEF ImportInv
<1>13. passed' = passed => P1 = P
  OBVIOUS
<1> HIDE DEF F, P, P1
<1>4. unsaved' \in BOOLEAN /\ (~unsaved' => ~unsaved)
  BY <1>2 DEF Stale
<1>5. Table(F, P1, rows, ~unsaved')
  BY <1>2, <1>4, <1>12, TableWeakens
<1>6. SUFFICES PlaceOK(F, place') /\ Complete(F, P1, place', rows)
               /\ (~unsaved' => Bounded(F, place', rows))
  BY <1>2, <1>4, <1>5, RestingIs, NoPlaceGood DEF GoodImport
<1>7. CASE /\ imp.pc = "save" /\ place' = imp.place /\ unsaved' = unsaved
           /\ passed' = passed \cup imp.lost
  BY <1>2, <1>7, <1>12
<1>8. CASE place' = NoPlace /\ unsaved' = unsaved /\ passed' = passed
  BY <1>8, NoPlaceGood
<1>9. CASE imp.pc = "save" /\ place' = place /\ unsaved' = Stale /\ passed' = passed
  <2>1. ~unsaved' => ~unsaved /\ (imp.out = <<>> \/ place = NoPlace)
    BY <1>9 DEF Stale
  <2>2. QED
    BY <1>2, <1>9, <1>13, <2>1, NoPlaceGood
<1>10. CASE imp.pc # "save" /\ place' = place /\ unsaved' = unsaved /\ passed' = passed
  BY <1>2, <1>10, <1>13
<1>11. QED
  BY <1>7, <1>8, <1>9, <1>10

LEMMA GrowthKeeps ==
  ASSUME ImportInv, UNCHANGED <<rows, place, imp, unsaved, passed>>, Files' \subseteq Seq(Line), Apart(Files'),
         Grows(Files, Files'), csv' \in rotated' => csv' = <<>>
  PROVE  ImportInv'
<1>1. GoodImport(Files, rows, place, imp, unsaved, Uids(passed))
  BY DEF ImportInv
<1>2. GoodImport(Files', rows, place, imp, unsaved, Uids(passed))
  BY <1>1, GrowsGood
<1>3. QED
  BY <1>2 DEF ImportInv, Uids

LEMMA RotateKeeps ==
  ASSUME ImportInv, Rotates
  PROVE  ImportInv'
<1>1. /\ UNCHANGED <<rows, place, imp, unsaved, passed>> /\ csv' = <<>>
      /\ Files' = Files \cup {<<>>}
  BY DEF Rotates, Files
<1>2. Files \subseteq Seq(Line) /\ Apart(Files)
  BY DEF ImportInv, GoodImport
<1>3. Files' \subseteq Seq(Line) /\ Grows(Files, Files')
  <2>1. <<>> \in Seq(Line)
    OBVIOUS
  <2>2. ASSUME NEW f \in Files
        PROVE  f \in Files' /\ Len(f) <= Len(f) /\ \A i \in 1 .. Len(f) : f[i] = f[i]
    <3>1. Len(f) \in Nat
      BY <1>2
    <3>2. QED
      BY <1>1, <3>1
  <2>3. QED
    BY <1>1, <1>2, <2>1, <2>2 DEF Grows
<1>4. Apart(Files')
  BY <1>1, <1>2 DEF Apart
<1>5. QED
  BY <1>1, <1>3, <1>4, GrowthKeeps

LEMMA WriteKeeps ==
  ASSUME ImportInv, now \in Nat, left.missing \subseteq Exts, Asterisk_writes
  PROVE  ImportInv'
<1>1. PICK u \in Calls, g \in Legs, e \in left.missing \cup {Nobody}, bad \in BOOLEAN :
        /\ \A l \in Written : <<l.uid, l.leg>> # <<u, g>>
        /\ csv' = Append(csv, [uid |-> u, leg |-> g, start |-> now, missed |-> e, bad |-> bad])
        /\ UNCHANGED <<rotated, rows, place, imp, unsaved, passed>>
  BY DEF Asterisk_writes
<1> DEFINE l == [uid |-> u, leg |-> g, start |-> now, missed |-> e, bad |-> bad]
<1>2. l \in Line /\ l.uid = u /\ l.leg = g
  BY DEF Line
<1> HIDE DEF l
<1>3. /\ Files \subseteq Seq(Line) /\ Apart(Files) /\ (csv \in rotated => csv = <<>>)
      /\ csv \in Files /\ rotated \subseteq Files /\ csv \in Seq(Line)
  BY DEF ImportInv, GoodImport, Files
<1>4. \A f \in Files : \A i \in 1 .. Len(f) : ~(f[i].uid = u /\ f[i].leg = g)
  <2>1. ASSUME NEW f \in Files, NEW i \in 1 .. Len(f) PROVE f[i] \in Written
    <3>1. f \in Seq(Line)
      BY <1>3
    <3>2. f[i] \in Lines(f)
      BY <3>1 DEF Lines
    <3>3. QED
      BY <3>2 DEF Written
  <2>2. QED
    BY <1>1, <2>1
<1>5. /\ csv' \in Seq(Line) /\ Len(csv) \in Nat /\ Len(csv') = Len(csv) + 1
      /\ csv'[Len(csv) + 1] = l /\ \A i \in 1 .. Len(csv) : csv'[i] = csv[i]
  <2>1. csv' = Append(csv, l)
    BY <1>1 DEF l
  <2>2. QED
    BY <1>2, <1>3, <2>1
<1>6. Files' = {csv'} \cup rotated
  BY <1>1 DEF Files
<1>7. Files' \subseteq Seq(Line)
  BY <1>3, <1>5, <1>6
<1>8. csv' \notin rotated
  <2>1. SUFFICES ASSUME csv' \in rotated PROVE FALSE
    OBVIOUS
  <2>2. csv' \in Files /\ Len(csv) + 1 \in 1 .. Len(csv')
    BY <1>3, <1>5, <2>1
  <2>3. QED
    BY <1>2, <1>4, <1>5, <2>2
<1>9. Grows(Files, Files')
  <2>1. ASSUME NEW f \in Files
        PROVE  \E h \in Files' : Len(f) <= Len(h) /\ \A i \in 1 .. Len(f) : h[i] = f[i]
    <3>1. CASE f = csv
      BY <1>5, <1>6, <3>1
    <3>2. CASE f \in rotated
      <4>1. f \in Files' /\ Len(f) \in Nat
        BY <1>3, <1>6, <3>2
      <4>2. QED
        BY <4>1
    <3>3. QED
      BY <3>1, <3>2 DEF Files
  <2>2. QED
    BY <2>1 DEF Grows
<1>10. Apart(Files')
  (* A line is the new one or was there.                                   *)
  <2>1. ASSUME NEW f \in Files', NEW i \in 1 .. Len(f)
        PROVE  \/ f = csv' /\ i = Len(csv) + 1 /\ f[i] = l
               \/ f = csv' /\ i \in 1 .. Len(csv) /\ f[i] = csv[i]
               \/ f \in rotated
    <3>1. CASE f \in rotated
      BY <3>1
    <3>2. CASE f = csv'
      BY <1>5, <3>2
    <3>3. QED
      BY <1>6, <3>1, <3>2
  <2> SUFFICES ASSUME NEW f \in Files', NEW h \in Files', NEW i \in 1 .. Len(f), NEW j \in 1 .. Len(h),
                      f[i].uid = h[j].uid, f[i].leg = h[j].leg
               PROVE  f = h /\ i = j
    BY DEF Apart
  <2>2. CASE f = csv' /\ i = Len(csv) + 1 /\ f[i] = l
    <3>1. h[j].uid = u /\ h[j].leg = g
      BY <1>2, <2>2
    <3>2. h \notin rotated
      BY <1>3, <1>4, <3>1
    <3>3. ~(j \in 1 .. Len(csv) /\ h[j] = csv[j])
      BY <1>3, <1>4, <3>1
    <3>4. h = csv' /\ j = Len(csv) + 1
      BY <2>1, <3>2, <3>3
    <3>5. QED
      BY <2>2, <3>4
  <2>3. CASE h = csv' /\ j = Len(csv) + 1 /\ h[j] = l
    <3>1. f[i].uid = u /\ f[i].leg = g
      BY <1>2, <2>3
    <3>2. f \notin rotated
      BY <1>3, <1>4, <3>1
    <3>3. ~(i \in 1 .. Len(csv) /\ f[i] = csv[i])
      BY <1>3, <1>4, <3>1
    <3>4. f = csv' /\ i = Len(csv) + 1
      BY <2>1, <3>2, <3>3
    <3>5. QED
      BY <2>3, <3>4
  <2>4. CASE f = csv' /\ i \in 1 .. Len(csv) /\ f[i] = csv[i]
    <3>1. ASSUME h = csv', j \in 1 .. Len(csv), h[j] = csv[j] PROVE f = h /\ i = j
      <4>1. csv[i].uid = csv[j].uid /\ csv[i].leg = csv[j].leg
        BY <2>4, <3>1
      <4>2. QED
        BY <1>3, <2>4, <3>1, <4>1 DEF Apart
    <3>2. ASSUME h \in rotated PROVE FALSE
      <4>1. csv[i].uid = h[j].uid /\ csv[i].leg = h[j].leg
        BY <2>4
      <4>2. csv = h
        BY <1>3, <2>4, <3>2, <4>1 DEF Apart
      <4>3. csv = <<>>
        BY <1>3, <3>2, <4>2
      <4>4. QED
        BY <2>4, <4>3
    <3>3. QED
      BY <2>1, <2>3, <3>1, <3>2
  <2>5. CASE f \in rotated
    <3>1. ASSUME h \in rotated PROVE f = h /\ i = j
      BY <1>3, <2>5, <3>1 DEF Apart
    <3>2. ASSUME h = csv', j \in 1 .. Len(csv), h[j] = csv[j] PROVE FALSE
      <4>1. f[i].uid = csv[j].uid /\ f[i].leg = csv[j].leg
        BY <3>2
      <4>2. csv = f
        BY <1>3, <2>5, <3>2, <4>1 DEF Apart
      <4>3. csv = <<>>
        BY <1>3, <2>5, <4>2
      <4>4. QED
        BY <3>2, <4>3
    <3>3. QED
      BY <2>1, <2>3, <3>1, <3>2
  <2>6. QED
    BY <2>1, <2>2, <2>4, <2>5
<1>11. QED
  BY <1>1, <1>7, <1>8, <1>9, <1>10, GrowthKeeps

LEMMA OneLegOneRow == ImportInv => EachLegOnce
<1> SUFFICES ASSUME ImportInv, ~unsaved, NEW r \in rows, NEW s \in rows, r.line = s.line,
                    ~Split(r.line.uid)
             PROVE  r = s
  BY DEF EachLegOnce
<1>1. Table(Files, Uids(passed), rows, ~unsaved) /\ OneEach(Files, rows)
  BY DEF ImportInv, GoodImport
<1>2. r = [key |-> r.key, line |-> r.line] /\ s = [key |-> s.key, line |-> s.line]
  BY <1>1 DEF Table
<1>3. ~SplitIn(Files, r.line.uid)
  BY DEF Split, SplitIn
<1>4. r.key = s.key
  BY <1>1, <1>3 DEF OneEach
<1>5. QED
  BY <1>2, <1>4

-----------------------------------------------------------------------------
(* The calendar.                                                           *)

LEMMA Division ==
  ASSUME NEW n \in Int, NEW d \in Nat \ {0}
  PROVE  n \div d \in Int /\ (n \div d) * d <= n /\ n < (n \div d) * d + d
OBVIOUS

LEMMA Times ==
  ASSUME NEW a \in Int, NEW b \in Int, NEW d \in Nat
  PROVE  /\ a * d \in Int /\ (a + 1) * d = a * d + d /\ (a - 1) * d = a * d - d
         /\ a <= b => a * d <= b * d
OBVIOUS

LEMMA Remainder ==
  ASSUME NEW n \in Int, NEW d \in Nat \ {0}
  PROVE  n % d = n - (n \div d) * d
OBVIOUS

(* A quotient is the one that fits.                                        *)
LEMMA Quotient ==
  ASSUME NEW n \in Int, NEW q \in Int, NEW d \in Nat \ {0}, q * d <= n, n < q * d + d
  PROVE  n \div d = q
<1> DEFINE p == n \div d
<1>1. p \in Int /\ p * d <= n /\ n < p * d + d
  BY Division
<1> HIDE DEF p
<1>2. (p + 1) * d = p * d + d /\ (q + 1) * d = q * d + d
  BY <1>1, Times
<1>3. ~(p + 1 <= q)
  BY <1>1, <1>2, Times
<1>4. ~(q + 1 <= p)
  BY <1>1, <1>2, Times
<1>5. QED
  BY <1>1, <1>3, <1>4 DEF p

LEMMA DayOfIs ==
  ASSUME NEW t \in Int, NEW d \in Int, NEW k \in 0 .. DayLen - 1
  PROVE  t = d * DayLen + k <=> DayOf(t) = d /\ t % DayLen = k
<1>1. DayLen \in Nat \ {0}
  BY CalendarAssumption
<1>2. t % DayLen = t - (t \div DayLen) * DayLen /\ d * DayLen \in Int
  BY <1>1, Remainder, Times
<1>3. ASSUME t = d * DayLen + k PROVE t \div DayLen = d
  <2>1. d * DayLen <= t /\ t < d * DayLen + DayLen
    BY <1>1, <1>2, <1>3
  <2>2. QED
    BY <1>1, <2>1, Quotient
<1>4. QED
  BY <1>1, <1>2, <1>3 DEF DayOf

LEMMA FormIs ==
  ASSUME NEW f \in Forms
  PROVE  /\ f.schedule \in {"daily", "weekly", "monthly"} /\ f.time \in 0 .. DayLen - 1
         /\ f.weekday \in 0 .. 6 /\ f.monthday \in Nat \ {0} /\ f.email \in Recipients
         /\ DayLen \in Nat \ {0}
BY FormAssumption, CalendarAssumption

LEMMA Calendar ==
  /\ Len(FirstDay) \in Nat /\ 2 <= Len(FirstDay)
  /\ \A m \in 1 .. Len(FirstDay) : FirstDay[m] \in Nat
  /\ \A m, n \in 1 .. Len(FirstDay) : m < n => FirstDay[m] < FirstDay[n]
BY CalendarAssumption

InCalendar(d) == FirstDay[1] <= d /\ d < FirstDay[Len(FirstDay)]

(* Every day of the calendar has one month.                                *)
LEMMA MonthOnly ==
  ASSUME NEW d \in Int, NEW m \in 1 .. Len(FirstDay) - 1,
         FirstDay[m] <= d, d < FirstDay[m + 1]
  PROVE  MonthOf(d) = m
<1>1. d \in FirstDay[m] .. FirstDay[m + 1] - 1
  BY Calendar
<1>2. ASSUME NEW n \in 1 .. Len(FirstDay) - 1, d \in FirstDay[n] .. FirstDay[n + 1] - 1
      PROVE  n = m
  <2>1. FirstDay[n] <= d /\ d < FirstDay[n + 1] /\ m + 1 \in 1 .. Len(FirstDay)
        /\ n + 1 \in 1 .. Len(FirstDay)
    BY <1>2, Calendar
  <2>2. ~(m < n)
    <3>1. SUFFICES ASSUME m < n PROVE FALSE
      OBVIOUS
    <3>2. m + 1 = n \/ m + 1 < n
      BY <3>1, Calendar
    <3>3. FirstDay[m + 1] <= FirstDay[n]
      BY <2>1, <3>2, Calendar
    <3>4. QED
      BY <2>1, <3>3, Calendar
  <2>3. ~(n < m)
    <3>1. SUFFICES ASSUME n < m PROVE FALSE
      OBVIOUS
    <3>2. n + 1 = m \/ n + 1 < m
      BY <3>1, Calendar
    <3>3. FirstDay[n + 1] <= FirstDay[m]
      BY <2>1, <3>2, Calendar
    <3>4. QED
      BY <2>1, <3>3, Calendar
  <2>4. QED
    BY <2>2, <2>3, Calendar
<1>3. QED
  BY <1>1, <1>2 DEF MonthOf

LEMMA MonthIs ==
  ASSUME NEW d \in Int, InCalendar(d)
  PROVE  /\ MonthOf(d) \in 1 .. Len(FirstDay) - 1
         /\ FirstDay[MonthOf(d)] <= d /\ d < FirstDay[MonthOf(d) + 1]
<1> DEFINE After == {m \in 1 .. Len(FirstDay) : d < FirstDay[m]}
<1>1. Len(FirstDay) \in After /\ After \in SUBSET Nat
  BY Calendar DEF InCalendar
<1>2. PICK n \in After : \A m \in After : n <= m
  <2> HIDE DEF After
  <2>1. QED
    BY <1>1, SmallestOf
<1>3. n \in 1 .. Len(FirstDay) /\ n # 1 /\ d < FirstDay[n]
  BY <1>2, Calendar DEF InCalendar
<1>4. n - 1 \in 1 .. Len(FirstDay) - 1 /\ n - 1 \notin After
  BY <1>2, <1>3, Calendar
<1>5. FirstDay[n - 1] <= d
  BY <1>4, Calendar
<1>6. MonthOf(d) = n - 1
  BY <1>3, <1>4, <1>5, Calendar, MonthOnly
<1>7. QED
  BY <1>3, <1>4, <1>5, <1>6, Calendar

(* The days of a schedule.                                                 *)
Fits(d, f) ==
  /\ f.schedule = "weekly" => d % 7 = f.weekday
  /\ f.schedule = "monthly" => d = MonthDay(MonthOf(d), f)

LEMMA MonthDayIs ==
  ASSUME NEW f \in Forms, NEW m \in 1 .. Len(FirstDay) - 1
  PROVE  /\ MonthDay(m, f) \in Int
         /\ FirstDay[m] <= MonthDay(m, f) /\ MonthDay(m, f) < FirstDay[m + 1]
         /\ MonthOf(MonthDay(m, f)) = m
<1>1. /\ MonthDay(m, f) \in Int
      /\ FirstDay[m] <= MonthDay(m, f) /\ MonthDay(m, f) < FirstDay[m + 1]
  <2>1. m \in 1 .. Len(FirstDay) /\ m + 1 \in 1 .. Len(FirstDay) /\ m < m + 1
    BY Calendar
  <2>2. FirstDay[m] \in Nat /\ FirstDay[m + 1] \in Nat /\ FirstDay[m] < FirstDay[m + 1]
    BY <2>1, Calendar
  <2>3. f.monthday \in Nat \ {0}
    BY FormIs
  <2>4. QED
    BY <2>2, <2>3 DEF MonthDay, MonthLen, Shorter
<1>2. QED
  BY <1>1, MonthOnly

LEMMA OccursIs ==
  ASSUME NEW t \in Int, NEW f \in Forms, f.schedule = "monthly" => InCalendar(DayOf(t))
  PROVE  Occurs(t, f) <=> t % DayLen = f.time /\ Fits(DayOf(t), f)
<1>1. DayOf(t) \in Int
  BY Division, CalendarAssumption DEF DayOf
<1>2. CASE f.schedule # "monthly"
  BY <1>2 DEF Occurs, Fits
<1>3. CASE f.schedule = "monthly"
  <2> DEFINE d == DayOf(t)
             m == MonthOf(d)
             inMonth == d - FirstDay[m] + 1
  <2>1. /\ m \in 1 .. Len(FirstDay) - 1 /\ FirstDay[m] <= d /\ d < FirstDay[m + 1]
        /\ FirstDay[m] \in Nat /\ FirstDay[m + 1] \in Nat
    BY <1>1, <1>3, MonthIs, Calendar
  <2>2. (inMonth = f.monthday \/ (inMonth = MonthLen(m) /\ f.monthday > MonthLen(m)))
          <=> d = MonthDay(m, f)
    <3>1. f.monthday \in Nat \ {0} /\ d \in Int
      BY <1>1, FormIs
    <3> HIDE DEF d, m
    <3>2. /\ inMonth \in Int /\ MonthLen(m) \in Int /\ MonthDay(m, f) \in Int
          /\ 1 <= inMonth /\ inMonth <= MonthLen(m) /\ d = FirstDay[m] + inMonth - 1
      BY <2>1, <3>1 DEF MonthLen, MonthDay, Shorter
    <3>3. CASE f.monthday < MonthLen(m)
      <4>1. MonthDay(m, f) = FirstDay[m] + f.monthday - 1
        BY <3>3 DEF MonthDay, Shorter
      <4>2. d = MonthDay(m, f) <=> inMonth = f.monthday
        BY <2>1, <3>1, <3>2, <4>1
      <4>3. ~(f.monthday > MonthLen(m))
        BY <3>1, <3>2, <3>3
      <4>4. QED
        BY <4>2, <4>3
    <3>4. CASE ~(f.monthday < MonthLen(m))
      <4>1. MonthDay(m, f) = FirstDay[m] + MonthLen(m) - 1
        BY <3>4 DEF MonthDay, Shorter
      <4>2. d = MonthDay(m, f) <=> inMonth = MonthLen(m)
        BY <2>1, <3>2, <4>1
      <4>3. f.monthday > MonthLen(m) \/ f.monthday = MonthLen(m)
        BY <3>1, <3>2, <3>4
      <4>4. inMonth = f.monthday => inMonth = MonthLen(m)
        BY <3>1, <3>2, <3>4
      <4>5. QED
        BY <4>2, <4>3, <4>4
    <3>5. QED
      BY <3>3, <3>4
  <2>3. QED
    BY <1>3, <2>2 DEF Occurs, Fits
<1>4. QED
  BY <1>2, <1>3

(* The last day of a schedule, or the one before it if its time is yet to  *)
(* come.                                                                   *)
LEMMA Latest ==
  ASSUME NEW t \in Int, NEW f \in Forms, NEW day \in Int, NEW before \in Int,
         Fits(day, f), Fits(before, f), before < day, before * DayLen + f.time <= t,
         \A d \in Int : before < d /\ d <= DayOf(t) /\ d # day => ~Fits(d, f),
         f.schedule = "monthly" => /\ InCalendar(before) /\ InCalendar(day)
                                   /\ InCalendar(DayOf(t)),
         NEW o, o = (IF day * DayLen + f.time <= t THEN day ELSE before) * DayLen + f.time
  PROVE  /\ o \in Int /\ o <= t /\ DayOf(o) \in Int /\ o = DayOf(o) * DayLen + f.time
         /\ Occurs(o, f) /\ \A u \in o + 1 .. t : ~Occurs(u, f)
<1>1. DayLen \in Nat \ {0} /\ f.time \in 0 .. DayLen - 1
  BY FormIs
<1>2. PICK d \in {day, before} :
        /\ o = d * DayLen + f.time /\ o <= t
        /\ d = before => ~(day * DayLen + f.time <= t)
  BY DEF Fits
<1>3. d \in Int /\ o \in Int
  BY <1>1, <1>2, Times
<1>4. DayOf(o) = d /\ o % DayLen = f.time
  BY <1>1, <1>2, <1>3, DayOfIs
<1>5. Occurs(o, f)
  BY <1>2, <1>3, <1>4, OccursIs
<1>6. ASSUME NEW u \in o + 1 .. t, Occurs(u, f) PROVE FALSE
  <2>1. u \in Int /\ t \in Int /\ o < u /\ u <= t
    BY <1>3, <1>6
  <2>2. DayOf(u) \in Int /\ DayOf(t) \in Int
    BY <1>1, <2>1, Division DEF DayOf
  <2>3. DayOf(u) <= DayOf(t) /\ d <= DayOf(u)
    <3> DEFINE a == DayOf(u)
               b == DayOf(t)
    <3>1. /\ a * DayLen <= u /\ u < a * DayLen + DayLen
          /\ b * DayLen <= t /\ t < b * DayLen + DayLen
      BY <1>1, <2>1, Division DEF DayOf
    <3> HIDE DEF a, b
    <3>2. /\ (b + 1) * DayLen = b * DayLen + DayLen /\ (a + 1) * DayLen = a * DayLen + DayLen
          /\ b + 1 <= a => (b + 1) * DayLen <= a * DayLen
          /\ a + 1 <= d => (a + 1) * DayLen <= d * DayLen
          /\ a * DayLen \in Int /\ b * DayLen \in Int /\ d * DayLen \in Int
      BY <1>1, <1>3, <2>2, Times DEF a, b
    <3>3. ~(b + 1 <= a) /\ ~(a + 1 <= d)
      BY <1>1, <1>2, <1>3, <2>1, <3>1, <3>2
    <3>4. a <= b /\ d <= a
      BY <1>3, <2>2, <3>3 DEF a, b
    <3>5. QED
      BY <3>4 DEF a, b
  <2>4. f.schedule = "monthly" => InCalendar(DayOf(u))
    <3>1. SUFFICES ASSUME f.schedule = "monthly" PROVE InCalendar(DayOf(u))
      OBVIOUS
    <3>2. InCalendar(d) /\ InCalendar(DayOf(t))
      BY <1>2, <3>1
    <3>3. FirstDay[1] \in Nat /\ FirstDay[Len(FirstDay)] \in Nat
      BY Calendar
    <3>4. QED
      BY <1>3, <2>2, <2>3, <3>2, <3>3 DEF InCalendar
  <2>5. u % DayLen = f.time /\ Fits(DayOf(u), f)
    BY <1>6, <2>1, <2>4, OccursIs
  <2>6. u = DayOf(u) * DayLen + f.time
    BY <1>1, <2>1, <2>2, <2>5, DayOfIs
  <2>7. DayOf(u) # d
    BY <1>2, <2>1, <2>6
  <2>8. DayOf(u) # day
    BY <1>2, <2>1, <2>6, <2>7, Times, <1>1
  <2>9. QED
    BY <1>2, <2>2, <2>3, <2>5, <2>7, <2>8
<1>7. QED
  BY <1>2, <1>3, <1>4, <1>5, <1>6

InTime(t) ==
  /\ t \in Nat /\ FirstDay[2] * DayLen <= t /\ t < FirstDay[Len(FirstDay)] * DayLen

LEMMA Today ==
  ASSUME NEW t, InTime(t)
  PROVE  /\ DayOf(t) \in Int /\ t \in Int
         /\ DayOf(t) * DayLen <= t /\ t < DayOf(t) * DayLen + DayLen
         /\ FirstDay[2] <= DayOf(t) /\ DayOf(t) < FirstDay[Len(FirstDay)]
<1>1. DayLen \in Nat \ {0} /\ t \in Int
  BY CalendarAssumption DEF InTime
<1> DEFINE d == DayOf(t)
           a == FirstDay[2]
           b == FirstDay[Len(FirstDay)]
<1>2. d \in Int /\ d * DayLen <= t /\ t < d * DayLen + DayLen
  BY <1>1, Division DEF DayOf
<1>3. a \in Nat /\ b \in Nat /\ a * DayLen <= t /\ t < b * DayLen
  BY Calendar DEF InTime
<1> HIDE DEF d, a, b
<1>4. ~(d + 1 <= a)
  <2>1. (d + 1) * DayLen = d * DayLen + DayLen /\ d * DayLen \in Int /\ a * DayLen \in Int
        /\ (d + 1 <= a => (d + 1) * DayLen <= a * DayLen)
    BY <1>1, <1>2, <1>3, Times
  <2>2. QED
    BY <1>1, <1>2, <1>3, <2>1
<1>5. ~(b <= d)
  <2>1. d * DayLen \in Int /\ b * DayLen \in Int /\ (b <= d => b * DayLen <= d * DayLen)
    BY <1>1, <1>2, <1>3, Times
  <2>2. QED
    BY <1>1, <1>2, <1>3, <2>1
<1>6. a <= d /\ d < b
  BY <1>2, <1>3, <1>4, <1>5
<1>7. QED
  BY <1>1, <1>2, <1>6 DEF d, a, b

LEMMA DayBefore ==
  ASSUME NEW t, InTime(t), NEW f \in Forms, NEW d \in Int, d < DayOf(t)
  PROVE  d * DayLen + f.time <= t
<1>1. DayLen \in Nat \ {0} /\ f.time \in 0 .. DayLen - 1
  BY FormIs
<1>2. DayOf(t) \in Int /\ t \in Int /\ DayOf(t) * DayLen <= t /\ DayOf(t) * DayLen \in Int
  BY <1>1, Today, Times
<1>3. d + 1 <= DayOf(t)
  BY <1>2
<1>4. (d + 1) * DayLen <= DayOf(t) * DayLen /\ (d + 1) * DayLen = d * DayLen + DayLen
      /\ d * DayLen \in Int
  BY <1>1, <1>2, <1>3, Times
<1>5. QED
  BY <1>1, <1>2, <1>4

LEMMA OccurrenceIs ==
  ASSUME NEW t, InTime(t), NEW f \in Forms, NEW o, o = scheduled_report_occurrence(t, f)
  PROVE  /\ o \in Int /\ o <= t /\ DayOf(o) \in Int /\ o = DayOf(o) * DayLen + f.time
         /\ Occurs(o, f) /\ \A u \in o + 1 .. t : ~Occurs(u, f)
<1> DEFINE today == DayOf(t)
<1>1. today \in Int /\ t \in Int /\ FirstDay[2] <= today /\ today < FirstDay[Len(FirstDay)]
  BY Today
<1>2. CASE f.schedule = "daily"
  <2> DEFINE before == today - 1
  <2>1. o = (IF today * DayLen + f.time <= t THEN today ELSE before) * DayLen + f.time
    BY <1>2 DEF scheduled_report_occurrence
  <2>2. Fits(today, f) /\ Fits(before, f)
    BY <1>2 DEF Fits
  <2>3. before \in Int /\ before < today /\ f.schedule # "monthly"
    BY <1>1, <1>2
  <2> HIDE DEF today
  <2>4. \A d \in Int : before < d /\ d <= today /\ d # today => ~Fits(d, f)
    BY <1>1
  <2> HIDE DEF before
  <2>5. before * DayLen + f.time <= t
    BY <2>3, DayBefore DEF today
  <2>6. QED
    BY <1>1, <2>1, <2>2, <2>3, <2>4, <2>5, Latest DEF today
<1>3. CASE f.schedule = "weekly"
  <2> DEFINE n == today - f.weekday
             q == n \div 7
             day == today - (n % 7)
             before == day - 7
  <2>1. o = (IF day * DayLen + f.time <= t THEN day ELSE before) * DayLen + f.time
    BY <1>3 DEF scheduled_report_occurrence
  <2>2. f.weekday \in 0 .. 6 /\ 7 \in Nat \ {0} /\ f.schedule # "monthly"
    BY <1>3, FormIs
  <2> HIDE DEF today
  <2>3. n \in Int /\ n = today - f.weekday
    BY <1>1, <2>2
  <2> HIDE DEF n
  <2>4. q \in Int /\ q * 7 <= n /\ n < q * 7 + 7 /\ n % 7 = n - q * 7
    BY <2>2, <2>3, Division, Remainder
  <2> HIDE DEF q
  <2>5. day = f.weekday + q * 7 /\ day \in Int
    <3>1. day = today - (n - q * 7)
      BY <2>4
    <3>2. PICK w \in 0 .. 6 : w = f.weekday
      BY <2>2
    <3> HIDE DEF day
    <3>3. today \in Int /\ n = today - w
      BY <1>1, <2>3, <3>2
    <3>4. day = w + q * 7 /\ day \in Int
      BY <2>3, <2>4, <3>1, <3>3
    <3>5. QED
      BY <3>2, <3>4
  <2> HIDE DEF day
  <2>6. day <= today /\ today <= day + 6
    <3>1. PICK w \in 0 .. 6 : w = f.weekday
      BY <2>2
    <3>2. today \in Int /\ n = today - w /\ day = w + q * 7
      BY <1>1, <2>3, <2>5, <3>1
    <3>3. QED
      BY <2>3, <2>4, <2>5, <3>2
  <2>7. day % 7 = f.weekday /\ before % 7 = f.weekday
    BY <2>2, <2>4, <2>5
  <2>8. before \in Int /\ before < day /\ before < today
    BY <1>1, <2>5, <2>6
  <2>9. \A d \in Int : before < d /\ d <= today /\ d # day => d % 7 # f.weekday
    <3>1. SUFFICES ASSUME NEW d \in Int, before < d, d <= today, d # day, d % 7 = f.weekday
                   PROVE  FALSE
      OBVIOUS
    <3>2. d < day + 7 /\ day - 7 < d
      BY <1>1, <2>5, <2>6, <3>1
    <3>3. QED
      BY <2>2, <2>5, <2>7, <3>1, <3>2
  <2> HIDE DEF before
  <2>10. Fits(day, f) /\ Fits(before, f)
    BY <1>3, <2>7 DEF Fits
  <2>11. \A d \in Int : before < d /\ d <= today /\ d # day => ~Fits(d, f)
    BY <1>3, <2>9 DEF Fits
  <2>12. before * DayLen + f.time <= t
    BY <2>8, DayBefore DEF today
  <2>13. QED
    BY <1>1, <2>1, <2>2, <2>5, <2>8, <2>10, <2>11, <2>12, Latest DEF today
<1>4. CASE f.schedule = "monthly"
  <2> DEFINE m == MonthOf(today)
             day == MonthDay(m, f)
             before == MonthDay(m - 1, f)
  <2>1. o = (IF day * DayLen + f.time <= t THEN day ELSE before) * DayLen + f.time
    BY <1>4 DEF scheduled_report_occurrence
  <2>2. /\ Len(FirstDay) \in Nat /\ 2 <= Len(FirstDay)
        /\ \A k \in 1 .. Len(FirstDay) : FirstDay[k] \in Nat
        /\ FirstDay[1] <= today
    <3>1. FirstDay[1] < FirstDay[2] /\ FirstDay[1] \in Nat /\ FirstDay[2] \in Nat
      BY Calendar
    <3>2. QED
      BY <1>1, <3>1, Calendar
  <2>3. /\ m \in 1 .. Len(FirstDay) - 1
        /\ FirstDay[m] <= today /\ today < FirstDay[m + 1]
    BY <1>1, <2>2, MonthIs DEF InCalendar
  <2> HIDE DEF today, m
  <2>4. m # 1
    BY <1>1, <2>2, <2>3
  <2>5. m - 1 \in 1 .. Len(FirstDay) - 1 /\ (m - 1) + 1 = m
    BY <2>2, <2>3, <2>4
  <2>6. /\ day \in Int /\ FirstDay[m] <= day /\ day < FirstDay[m + 1] /\ MonthOf(day) = m
        /\ before \in Int /\ FirstDay[m - 1] <= before /\ before < FirstDay[m]
        /\ MonthOf(before) = m - 1
    BY <2>3, <2>5, MonthDayIs
  <2>7. Fits(day, f) /\ Fits(before, f)
    BY <1>4, <2>6 DEF Fits
  <2> HIDE DEF day, before
  <2>8. /\ FirstDay[m] \in Nat /\ FirstDay[m + 1] \in Nat /\ FirstDay[m - 1] \in Nat
        /\ FirstDay[1] <= FirstDay[m - 1] /\ FirstDay[1] <= FirstDay[m]
        /\ FirstDay[m] <= FirstDay[Len(FirstDay)] /\ FirstDay[m + 1] <= FirstDay[Len(FirstDay)]
        /\ FirstDay[1] \in Nat /\ FirstDay[Len(FirstDay)] \in Nat
    <3>1. \A i, j \in 1 .. Len(FirstDay) : i <= j => FirstDay[i] <= FirstDay[j]
      <4>1. SUFFICES ASSUME NEW i \in 1 .. Len(FirstDay), NEW j \in 1 .. Len(FirstDay), i <= j
                     PROVE  FirstDay[i] <= FirstDay[j]
        OBVIOUS
      <4>2. i = j \/ i < j
        BY <2>2, <4>1
      <4>3. i < j => FirstDay[i] < FirstDay[j]
        BY Calendar
      <4>4. QED
        BY <2>2, <4>2, <4>3
    <3>2. {m, m + 1, m - 1, 1, Len(FirstDay)} \subseteq 1 .. Len(FirstDay)
      BY <2>2, <2>3, <2>4
    <3>3. /\ m \in 1 .. Len(FirstDay) /\ m + 1 \in 1 .. Len(FirstDay)
          /\ m - 1 \in 1 .. Len(FirstDay) /\ 1 \in 1 .. Len(FirstDay)
          /\ Len(FirstDay) \in 1 .. Len(FirstDay)
          /\ 1 <= m - 1 /\ 1 <= m /\ m <= Len(FirstDay) /\ m + 1 <= Len(FirstDay)
      BY <2>2, <2>3, <2>4
    <3>4. QED
      BY <2>2, <3>1, <3>3
  <2>9. /\ InCalendar(day) /\ InCalendar(before) /\ InCalendar(today)
    <3>1. InCalendar(day)
      BY <2>6, <2>8 DEF InCalendar
    <3>2. InCalendar(before)
      BY <2>6, <2>8 DEF InCalendar
    <3>3. InCalendar(today)
      BY <1>1, <2>2 DEF InCalendar
    <3>4. QED
      BY <3>1, <3>2, <3>3
  <2>10. before < day /\ before < today
    BY <1>1, <2>3, <2>6, <2>8
  <2>11. before * DayLen + f.time <= t
    BY <2>6, <2>10, DayBefore DEF today
  <2>12. \A d \in Int : before < d /\ d <= today /\ d # day => ~Fits(d, f)
    <3>1. SUFFICES ASSUME NEW d \in Int, before < d, d <= today, d # day, Fits(d, f)
                   PROVE  FALSE
      OBVIOUS
    <3>2. d = MonthDay(MonthOf(d), f)
      BY <1>4, <3>1 DEF Fits
    <3>3. CASE d < FirstDay[m]
      <4>1. FirstDay[m - 1] <= d
        BY <2>6, <2>8, <3>1
      <4>2. MonthOf(d) = m - 1
        BY <2>5, <3>3, <4>1, MonthOnly
      <4>3. QED
        BY <2>6, <3>1, <3>2, <4>2 DEF before
    <3>4. CASE FirstDay[m] <= d
      <4>1. d < FirstDay[m + 1]
        BY <1>1, <2>3, <2>8, <3>1
      <4>2. MonthOf(d) = m
        BY <2>3, <3>4, <4>1, MonthOnly
      <4>3. QED
        BY <3>1, <3>2, <4>2 DEF day
    <3>5. QED
      BY <2>8, <3>3, <3>4
  <2>13. QED
    BY <1>1, <1>4, <2>1, <2>6, <2>7, <2>9, <2>10, <2>11, <2>12, Latest DEF today
<1>5. QED
  BY <1>2, <1>3, <1>4, FormIs

(* What is due is newer than what was sent.                                *)
LEMMA DueIsNew ==
  ASSUME NEW t, InTime(t), NEW f \in Forms, NEW last \in Int, -1 <= last,
         is_cdr_report_due(t, last, f)
  PROVE  last < scheduled_report_occurrence(t, f)
<1> DEFINE o == scheduled_report_occurrence(t, f)
<1>1. o \in Int /\ DayOf(o) \in Int /\ o = DayOf(o) * DayLen + f.time
  BY OccurrenceIs
<1>2. CASE last = Never
  <2>1. DayOf(o) = DayOf(t)
    BY <1>2 DEF is_cdr_report_due
  <2>2. 0 <= DayOf(o)
    <3>1. FirstDay[2] \in Nat /\ FirstDay[2] <= DayOf(t) /\ DayOf(t) \in Int
      BY Today, Calendar
    <3>2. QED
      BY <2>1, <3>1
  <2>3. DayLen \in Nat /\ f.time \in Nat
    BY FormIs
  <2>4. 0 * DayLen <= DayOf(o) * DayLen /\ DayOf(o) * DayLen \in Int
    BY <1>1, <2>2, <2>3, Times
  <2> HIDE DEF o
  <2>5. 0 <= o
    BY <1>1, <2>3, <2>4
  <2>6. QED
    BY <1>1, <1>2, <2>5 DEF o, Never
<1>3. CASE last # Never
  BY <1>3 DEF is_cdr_report_due
<1>4. QED
  BY <1>2, <1>3

-----------------------------------------------------------------------------
(* The state.                                                              *)

Ring  == [ext : Exts, uid : Calls, at : Nat]
Call  == [uid : Calls, leg : Legs \cup {Nobody}, at : Nat]
Alert == [ext : Exts, calls : SUBSET Call]
Stages    == {"alerts", "alerting", "report", "sync", "syncing", "mail", "copies"}
Reporting == {"sync", "syncing", "mail", "copies"}

World ==
  /\ InTime(now)
  /\ {"slots", "missing"} \subseteq DOMAIN left /\ left.slots \in Nat /\ left.missing \subseteq Exts
  /\ now + left.slots < FirstDay[Len(FirstDay)] * DayLen
  /\ csv \in Seq(Line) /\ \A n \in DOMAIN csv : csv[n].start <= now
  /\ rings \subseteq Ring /\ \A r \in rings : r.at <= now
  /\ settings \in Forms

Logged == "unlogged" \notin trouble

(* What was mailed is not newer than its log says.                         *)
Mailed ==
  /\ lastCdr \in [Recipients -> Int] /\ \A r \in Recipients : -1 <= lastCdr[r] /\ lastCdr[r] <= now
  /\ lastAlert \in [Addresses -> Int]
  /\ \A a \in Addresses : -1 <= lastAlert[a] /\ lastAlert[a] <= now
  /\ got \in [Recipients \cup Exts -> [occ : Int, at : Int]]
  /\ told \subseteq Exts \X Call
  /\ again \subseteq {"alert", "report", "copy"}
  /\ Logged => /\ "alert" \notin again /\ "report" \notin again
               /\ \A e \in Exts, c \in Call :
                    <<e, c>> \in told => c.at <= lastAlert[MailOf(e)]
               /\ \A r \in Recipients : got[r].occ <= lastCdr[r]
  /\ trouble = {} => /\ "copy" \notin again
                     /\ \A e \in Exts : got[e].occ <= lastCdr[settings.email]

(* What the thread is about to mail is newer than what was mailed.         *)
SchedInv ==
  /\ sched \in [pc : Stages, at : Nat, form : Forms \cup {<<>>}, todo : SUBSET (Exts \cup Alert)]
  /\ sched.pc \in Reporting =>
       /\ sched.form \in Forms /\ InTime(sched.at) /\ sched.at <= now
       /\ sched.pc # "copies" /\ Logged => lastCdr[sched.form.email] < Occurrence
       /\ trouble = {} => sched.form.email = settings.email
  /\ sched.pc = "copies" =>
       /\ sched.todo \subseteq Exts
       /\ trouble = {} => /\ Occurrence <= lastCdr[settings.email]
                          /\ \A e \in sched.todo : got[e].occ < Occurrence
  /\ sched.pc = "alerting" =>
       /\ sched.todo \subseteq Alert
       /\ \A m \in sched.todo : \A c \in m.calls : c.at <= now
       /\ \A m, n \in sched.todo : m.ext = n.ext => m = n
       /\ Logged => \A m \in sched.todo : \A c \in m.calls : <<m.ext, c>> \notin told

MailInv == World /\ Mailed /\ SchedInv

LEMMA SpendKeeps ==
  ASSUME World, NEW k, k \notin {"slots", "missing"}, Spend(k)
  PROVE  /\ {"slots", "missing"} \subseteq DOMAIN left'
         /\ left'.slots = left.slots /\ left'.missing = left.missing
BY DEF World, Spend

LEMMA WaitingIs == Waiting.pc = "alerts"
                   /\ Waiting \in [pc : Stages, at : Nat, form : Forms \cup {<<>>},
                                   todo : SUBSET (Exts \cup Alert)]
BY DEF Waiting, Stages

(* A step that mails nothing.                                              *)
LEMMA NothingMailed ==
  ASSUME MailInv, World', now <= now', UNCHANGED <<lastCdr, lastAlert, got, told, again>>,
         trouble \subseteq trouble', settings'.email = settings.email \/ trouble' # {}
  PROVE  Mailed' /\ (sched' = sched => SchedInv') /\ (sched' = Waiting => SchedInv')
<1>1. now \in Nat /\ now' \in Nat /\ (Logged' => Logged) /\ (trouble' = {} => trouble = {})
  BY DEF MailInv, World, Logged, InTime
<1>2. Mailed'
  <2>1. /\ lastCdr' \in [Recipients -> Int]
        /\ \A r \in Recipients : -1 <= lastCdr'[r] /\ lastCdr'[r] <= now'
    BY <1>1 DEF MailInv, Mailed
  <2>2. /\ lastAlert' \in [Addresses -> Int]
        /\ \A a \in Addresses : -1 <= lastAlert'[a] /\ lastAlert'[a] <= now'
    BY <1>1 DEF MailInv, Mailed
  <2>3. trouble' = {} => lastCdr'[settings'.email] = lastCdr[settings.email]
    BY <1>1
  <2>4. QED
    BY <1>1, <2>1, <2>2, <2>3 DEF MailInv, Mailed
<1>3. ASSUME sched' = sched PROVE SchedInv'
  <2>1. sched.at \in Nat /\ Occurrence' = Occurrence
    BY <1>3 DEF Occurrence, MailInv, SchedInv
  <2>2. sched.at <= now => sched.at <= now'
    BY <1>1, <2>1
  <2>3. sched.pc \in Reporting =>
          /\ sched.form \in Forms /\ InTime(sched.at) /\ sched.at <= now'
          /\ sched.pc # "copies" /\ Logged' => lastCdr'[sched.form.email] < Occurrence
          /\ trouble' = {} => sched.form.email = settings'.email
    BY <1>1, <2>2 DEF MailInv, SchedInv
  <2>4. sched.pc = "copies" =>
          /\ sched.todo \subseteq Exts
          /\ trouble' = {} => /\ Occurrence <= lastCdr'[settings'.email]
                              /\ \A e \in sched.todo : got'[e].occ < Occurrence
    BY <1>1 DEF MailInv, SchedInv
  <2>5. ASSUME sched.pc = "alerting" PROVE \A m \in sched.todo : \A c \in m.calls : c.at <= now'
    <3>1. \A m \in sched.todo : \A c \in m.calls : c.at \in Nat /\ c.at <= now
      BY <2>5 DEF MailInv, SchedInv, Alert, Call
    <3>2. QED
      BY <1>1, <3>1
  <2>6. sched.pc = "alerting" =>
          /\ sched.todo \subseteq Alert
          /\ \A m, n \in sched.todo : m.ext = n.ext => m = n
          /\ Logged' => \A m \in sched.todo : \A c \in m.calls : <<m.ext, c>> \notin told'
    BY <1>1 DEF MailInv, SchedInv
  <2>7. QED
    BY <1>3, <2>1, <2>3, <2>4, <2>5, <2>6 DEF MailInv, SchedInv, InTime
<1>4. ASSUME sched' = Waiting PROVE SchedInv'
  BY <1>4, WaitingIs DEF SchedInv, Reporting
<1>5. QED
  BY <1>2, <1>3, <1>4

-----------------------------------------------------------------------------
(* Everybody else.                                                         *)

KeepsPlan ==
  /\ {"slots", "missing"} \subseteq DOMAIN left'
  /\ left'.slots = left.slots /\ left'.missing = left.missing

LEMMA ReadSpends ==
  ASSUME NEW who, sync_reads(who)
  PROVE  UNCHANGED <<now, csv>> /\ (left' = left \/ Spend("faults"))
<1>1. UNCHANGED <<now, csv>>
  BY DEF sync_reads, Imports
<1>2. left' = left \/ Spend("faults")
  BY DEF sync_reads
<1>3. QED
  BY <1>1, <1>2

LEMMA SameWorld ==
  ASSUME World, KeepsPlan, UNCHANGED <<now, csv, rings, settings>>
  PROVE  World' /\ now <= now'
BY DEF World, KeepsPlan, InTime

LEMMA SamePlan ==
  ASSUME World, left' = left \/ Spend("faults") \/ Spend("lines") \/ Spend("rings")
                  \/ Spend("rotations") \/ Spend("edits") \/ Spend("outages")
  PROVE  KeepsPlan
<1>1. CASE left' = left
  BY <1>1 DEF World, KeepsPlan
<1>2. ASSUME NEW k \in {"faults", "lines", "rings", "rotations", "edits", "outages"}, Spend(k)
      PROVE  KeepsPlan
  BY <1>2, SpendKeeps DEF KeepsPlan
<1>3. QED
  BY <1>1, <1>2

LEMMA Elsewhere ==
  ASSUME MailInv, World', now <= now', UNCHANGED <<lastCdr, lastAlert, got, told, again>>,
         trouble \subseteq trouble', settings'.email = settings.email \/ trouble' # {},
         sched' \in {sched, Waiting}
  PROVE  MailInv'
BY NothingMailed DEF MailInv

LEMMA OthersKeep ==
  ASSUME MailInv,
         \/ PageImports \/ ImportCommits \/ ImportSaves \/ mail_settings \/ ProcessDies
         \/ CallEnds \/ LogRotates \/ QueueRings \/ TimePasses \/ ServerStops \/ ServerRecovers
  PROVE  MailInv'
<1> World
  BY DEF MailInv
<1>1. CASE PageImports
  <2>1. UNCHANGED <<now, csv>> /\ UNCHANGED mailVars /\ (left' = left \/ Spend("faults"))
    BY <1>1, ReadSpends DEF PageImports
  <2>2. World' /\ now <= now'
    BY <2>1, SamePlan, SameWorld DEF mailVars
  <2>3. QED
    BY <2>1, <2>2, Elsewhere DEF mailVars
<1>2. CASE ImportCommits
  <2>1. /\ UNCHANGED <<now, csv, settings, up, rings, lastCdr, lastAlert, got, told, again, trouble>>
        /\ sched' \in {sched, Waiting} /\ (left' = left \/ Spend("faults"))
    BY <1>2 DEF ImportCommits, sync_commits, Imports
  <2>2. World' /\ now <= now'
    BY <2>1, SamePlan, SameWorld
  <2>3. QED
    BY <2>1, <2>2, Elsewhere
<1>3. CASE ImportSaves
  <2>1. UNCHANGED <<now, csv>> /\ UNCHANGED mailVars /\ (left' = left \/ Spend("faults"))
    BY <1>3 DEF ImportSaves, sync_saves, Imports
  <2>2. World' /\ now <= now'
    BY <2>1, SamePlan, SameWorld DEF mailVars
  <2>3. QED
    BY <2>1, <2>2, Elsewhere DEF mailVars
<1>4. CASE mail_settings
  <2>1. PICK f \in Forms :
          /\ settings' = f
          /\ trouble' = IF f.email = settings.email THEN trouble ELSE trouble \cup {"recipient"}
          /\ UNCHANGED <<importVars, now, up, rings, sched, lastCdr, lastAlert, got, told, again>>
          /\ Spend("edits")
    BY <1>4 DEF mail_settings, save_mail_settings
  <2>2. KeepsPlan
    BY <2>1, SamePlan
  <2>3. World' /\ now <= now'
    BY <2>1, <2>2 DEF World, KeepsPlan, InTime, importVars
  <2>4. QED
    BY <2>1, <2>3, Elsewhere
<1>5. CASE ProcessDies
  <2>1. /\ UNCHANGED <<now, csv, settings, up, rings, lastCdr, lastAlert, got, told, again, trouble>>
        /\ sched' = Waiting /\ Spend("faults")
    BY <1>5 DEF ProcessDies, Interrupted
  <2>2. World' /\ now <= now'
    BY <2>1, SamePlan, SameWorld
  <2>3. QED
    BY <2>1, <2>2, Elsewhere
<1>6. CASE CallEnds
  <2>1. PICK u \in Calls, g \in Legs, e \in left.missing \cup {Nobody}, bad \in BOOLEAN :
          csv' = Append(csv, [uid |-> u, leg |-> g, start |-> now, missed |-> e, bad |-> bad])
    BY <1>6 DEF CallEnds, Asterisk_writes
  <2>2. UNCHANGED <<now>> /\ UNCHANGED mailVars /\ (Spend("faults") \/ Spend("lines"))
    BY <1>6 DEF CallEnds, Asterisk_writes
  <2>3. KeepsPlan
    BY <2>2, SamePlan
  <2> DEFINE l == [uid |-> u, leg |-> g, start |-> now, missed |-> e, bad |-> bad]
  <2>4. l \in Line /\ l.start = now
    BY DEF World, Line, InTime
  <2> HIDE DEF l
  <2>5. csv' = Append(csv, l) /\ csv \in Seq(Line)
    BY <2>1 DEF l, World
  <2>6. csv' \in Seq(Line) /\ \A n \in DOMAIN csv' : csv'[n] = l \/ (n \in DOMAIN csv /\ csv'[n] = csv[n])
    BY <2>4, <2>5
  <2>7. \A n \in DOMAIN csv' : csv'[n].start <= now
    BY <2>4, <2>6 DEF World, InTime
  <2>8. World' /\ now <= now'
    BY <2>2, <2>3, <2>6, <2>7 DEF World, KeepsPlan, InTime, mailVars
  <2>9. QED
    BY <2>2, <2>8, Elsewhere DEF mailVars
<1>7. CASE LogRotates
  <2>1. UNCHANGED <<now>> /\ UNCHANGED mailVars /\ Spend("rotations") /\ csv' = <<>>
    BY <1>7 DEF LogRotates, Rotates
  <2>2. KeepsPlan
    BY <2>1, SamePlan
  <2>3. World' /\ now <= now'
    BY <2>1, <2>2 DEF World, KeepsPlan, InTime, mailVars
  <2>4. QED
    BY <2>1, <2>3, Elsewhere DEF mailVars
<1>8. CASE QueueRings
  <2>1. /\ Spend("rings")
        /\ UNCHANGED <<importVars, now, settings, up, sched, lastCdr, lastAlert, got, told, again, trouble>>
    BY <1>8 DEF QueueRings
  <2>2. PICK e \in left.missing, u \in Calls : rings' = rings \cup {[ext |-> e, uid |-> u, at |-> now]}
    BY <1>8 DEF QueueRings
  <2>3. KeepsPlan
    BY <2>1, SamePlan
  <2>4. rings' \subseteq Ring /\ \A r \in rings' : r.at <= now
    BY <2>2 DEF World, Ring, InTime
  <2>5. World' /\ now <= now'
    BY <2>1, <2>3, <2>4 DEF World, KeepsPlan, InTime, importVars
  <2>6. QED
    BY <2>1, <2>5, Elsewhere
<1>9. CASE TimePasses
  <2>1. left.slots > 0 /\ left' = [left EXCEPT !.slots = @ - 1] /\ now' = now + 1
        /\ UNCHANGED <<importVars, mailVars>>
    BY <1>9 DEF TimePasses, Spend
  <2>2. /\ {"slots", "missing"} \subseteq DOMAIN left'
        /\ left'.slots = left.slots - 1 /\ left'.missing = left.missing
    BY <2>1 DEF World
  <2>3. FirstDay[2] \in Nat /\ FirstDay[Len(FirstDay)] \in Nat /\ DayLen \in Nat
    BY Calendar, CalendarAssumption
  <2>4. FirstDay[2] * DayLen \in Nat /\ FirstDay[Len(FirstDay)] * DayLen \in Nat
    BY <2>3
  <2>5. InTime(now') /\ now' + left'.slots < FirstDay[Len(FirstDay)] * DayLen
        /\ left'.slots \in Nat /\ now <= now'
    BY <2>1, <2>2, <2>4 DEF World, InTime
  <2>6. /\ \A n \in DOMAIN csv : csv[n].start <= now'
        /\ \A r \in rings : r.at <= now'
    <3>1. now \in Nat /\ \A n \in DOMAIN csv : csv[n] \in Line /\ csv[n].start <= now
      BY DEF World, InTime
    <3>2. \A r \in rings : r \in Ring /\ r.at <= now
      BY DEF World
    <3>3. \A n \in DOMAIN csv : csv[n].start \in Nat
      BY <3>1 DEF Line
    <3>4. \A r \in rings : r.at \in Nat
      BY <3>2 DEF Ring
    <3>5. QED
      BY <2>1, <3>1, <3>2, <3>3, <3>4
  <2>7. World'
    BY <2>1, <2>2, <2>5, <2>6 DEF World, InTime, importVars, mailVars
  <2>8. QED
    BY <2>1, <2>5, <2>7, Elsewhere DEF mailVars
<1>10. CASE ServerStops \/ ServerRecovers
  <2>1. /\ UNCHANGED <<importVars, now, settings, rings, sched, lastCdr, lastAlert, got, told, again, trouble>>
        /\ left' = left \/ Spend("outages")
    BY <1>10 DEF ServerStops, ServerRecovers
  <2>2. World' /\ now <= now'
    BY <2>1, SamePlan, SameWorld DEF importVars
  <2>3. QED
    BY <2>1, <2>2, Elsewhere
<1>11. QED
  BY <1>1, <1>2, <1>3, <1>4, <1>5, <1>6, <1>7, <1>8, <1>9, <1>10

-----------------------------------------------------------------------------
(* The thread.                                                             *)

(* A step of the thread that mails nothing.                                *)
LEMMA ThreadStep ==
  ASSUME MailInv, UNCHANGED <<now, csv, rings, settings, lastCdr, lastAlert, got, told, again, trouble>>,
         left' = left \/ Spend("faults"), SchedInv'
  PROVE  MailInv'
<1>1. World' /\ now <= now'
  BY SamePlan, SameWorld DEF MailInv
<1>2. QED
  BY <1>1, NothingMailed DEF MailInv

LEMMA MissedAre ==
  ASSUME World, Mailed, NEW e \in Exts
  PROVE  /\ Missed(e) \subseteq Call
         /\ \A c \in Missed(e) : c.at <= now /\ (Logged => <<e, c>> \notin told)
<1>1. MailOf(e) \in Addresses
  BY DEF Addresses
<1>2. lastAlert[MailOf(e)] \in Int /\ -1 <= lastAlert[MailOf(e)] /\ now \in Nat
  BY <1>1 DEF Mailed, World, InTime
<1>3. Lines(csv) \subseteq Line /\ \A l \in Lines(csv) : l.start <= now
  BY DEF World, Lines
<1>4. ASSUME NEW c \in Missed(e)
      PROVE  c \in Call /\ c.at <= now /\ (lastAlert[MailOf(e)] = Never \/ lastAlert[MailOf(e)] < c.at)
  <2>1. CASE \E l \in Lines(csv) : /\ c = [uid |-> l.uid, leg |-> l.leg, at |-> l.start]
                                   /\ l.start - UtcOffset > LastAlert(e)
    <3>1. PICK l \in Lines(csv) : /\ c = [uid |-> l.uid, leg |-> l.leg, at |-> l.start]
                                  /\ l.start - UtcOffset > LastAlert(e)
      BY <2>1
    <3>2. l \in Line /\ l.start <= now /\ UtcOffset \in Nat
      BY <1>3, CalendarAssumption
    <3>3. l.start \in Nat /\ c.at = l.start /\ c \in Call
      BY <3>1, <3>2 DEF Line, Call
    <3>4. lastAlert[MailOf(e)] # Never => LastAlert(e) = lastAlert[MailOf(e)]
      BY DEF LastAlert
    <3>5. QED
      BY <1>2, <3>1, <3>2, <3>3, <3>4
  <2>2. CASE \E r \in rings : c = [uid |-> r.uid, leg |-> Nobody, at |-> r.at] /\ r.at > LastAlert(e)
    <3>1. PICK r \in rings : c = [uid |-> r.uid, leg |-> Nobody, at |-> r.at] /\ r.at > LastAlert(e)
      BY <2>2
    <3>2. r \in Ring /\ r.at <= now
      BY DEF World
    <3>3. r.at \in Nat /\ c.at = r.at /\ c \in Call
      BY <3>1, <3>2 DEF Ring, Call
    <3>4. lastAlert[MailOf(e)] # Never => LastAlert(e) = lastAlert[MailOf(e)]
      BY DEF LastAlert
    <3>5. QED
      BY <1>2, <3>1, <3>2, <3>3, <3>4
  <2>3. QED
    BY <2>1, <2>2 DEF Missed
<1>5. ASSUME NEW c \in Missed(e), Logged PROVE <<e, c>> \notin told
  <2>1. SUFFICES ASSUME <<e, c>> \in told PROVE FALSE
    OBVIOUS
  <2>2. c \in Call /\ c.at <= lastAlert[MailOf(e)]
    BY <1>4, <1>5, <2>1 DEF Mailed
  <2>3. c.at \in Nat
    BY <2>2 DEF Call
  <2>4. QED
    BY <1>2, <1>4, <2>2, <2>3 DEF Never
<1>6. QED
  BY <1>4, <1>5

LEMMA ThreadGoesOn ==
  ASSUME MailInv,
         \/ monitor_missed_calls \/ check_and_send_cdr_reports
         \/ ReportSyncs \/ ReportSynced \/ NoWorkbook
  PROVE  MailInv'
<1>1. /\ World /\ Mailed /\ SchedInv /\ InTime(now) /\ now \in Nat
      /\ sched \in [pc : Stages, at : Nat, form : Forms \cup {<<>>}, todo : SUBSET (Exts \cup Alert)]
  BY DEF MailInv, World, InTime, SchedInv
<1>2. CASE monitor_missed_calls
  <2>1. PICK over \in SUBSET Alert :
          /\ sched' = [sched EXCEPT !.pc = IF over = {} THEN "report" ELSE "alerting", !.todo = over]
          /\ over \subseteq { [ext |-> e, calls |-> Missed(e)] : e \in Exts }
    <3> DEFINE all == { [ext |-> e, calls |-> Missed(e)] : e \in Exts }
    <3>1. all \subseteq Alert
      BY <1>1, MissedAre DEF Alert
    <3>2. PICK over \in SUBSET all :
            sched' = [sched EXCEPT !.pc = IF over = {} THEN "report" ELSE "alerting", !.todo = over]
      <4> DEFINE o == IF settings.alerts
                      THEN { [ext |-> e, calls |-> Missed(e)] : e \in
                             { x \in Exts : /\ Missed(x) # {}
                                            /\ Cardinality(Missed(x)) >= settings.threshold } }
                      ELSE {}
      <4>1. o \subseteq all
        OBVIOUS
      <4>2. sched' = [sched EXCEPT !.pc = IF o = {} THEN "report" ELSE "alerting", !.todo = o]
        BY <1>2 DEF monitor_missed_calls
      <4>3. QED
        BY <4>1, <4>2
    <3>3. QED
      BY <3>1, <3>2
  <2>2. /\ UNCHANGED <<importVars, now, left, settings, up, rings, lastCdr, lastAlert, got, told, again, trouble>>
        /\ sched.pc = "alerts"
    BY <1>2 DEF monitor_missed_calls
  <2>3. /\ sched' \in [pc : Stages, at : Nat, form : Forms \cup {<<>>}, todo : SUBSET (Exts \cup Alert)]
        /\ sched'.pc \in {"report", "alerting"} /\ sched'.todo = over
    BY <1>1, <2>1 DEF Stages
  <2>4. ASSUME NEW m \in over
        PROVE  /\ m.ext \in Exts /\ m = [ext |-> m.ext, calls |-> Missed(m.ext)]
               /\ \A c \in m.calls : c.at <= now /\ (Logged => <<m.ext, c>> \notin told)
    <3>1. PICK e \in Exts : m = [ext |-> e, calls |-> Missed(e)]
      BY <2>1
    <3>2. m.ext = e /\ m.calls = Missed(e)
      BY <3>1
    <3>3. QED
      BY <1>1, <3>1, <3>2, MissedAre
  <2>5. SchedInv'
    <3>1. \A m, n \in over : m.ext = n.ext => m = n
      BY <2>4
    <3>2. \A m \in over : \A c \in m.calls : c.at <= now' /\ (Logged' => <<m.ext, c>> \notin told')
      BY <2>2, <2>4 DEF Logged
    <3>3. QED
      BY <2>1, <2>3, <3>1, <3>2 DEF SchedInv, Reporting
  <2>6. QED
    BY <2>2, <2>5, ThreadStep DEF importVars
<1>3. CASE check_and_send_cdr_reports
  <2>1. UNCHANGED <<importVars, now, left, settings, up, rings, lastCdr, lastAlert, got, told, again, trouble>>
    BY <1>3 DEF check_and_send_cdr_reports
  <2>2. CASE sched' = Waiting
    BY <1>1, <2>1, <2>2, SamePlan, SameWorld, Elsewhere DEF importVars
  <2>3. CASE /\ sched' = [pc |-> "sync", at |-> now, form |-> settings, todo |-> {}]
             /\ is_cdr_report_due(now, lastCdr[settings.email], settings)
    <3>1. settings \in Forms /\ settings.email \in Recipients
      BY <1>1, FormIs DEF World
    <3>2. lastCdr[settings.email] < scheduled_report_occurrence(now, settings)
      BY <1>1, <2>3, <3>1, DueIsNew DEF Mailed
    <3>3. /\ sched'.pc = "sync" /\ sched'.at = now /\ sched'.form = settings /\ sched'.todo = {}
          /\ sched' \in [pc : Stages, at : Nat, form : Forms \cup {<<>>}, todo : SUBSET (Exts \cup Alert)]
      BY <1>1, <2>3, <3>1 DEF Stages
    <3>4. Occurrence' = scheduled_report_occurrence(now, settings)
      BY <3>3 DEF Occurrence
    <3>5. SchedInv'
      BY <1>1, <2>1, <3>1, <3>2, <3>3, <3>4 DEF SchedInv
    <3>6. QED
      BY <2>1, <3>5, ThreadStep DEF importVars
  <2>4. QED
    BY <1>3, <2>2, <2>3 DEF check_and_send_cdr_reports
<1>4. ASSUME NEW pc \in {"syncing", "mail"}, sched' = [sched EXCEPT !.pc = pc],
             sched.pc \in {"sync", "syncing"},
             left' = left \/ Spend("faults"),
             UNCHANGED <<now, csv, settings, up, rings, lastCdr, lastAlert, got, told, again, trouble>>
      PROVE  MailInv'
  <2>1. /\ sched'.pc = pc /\ sched'.at = sched.at /\ sched'.form = sched.form
        /\ sched' \in [pc : Stages, at : Nat, form : Forms \cup {<<>>}, todo : SUBSET (Exts \cup Alert)]
    BY <1>1, <1>4 DEF Stages
  <2>2. Occurrence' = Occurrence
    BY <2>1 DEF Occurrence
  <2>3. SchedInv'
    BY <1>1, <1>4, <2>1, <2>2 DEF SchedInv, Reporting, Logged
  <2>4. QED
    BY <1>4, <2>3, ThreadStep
<1>5. CASE ReportSyncs
  <2>1. UNCHANGED <<now, csv>> /\ (left' = left \/ Spend("faults"))
    BY <1>5, ReadSpends DEF ReportSyncs, importVars
  <2>2. QED
    BY <1>4, <1>5, <2>1 DEF ReportSyncs
<1>6. CASE ReportSynced
  BY <1>4, <1>6 DEF ReportSynced, importVars
<1>7. CASE NoWorkbook
  <2>1. /\ Spend("faults") /\ sched' = Waiting
        /\ UNCHANGED <<importVars, now, settings, up, rings, lastCdr, lastAlert, got, told, again, trouble>>
    BY <1>7 DEF NoWorkbook
  <2>2. QED
    BY <1>1, <2>1, SamePlan, SameWorld, Elsewhere DEF importVars
<1>8. QED
  BY <1>2, <1>3, <1>5, <1>6, <1>7

LEMMA DroppedIs ==
  ASSUME SchedInv, NEW m, sched.pc \in {"alerting", "copies"}
  PROVE  /\ DropFirst(m) \in [pc : Stages, at : Nat, form : Forms \cup {<<>>},
                              todo : SUBSET (Exts \cup Alert)]
         /\ DropFirst(m).at = sched.at /\ DropFirst(m).form = sched.form
         /\ DropFirst(m).todo \subseteq sched.todo \ {m}
         /\ \/ DropFirst(m).pc = sched.pc
            \/ DropFirst(m).pc \in {"report", "alerts"}
<1> DEFINE rest == sched.todo \ {m}
<1>1. sched \in [pc : Stages, at : Nat, form : Forms \cup {<<>>}, todo : SUBSET (Exts \cup Alert)]
  BY DEF SchedInv
<1>2. CASE rest = {}
  <2>1. DropFirst(m) = [sched EXCEPT !.pc = IF @ = "alerting" THEN "report" ELSE "alerts", !.todo = {}]
    BY <1>2 DEF DropFirst
  <2>2. QED
    BY <1>1, <2>1 DEF Stages
<1>3. CASE rest # {}
  <2>1. DropFirst(m) = [sched EXCEPT !.todo = rest]
    BY <1>3 DEF DropFirst
  <2>2. QED
    BY <1>1, <2>1
<1>4. QED
  BY <1>2, <1>3

LEMMA AlertStep ==
  ASSUME MailInv, AlertsExtension
  PROVE  MailInv'
<1>1. /\ World /\ Mailed /\ SchedInv /\ now \in Nat /\ sched.pc = "alerting"
  BY DEF MailInv, World, InTime, AlertsExtension
<1>2. PICK m \in sched.todo :
        /\ \/ /\ Sent \/ Refused
              /\ lastAlert' = log_email(lastAlert, MailOf(m.ext)) /\ sched' = DropFirst(m)
           \/ Unlogged /\ sched' \in {DropFirst(m), [Waiting EXCEPT !.pc = "report"]}
              /\ UNCHANGED lastAlert
        /\ IF up
           THEN /\ told' = told \cup ({m.ext} \X m.calls)
                /\ again' = IF told \cap ({m.ext} \X m.calls) = {} THEN again
                            ELSE again \cup {"alert"}
           ELSE UNCHANGED <<told, again>>
  BY DEF AlertsExtension
<1>3. /\ UNCHANGED <<importVars, now, settings, up, rings, lastCdr, got>>
      /\ left' = left \/ Spend("faults")
  BY <1>2 DEF AlertsExtension, Sent, Refused, Unlogged
<1>4. World' /\ now <= now'
  BY <1>1, <1>3, SamePlan, SameWorld DEF importVars
<1>5. /\ m \in Alert /\ m.ext \in Exts /\ m.calls \subseteq Call
      /\ \A c \in m.calls : c.at <= now
      /\ Logged => \A c \in m.calls : <<m.ext, c>> \notin told
      /\ \A n \in sched.todo \ {m} : n.ext # m.ext
  BY <1>1, <1>2 DEF SchedInv, Alert
<1>6. (Logged' => Logged) /\ (trouble' = {} => trouble = {} /\ up)
  BY <1>2 DEF Logged, Sent, Refused, Unlogged
<1>7. /\ lastAlert' \in [Addresses -> Int]
      /\ \A a \in Addresses : -1 <= lastAlert'[a] /\ lastAlert'[a] <= now
      /\ \A a \in Addresses : lastAlert[a] <= lastAlert'[a]
      /\ Logged' /\ up => lastAlert'[MailOf(m.ext)] = now
  <2>1. MailOf(m.ext) \in Addresses
    BY <1>5 DEF Addresses
  <2>2. /\ lastAlert \in [Addresses -> Int]
        /\ \A a \in Addresses : -1 <= lastAlert[a] /\ lastAlert[a] <= now
    BY <1>1 DEF Mailed
  <2>3. /\ lastAlert' = lastAlert \/ lastAlert' = [lastAlert EXCEPT ![MailOf(m.ext)] = now]
        /\ Logged' /\ up => lastAlert' = [lastAlert EXCEPT ![MailOf(m.ext)] = now]
    BY <1>2 DEF log_email, Logged, Sent, Refused, Unlogged
  <2>4. QED
    BY <1>1, <2>1, <2>2, <2>3
<1>8. told' \subseteq Exts \X Call /\ again' \subseteq {"alert", "report", "copy"}
  <2>1. {m.ext} \X m.calls \subseteq Exts \X Call
    BY <1>5
  <2>2. QED
    BY <1>1, <1>2, <2>1 DEF Mailed
<1>9. Logged' => again' = again
  BY <1>2, <1>5, <1>6
<1>10. ASSUME Logged', NEW e \in Exts, NEW c \in Call, <<e, c>> \in told'
       PROVE  c.at <= lastAlert'[MailOf(e)]
  <2>1. MailOf(e) \in Addresses /\ c.at \in Nat
    BY DEF Addresses, Call
  <2>2. CASE <<e, c>> \in told
    <3>1. c.at <= lastAlert[MailOf(e)]
      BY <1>1, <1>6, <1>10, <2>2 DEF Mailed
    <3>2. /\ lastAlert[MailOf(e)] \in Int /\ lastAlert'[MailOf(e)] \in Int
          /\ lastAlert[MailOf(e)] <= lastAlert'[MailOf(e)]
      BY <1>1, <1>7, <2>1 DEF Mailed
    <3>3. QED
      BY <2>1, <3>1, <3>2
  <2>3. CASE <<e, c>> \notin told
    <3>1. up /\ e = m.ext /\ c \in m.calls
      BY <1>2, <1>10, <2>3
    <3>2. QED
      BY <1>5, <1>7, <1>10, <3>1
  <2>4. QED
    BY <2>2, <2>3
<1>11. Mailed'
  <2>1. trouble' = {} => /\ "copy" \notin again'
                         /\ \A e \in Exts : got'[e].occ <= lastCdr'[settings'.email]
    BY <1>1, <1>2, <1>3, <1>6 DEF Mailed
  <2>2. Logged' => /\ "alert" \notin again' /\ "report" \notin again'
                   /\ \A r \in Recipients : got'[r].occ <= lastCdr'[r]
    BY <1>1, <1>3, <1>6, <1>9 DEF Mailed
  <2>3. QED
    BY <1>1, <1>3, <1>7, <1>8, <1>10, <2>1, <2>2 DEF Mailed
<1>12. SchedInv'
  <2>1. CASE sched' = DropFirst(m)
    <3>1. /\ sched' \in [pc : Stages, at : Nat, form : Forms \cup {<<>>},
                         todo : SUBSET (Exts \cup Alert)]
          /\ sched'.todo \subseteq sched.todo \ {m} /\ sched'.pc \in {"alerting", "report", "alerts"}
      BY <1>1, <2>1, DroppedIs
    <3>2. ASSUME Logged', NEW n \in sched'.todo, NEW c \in n.calls PROVE <<n.ext, c>> \notin told'
      <4>1. n \in sched.todo /\ n.ext # m.ext
        BY <1>5, <3>1
      <4>2. <<n.ext, c>> \notin told
        BY <1>1, <1>6, <3>2, <4>1 DEF SchedInv
      <4>3. QED
        BY <1>2, <4>1, <4>2
    <3>3. /\ sched'.todo \subseteq Alert
          /\ \A n \in sched'.todo : \A c \in n.calls : c.at <= now'
          /\ \A n, k \in sched'.todo : n.ext = k.ext => n = k
      BY <1>1, <1>3, <3>1 DEF SchedInv
    <3>4. QED
      BY <3>1, <3>2, <3>3 DEF SchedInv, Reporting
  <2>2. CASE sched' = [Waiting EXCEPT !.pc = "report"]
    <3>1. /\ sched' \in [pc : Stages, at : Nat, form : Forms \cup {<<>>},
                         todo : SUBSET (Exts \cup Alert)]
          /\ sched'.pc = "report"
      BY <2>2 DEF Waiting, Stages
    <3>2. QED
      BY <3>1 DEF SchedInv, Reporting
  <2>3. QED
    BY <1>2, <2>1, <2>2
<1>13. QED
  BY <1>4, <1>11, <1>12 DEF MailInv

(* The report is of an occurrence that is not logged as sent; the copies   *)
(* are of the same, and follow it.                                         *)
LEMMA ReportStep ==
  ASSUME MailInv, MailsReport
  PROVE  MailInv'
<1> DEFINE to == sched.form.email
<1>1. /\ World /\ Mailed /\ SchedInv /\ InTime(now) /\ now \in Nat /\ sched.pc = "mail"
  BY DEF MailInv, World, InTime, MailsReport
<1>2. /\ sched.form \in Forms /\ InTime(sched.at) /\ sched.at <= now /\ sched.at \in Nat
      /\ to \in Recipients /\ Occurrence \in Int /\ Occurrence <= sched.at
      /\ sched \in [pc : Stages, at : Nat, form : Forms \cup {<<>>}, todo : SUBSET (Exts \cup Alert)]
  <2>1. sched.form \in Forms /\ InTime(sched.at) /\ sched.at <= now /\ sched.at \in Nat
    BY <1>1 DEF SchedInv, Reporting, InTime
  <2>2. Occurrence \in Int /\ Occurrence <= sched.at
    BY <2>1, OccurrenceIs DEF Occurrence
  <2>3. QED
    BY <1>1, <2>1, <2>2, FormIs DEF SchedInv
<1>3. Occurrence <= now /\ to \notin Exts
  BY <1>1, <1>2, StartAssumption
<1>4. Logged => lastCdr[to] < Occurrence
  BY <1>1 DEF SchedInv, Reporting
<1>5. PICK mine \in SUBSET Exts :
        LET next == IF mine = {} THEN Waiting ELSE [sched EXCEPT !.pc = "copies", !.todo = mine]
        IN \/ /\ Sent \/ Refused
              /\ lastCdr' = log_email(lastCdr, to) /\ sched' = next
           \/ Unlogged /\ sched' \in {next, Waiting} /\ UNCHANGED lastCdr
  <2> DEFINE x == { e \in Exts : \E r \in rows :
                      r.line.missed = e /\ r.line.start >= sched.at - Period(sched.form) }
  <2>1. x \in SUBSET Exts
    OBVIOUS
  <2>2. LET next == IF x = {} THEN Waiting ELSE [sched EXCEPT !.pc = "copies", !.todo = x]
        IN \/ /\ Sent \/ Refused
              /\ lastCdr' = log_email(lastCdr, to) /\ sched' = next
           \/ Unlogged /\ sched' \in {next, Waiting} /\ UNCHANGED lastCdr
    BY DEF MailsReport
  <2> HIDE DEF x
  <2>3. QED
    BY <2>1, <2>2
<1>6. /\ IF up THEN Receives(to, "report") ELSE UNCHANGED <<got, again>>
      /\ UNCHANGED <<importVars, now, settings, up, rings, lastAlert, told>>
      /\ left' = left \/ Spend("faults")
  <2>1. left' = left \/ Spend("faults")
    BY <1>5 DEF Sent, Refused, Unlogged
  <2>2. QED
    BY <2>1 DEF MailsReport
<1>7. World' /\ now <= now'
  BY <1>1, <1>6, SamePlan, SameWorld DEF importVars
<1>8. /\ Logged' => Logged /\ (up => lastCdr' = [lastCdr EXCEPT ![to] = now])
      /\ trouble' = {} => trouble = {} /\ up /\ Logged'
      /\ lastCdr' = lastCdr \/ lastCdr' = [lastCdr EXCEPT ![to] = now]
  BY <1>5 DEF Logged, Sent, Refused, Unlogged, log_email
<1>9. /\ lastCdr' \in [Recipients -> Int]
      /\ \A r \in Recipients : -1 <= lastCdr'[r] /\ lastCdr'[r] <= now
  <2>1. /\ lastCdr \in [Recipients -> Int]
        /\ \A r \in Recipients : -1 <= lastCdr[r] /\ lastCdr[r] <= now
    BY <1>1 DEF Mailed
  <2>2. CASE lastCdr' = lastCdr
    BY <2>1, <2>2
  <2>3. CASE lastCdr' = [lastCdr EXCEPT ![to] = now]
    <3>1. lastCdr' \in [Recipients -> Int]
      BY <1>1, <1>2, <2>1, <2>3
    <3>2. \A r \in Recipients : lastCdr'[r] \in {now, lastCdr[r]}
      BY <1>2, <2>1, <2>3
    <3>3. QED
      BY <1>1, <2>1, <3>1, <3>2
  <2>4. QED
    BY <1>8, <2>2, <2>3
<1>10. /\ got' \in [Recipients \cup Exts -> [occ : Int, at : Int]]
       /\ \A e \in (Recipients \cup Exts) \ {to} : got'[e] = got[e]
       /\ got'[to].occ = IF up THEN Occurrence ELSE got[to].occ
  <2>1. got \in [Recipients \cup Exts -> [occ : Int, at : Int]]
    BY <1>1 DEF Mailed
  <2>2. CASE up
    <3> DEFINE g == [occ |-> Occurrence, at |-> now]
    <3>1. g \in [occ : Int, at : Int] /\ g.occ = Occurrence
      BY <1>1, <1>2
    <3>2. got' = [got EXCEPT ![to] = g]
      BY <1>6, <2>2 DEF Receives
    <3> HIDE DEF g
    <3>3. QED
      BY <1>2, <2>1, <2>2, <3>1, <3>2
  <2>3. CASE ~up
    BY <1>6, <2>1, <2>3
  <2>4. QED
    BY <2>2, <2>3
<1>11. /\ again' \subseteq {"alert", "report", "copy"}
       /\ Logged => again' = again
       /\ "copy" \in again' => "copy" \in again
  <2>1. Logged => got[to].occ # Occurrence
    <3>1. SUFFICES ASSUME Logged PROVE got[to].occ # Occurrence
      OBVIOUS
    <3>2. got[to].occ <= lastCdr[to] /\ got[to].occ \in Int /\ lastCdr[to] \in Int
      BY <1>1, <1>2, <3>1 DEF Mailed
    <3>3. QED
      BY <1>2, <1>4, <3>1, <3>2
  <2>2. again' \in {again, again \cup {"report"}} /\ (got[to].occ # Occurrence => again' = again)
    BY <1>6 DEF Receives
  <2>3. QED
    BY <1>1, <2>1, <2>2 DEF Mailed
<1>12. ASSUME Logged', NEW r \in Recipients PROVE got'[r].occ <= lastCdr'[r]
  <2>1. got[r].occ <= lastCdr[r] /\ lastCdr[r] \in Int /\ got[r].occ \in Int /\ lastCdr[r] <= now
    BY <1>1, <1>8, <1>12 DEF Mailed
  <2>2. CASE r # to
    <3>1. got'[r] = got[r] /\ lastCdr'[r] = lastCdr[r]
      BY <1>1, <1>2, <1>8, <1>10, <2>2 DEF Mailed
    <3>2. QED
      BY <2>1, <3>1
  <2>3. CASE r = to /\ up
    <3>1. got'[r].occ = Occurrence /\ lastCdr'[r] = now
      BY <1>1, <1>8, <1>10, <1>12, <2>3 DEF Mailed
    <3>2. QED
      BY <1>3, <3>1
  <2>4. CASE r = to /\ ~up
    <3>1. got'[r].occ = got[r].occ /\ (lastCdr'[r] = lastCdr[r] \/ lastCdr'[r] = now)
      BY <1>1, <1>8, <1>10, <2>4 DEF Mailed
    <3>2. QED
      BY <1>1, <2>1, <3>1
  <2>5. QED
    BY <2>2, <2>3, <2>4
<1>13. ASSUME trouble' = {}
       PROVE  /\ to = settings.email /\ lastCdr'[settings'.email] = now /\ Occurrence <= now
              /\ \A e \in Exts : /\ got'[e] = got[e] /\ got[e].occ \in Int
                                 /\ got[e].occ < Occurrence /\ got[e].occ <= now
  <2>1. trouble = {} /\ up /\ Logged /\ lastCdr' = [lastCdr EXCEPT ![to] = now]
    BY <1>8, <1>13
  <2>2. to = settings.email
    BY <1>1, <2>1 DEF SchedInv, Reporting
  <2>3. lastCdr'[settings'.email] = now
    BY <1>1, <1>2, <1>6, <2>1, <2>2 DEF Mailed
  <2>4. ASSUME NEW e \in Exts
        PROVE  /\ got'[e] = got[e] /\ got[e].occ \in Int
               /\ got[e].occ < Occurrence /\ got[e].occ <= now
    <3>1. got'[e] = got[e] /\ got[e].occ \in Int
      BY <1>1, <1>3, <1>10 DEF Mailed
    <3>2. got[e].occ <= lastCdr[to] /\ lastCdr[to] \in Int
      BY <1>1, <1>2, <2>1, <2>2 DEF Mailed
    <3>3. QED
      BY <1>1, <1>2, <1>3, <1>4, <2>1, <3>1, <3>2
  <2>5. QED
    BY <1>3, <2>2, <2>3, <2>4
<1>14. Mailed'
  <2>1. trouble' = {} => /\ "copy" \notin again'
                         /\ \A e \in Exts : got'[e].occ <= lastCdr'[settings'.email]
    BY <1>1, <1>8, <1>11, <1>13 DEF Mailed
  <2>2. Logged' => /\ "alert" \notin again' /\ "report" \notin again'
                   /\ \A e \in Exts, c \in Call :
                        <<e, c>> \in told' => c.at <= lastAlert'[MailOf(e)]
    BY <1>1, <1>6, <1>8, <1>11 DEF Mailed
  <2>3. QED
    BY <1>1, <1>6, <1>9, <1>10, <1>11, <1>12, <2>1, <2>2 DEF Mailed
<1>15. SchedInv'
  <2>1. CASE sched' = Waiting
    BY <2>1, WaitingIs DEF SchedInv, Reporting
  <2>2. CASE sched' = [sched EXCEPT !.pc = "copies", !.todo = mine]
    <3>1. /\ sched' \in [pc : Stages, at : Nat, form : Forms \cup {<<>>},
                         todo : SUBSET (Exts \cup Alert)]
          /\ sched'.pc = "copies" /\ sched'.at = sched.at /\ sched'.form = sched.form
          /\ sched'.todo = mine
      BY <1>2, <2>2 DEF Stages
    <3>2. Occurrence' = Occurrence
      BY <3>1 DEF Occurrence
    <3>3. trouble' = {} => sched.form.email = settings'.email
      BY <1>6, <1>13
    <3>4. trouble' = {} => /\ Occurrence <= lastCdr'[settings'.email]
                           /\ \A e \in mine : got'[e].occ < Occurrence
      BY <1>13
    <3>5. QED
      BY <1>2, <1>6, <3>1, <3>2, <3>3, <3>4 DEF SchedInv, Reporting
  <2>3. QED
    BY <1>5, <2>1, <2>2
<1>16. QED
  BY <1>7, <1>14, <1>15 DEF MailInv

LEMMA CopyStep ==
  ASSUME MailInv, MailsCopy
  PROVE  MailInv'
<1>1. /\ World /\ Mailed /\ SchedInv /\ now \in Nat /\ sched.pc = "copies"
  BY DEF MailInv, World, InTime, MailsCopy
<1>2. PICK e \in sched.todo : /\ sched' = DropFirst(e)
                              /\ IF up THEN Receives(e, "copy") ELSE UNCHANGED <<got, again>>
  BY DEF MailsCopy
<1>3. UNCHANGED <<importVars, now, left, settings, up, rings, lastCdr, lastAlert, told, trouble>>
  BY DEF MailsCopy
<1>4. World' /\ now <= now'
  BY <1>1, <1>3, SamePlan, SameWorld DEF importVars
<1>5. e \in Exts /\ e \notin Recipients /\ Occurrence \in Int
      /\ sched.form \in Forms /\ InTime(sched.at) /\ sched.at <= now
  <2>1. e \in Exts /\ sched.form \in Forms /\ InTime(sched.at) /\ sched.at <= now
    BY <1>1 DEF SchedInv, Reporting
  <2>2. Occurrence \in Int
    BY <2>1, OccurrenceIs DEF Occurrence
  <2>3. QED
    BY <2>1, <2>2, StartAssumption
<1>6. /\ got' \in [Recipients \cup Exts -> [occ : Int, at : Int]]
      /\ \A w \in (Recipients \cup Exts) \ {e} : got'[w] = got[w]
      /\ got'[e].occ = IF up THEN Occurrence ELSE got[e].occ
  <2>1. got \in [Recipients \cup Exts -> [occ : Int, at : Int]]
    BY <1>1 DEF Mailed
  <2>2. CASE up
    <3> DEFINE g == [occ |-> Occurrence, at |-> now]
    <3>1. g \in [occ : Int, at : Int] /\ g.occ = Occurrence
      BY <1>1, <1>5
    <3>2. got' = [got EXCEPT ![e] = g]
      BY <1>2, <2>2 DEF Receives
    <3> HIDE DEF g
    <3>3. QED
      BY <1>5, <2>1, <2>2, <3>1, <3>2
  <2>3. CASE ~up
    BY <1>2, <2>1, <2>3
  <2>4. QED
    BY <2>2, <2>3
<1>7. trouble = {} => /\ Occurrence <= lastCdr[settings.email]
                      /\ \A w \in sched.todo : got[w].occ < Occurrence
                      /\ \A w \in Exts : got[w].occ <= lastCdr[settings.email]
                      /\ "copy" \notin again
  BY <1>1 DEF SchedInv, Mailed
<1>8. /\ again' \subseteq again \cup {"copy"} /\ (trouble = {} => again' = again)
  <2>1. again' \in {again, again \cup {"copy"}} /\ (got[e].occ # Occurrence => again' = again)
    BY <1>2 DEF Receives
  <2>2. trouble = {} => got[e].occ # Occurrence
    <3>1. got[e].occ \in Int
      BY <1>1, <1>5 DEF Mailed
    <3>2. QED
      BY <1>2, <1>5, <1>7, <3>1
  <2>3. QED
    BY <2>1, <2>2
<1>9. Mailed'
  <2>1. trouble' = {} => /\ "copy" \notin again'
                         /\ \A w \in Exts : got'[w].occ <= lastCdr'[settings'.email]
    BY <1>3, <1>5, <1>6, <1>7, <1>8
  <2>2. Logged' => /\ "alert" \notin again' /\ "report" \notin again'
                   /\ \A r \in Recipients : got'[r].occ <= lastCdr'[r]
    BY <1>1, <1>3, <1>5, <1>6, <1>8 DEF Mailed, Logged
  <2>3. Logged' => \A x \in Exts, c \in Call :
                     <<x, c>> \in told' => c.at <= lastAlert'[MailOf(x)]
    BY <1>1, <1>3 DEF Mailed, Logged
  <2>4. again' \subseteq {"alert", "report", "copy"}
    BY <1>1, <1>8 DEF Mailed
  <2>5. QED
    BY <1>1, <1>3, <1>6, <2>1, <2>2, <2>3, <2>4 DEF Mailed
<1>10. SchedInv'
  <2>1. /\ sched' \in [pc : Stages, at : Nat, form : Forms \cup {<<>>},
                       todo : SUBSET (Exts \cup Alert)]
        /\ sched'.at = sched.at /\ sched'.form = sched.form
        /\ sched'.todo \subseteq sched.todo \ {e}
        /\ sched'.pc = "copies" \/ sched'.pc \in {"report", "alerts"}
    BY <1>1, <1>2, DroppedIs
  <2>2. Occurrence' = Occurrence
    BY <2>1 DEF Occurrence
  <2>3. sched.todo \subseteq Exts /\ (trouble = {} => sched.form.email = settings.email)
    BY <1>1 DEF SchedInv, Reporting
  <2>4. trouble = {} => \A w \in sched'.todo : got'[w].occ < Occurrence
    BY <1>6, <1>7, <2>1, <2>3
  <2>5. QED
    BY <1>3, <1>5, <1>7, <2>1, <2>2, <2>3, <2>4 DEF SchedInv, Reporting
<1>11. QED
  BY <1>4, <1>9, <1>10 DEF MailInv

LEMMA MailStart == Init => MailInv
<1> SUFFICES ASSUME Init PROVE MailInv
  OBVIOUS
<1>1. PICK q \in Plans :
        /\ csv = <<>> /\ rotated = {} /\ rows = {} /\ place = NoPlace /\ imp = Resting
        /\ unsaved = FALSE /\ now = q.start /\ left = q
        /\ settings = q.settings /\ up = TRUE /\ rings = {} /\ sched = Waiting
        /\ lastCdr = [m \in Recipients |-> IF m = q.settings.email THEN q.last ELSE Never]
        /\ lastAlert = [a \in Addresses |-> Never]
        /\ got = [w \in Recipients \cup Exts |->
                     [occ |-> Never, at |-> IF w = q.settings.email THEN q.last ELSE Never]]
        /\ told = {} /\ again = {} /\ trouble = {}
  BY DEF Init
<1>2. /\ q.settings \in Forms /\ q.last \in Int /\ -1 <= q.last /\ q.last <= q.start
      /\ q.start \in Nat /\ FirstDay[2] * DayLen <= q.start
      /\ q.start + q.slots < FirstDay[Len(FirstDay)] * DayLen
      /\ "slots" \in DOMAIN q /\ q.slots \in Nat /\ "missing" \in DOMAIN q
      /\ q.missing \subseteq Exts
  BY StartAssumption, PlanAssumption
<1>3. FirstDay[Len(FirstDay)] * DayLen \in Nat
  <2>1. FirstDay[Len(FirstDay)] \in Nat /\ DayLen \in Nat
    BY Calendar, CalendarAssumption
  <2>2. QED
    BY <2>1
<1>4. World
  BY <1>1, <1>2, <1>3 DEF World, InTime
<1>5. q.settings.email \in Recipients
  BY <1>2, FormIs
<1>6. Mailed
  <2>1. /\ lastCdr \in [Recipients -> Int]
        /\ \A r \in Recipients : -1 <= lastCdr[r] /\ lastCdr[r] <= now
    BY <1>1, <1>2 DEF Never
  <2>2. /\ lastAlert \in [Addresses -> Int]
        /\ \A a \in Addresses : -1 <= lastAlert[a] /\ lastAlert[a] <= now
    BY <1>1, <1>2 DEF Never
  <2>3. /\ got \in [Recipients \cup Exts -> [occ : Int, at : Int]]
        /\ \A w \in Recipients \cup Exts : got[w].occ = -1
    BY <1>1, <1>2 DEF Never
  <2>4. QED
    BY <1>1, <1>5, <2>1, <2>2, <2>3 DEF Mailed
<1>7. SchedInv
  BY <1>1, WaitingIs DEF SchedInv, Reporting
<1>8. QED
  BY <1>4, <1>6, <1>7 DEF MailInv

LEMMA MailStep == MailInv /\ [Next]_vars => MailInv'
<1> SUFFICES ASSUME MailInv, [Next]_vars PROVE MailInv'
  OBVIOUS
<1>1. CASE UNCHANGED vars
  <2>1. UNCHANGED <<now, csv, left, rings, settings, lastCdr, lastAlert, got, told, again, trouble, sched>>
    BY <1>1 DEF vars, importVars, mailVars
  <2>2. World' /\ now <= now'
    BY <2>1, SamePlan, SameWorld DEF MailInv
  <2>3. QED
    BY <2>1, <2>2, Elsewhere
<1>2. CASE Next
  BY <1>2, OthersKeep, ThreadGoesOn, AlertStep, ReportStep, CopyStep DEF Next
<1>3. QED
  BY <1>1, <1>2

(* The occurrence a report is due for is the last time at or before now    *)
(* that fits the schedule, whatever the lengths of the months, and a month *)
(* without the day has its report on its last one                          *)
(* (scheduled_report_occurrence).                                          *)
THEOREM OccurrenceLatest == Spec => []OccurrenceIsLatest
<1>1. MailInv => OccurrenceIsLatest
  <2> SUFFICES ASSUME MailInv, NEW f \in Forms
               PROVE  LET o == scheduled_report_occurrence(now, f)
                      IN o <= now /\ Occurs(o, f) /\ \A t \in o + 1 .. now : ~Occurs(t, f)
    BY DEF OccurrenceIsLatest
  <2>1. InTime(now)
    BY DEF MailInv, World
  <2>2. QED
    BY <2>1, OccurrenceIs
<1>2. QED
  BY <1>1, MailStart, MailStep, PTL DEF Spec

(* A recipient gets one report of an occurrence and an extension one copy, *)
(* for any plan of edits, deaths of the process and outages, unless a      *)
(* success was not logged (check_and_send_cdr_reports).                    *)
THEOREM OneCopy == Spec => []OneCopyEach
<1>1. MailInv => OneCopyEach
  BY DEF MailInv, Mailed, OneCopyEach, Logged
<1>2. QED
  BY <1>1, MailStart, MailStep, PTL DEF Spec

(* No call is told twice to an extension, although alerts to extensions    *)
(* that share an address move the same mark (monitor_missed_calls).        *)
THEOREM NoAlertTwice == Spec => []NotAlertedTwice
<1>1. MailInv => NotAlertedTwice
  BY DEF MailInv, Mailed, NotAlertedTwice, Logged
<1>2. QED
  BY <1>1, MailStart, MailStep, PTL DEF Spec

-----------------------------------------------------------------------------
(* The import.                                                             *)

LEMMA ImportStart == Init => ImportInv
<1> SUFFICES ASSUME Init PROVE ImportInv
  OBVIOUS
<1>1. /\ csv = <<>> /\ rotated = {} /\ rows = {} /\ place = NoPlace /\ imp = Resting
      /\ unsaved = FALSE /\ passed = {}
  BY DEF Init
<1>2. Files = {<<>>}
  BY <1>1 DEF Files
<1>3. Files \subseteq Seq(Line) /\ Apart(Files)
  BY <1>2 DEF Apart
<1>4. Table(Files, Uids(passed), rows, ~unsaved) /\ OneEach(Files, rows)
  BY <1>1, KeysOf, FS_EmptySet DEF Table, OneEach
<1> HIDE DEF Files
<1>5. QED
  BY <1>1, <1>3, <1>4, RestingIs, NoPlaceGood DEF ImportInv, GoodImport

(* What Asterisk and everybody else does to the import.                    *)
LEMMA ImportStep ==
  ASSUME ImportInv, now \in Nat, left.missing \subseteq Exts, [Next]_vars
  PROVE  ImportInv'
<1>1. CASE UNCHANGED importVars
  BY <1>1 DEF importVars, ImportInv, Files, Uids
<1>2. ASSUME NEW who, sync_reads(who) PROVE ImportInv'
  BY <1>2, ReadKeeps
<1>3. CASE ReportSyncs
  BY <1>1, <1>2, <1>3 DEF ReportSyncs, importVars
<1>4. CASE PageImports
  BY <1>2, <1>4 DEF PageImports
<1>5. CASE ImportCommits
  BY <1>5, CommitKeeps DEF ImportCommits
<1>6. CASE ImportSaves
  <2>1. /\ UNCHANGED <<csv, rotated, rows>> /\ imp' = Resting /\ imp.pc = "save"
        /\ \/ place' = imp.place /\ unsaved' = unsaved /\ passed' = passed \cup imp.lost
           \/ place' = place /\ unsaved' = Stale /\ passed' = passed
    BY <1>6 DEF ImportSaves, sync_saves, Imports
  <2>2. QED
    BY <2>1, EndKeeps
<1>7. CASE ProcessDies
  <2>1. /\ UNCHANGED <<csv, rotated, rows, passed>> /\ imp' = Resting
        /\ place' \in IF imp.pc = "save" THEN {place, NoPlace} ELSE {place}
        /\ unsaved' = IF imp.pc = "save" /\ place' # NoPlace THEN Stale ELSE unsaved
    BY <1>7 DEF ProcessDies, Interrupted
  <2>2. \/ place' = NoPlace /\ unsaved' = unsaved
        \/ imp.pc = "save" /\ place' = place /\ unsaved' = Stale
        \/ imp.pc # "save" /\ place' = place /\ unsaved' = unsaved
    BY <2>1
  <2>3. QED
    BY <2>1, <2>2, EndKeeps
<1>8. CASE CallEnds
  BY <1>8, WriteKeeps DEF CallEnds
<1>9. CASE LogRotates
  BY <1>9, RotateKeeps DEF LogRotates
<1>10. CASE \/ monitor_missed_calls \/ AlertsExtension \/ check_and_send_cdr_reports
            \/ ReportSynced \/ MailsReport \/ NoWorkbook \/ MailsCopy \/ mail_settings
            \/ QueueRings \/ TimePasses \/ ServerStops \/ ServerRecovers \/ UNCHANGED vars
  <2>1. UNCHANGED importVars
    BY <1>10 DEF monitor_missed_calls, AlertsExtension, check_and_send_cdr_reports, ReportSynced,
       MailsReport, NoWorkbook, MailsCopy, mail_settings, QueueRings, TimePasses, ServerStops,
       ServerRecovers, vars, importVars
  <2>2. QED
    BY <1>1, <2>1
<1>11. QED
  BY <1>3, <1>4, <1>5, <1>6, <1>7, <1>8, <1>9, <1>10 DEF Next

LEMMA RowsStayTheirs ==
  ASSUME ImportInv, [Next]_vars, NEW r \in rows, NEW s \in rows', s.key = r.key, s.line # r.line
  PROVE  Split(r.key.uid) \/ \E l \in passed : l.uid = r.key.uid
<1> DEFINE P == Uids(passed)
           Theirs(x) == Right(Files, x) /\ Leads(Files, P, x)
<1>1. Files \subseteq Seq(Line) /\ Apart(Files) /\ \A x \in rows : Theirs(x)
  BY DEF ImportInv, GoodImport, Table
<1>2. Theirs(s)
  <2>1. CASE rows' = rows
    BY <1>1, <2>1
  <2>2. CASE imp.pc = "commit" /\ rows' = Upsert(rows, imp.out)
    <3>1. s \in rows \cup Lines(imp.out)
      BY <2>2 DEF Upsert
    <3>2. \A x \in Lines(imp.out) : Theirs(x)
      BY <2>2 DEF ImportInv, GoodImport, Table
    <3>3. QED
      BY <1>1, <3>1, <3>2
  <2>3. rows' = rows \/ (imp.pc = "commit" /\ rows' = Upsert(rows, imp.out))
    BY DEF Next, monitor_missed_calls, AlertsExtension, check_and_send_cdr_reports, ReportSynced,
       ReportSyncs, PageImports, sync_reads, ImportCommits, sync_commits, ImportSaves, sync_saves,
       ProcessDies, Interrupted, CallEnds, Asterisk_writes, LogRotates, Rotates,
       MailsReport, NoWorkbook, MailsCopy, mail_settings, QueueRings, TimePasses, ServerStops,
       ServerRecovers, vars, importVars
  <2>4. QED
    BY <2>1, <2>2, <2>3
<1> HIDE DEF P
<1>3. SplitIn(Files, r.key.uid) \/ r.key.uid \in P
  BY <1>1, <1>2, KeyOfOne
<1>4. QED
  BY <1>3 DEF Split, SplitIn, P, Uids

LEMMA LegsStep == MailInv /\ ImportInv /\ [Next]_vars => ImportInv'
BY ImportStep DEF MailInv, World, InTime

(* While no commit left its place behind, a leg of a call in one file has   *)
(* one row, wherever an import began: at the place, at the start of a file *)
(* whose head changed, of the one after a rotation, or without a place     *)
(* (sync_cdr_records).                                                     *)
THEOREM LegsOnce == Spec => []EachLegOnce
<1>1. QED
  BY MailStart, MailStep, ImportStart, LegsStep, OneLegOneRow, PTL DEF Spec

(* No import gives the row of a leg to another leg, unless the call was    *)
(* split by a rotation or a leg of it was read past after an error that     *)
(* is swallowed: also when places were not saved (sync_cdr_records).        *)
THEOREM LegsKept == Spec => KeepsLegs
<1>1. ImportInv /\ [Next]_vars
        => [\A r \in rows : (\E s \in rows' : s.key = r.key /\ s.line # r.line)
              => Split(r.key.uid) \/ \E l \in passed : l.uid = r.key.uid]_<<importVars, now, left>>
  BY RowsStayTheirs
<1>2. QED
  BY <1>1, MailStart, MailStep, ImportStart, LegsStep, PTL DEF Spec, KeepsLegs
=============================================================================
