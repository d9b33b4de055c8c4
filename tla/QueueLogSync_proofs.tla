------------------------ MODULE QueueLogSync_proofs ------------------------
(***************************************************************************)
(* Theorems about QueueLogSync, for any calls, importers and bounds.  What *)
(* a stretch of the log does to the table is a recursive function of its   *)
(* lines; the lemmas about it are inductions over the number of lines.     *)
(***************************************************************************)
EXTENDS QueueLogSync, Integers, WellFoundedInduction, TLAPS

-----------------------------------------------------------------------------
(* Induction over the numbers, from the well-foundedness of their order.   *)

LEMMA SmallestOf ==
  ASSUME NEW T \in SUBSET Nat, T # {}
  PROVE  \E n \in T : \A m \in T : n <= m
<1>1. PICK n \in T : \A m \in T : ~ (<<m, n>> \in OpToRel(<, Nat))
  BY WFMin, NatLessThanWellFounded
<1>2. \A m \in T : ~(m < n)
  BY <1>1 DEF OpToRel
<1>3. QED
  BY <1>2

LEMMA Induction ==
  ASSUME NEW T \in SUBSET Nat, 0 \in T, \A n \in T : n + 1 \in T
  PROVE  T = Nat
<1> DEFINE U == Nat \ T
<1>1. SUFFICES ASSUME U # {} PROVE FALSE
  OBVIOUS
<1>2. PICK n \in U : \A m \in U : n <= m
  <2> HIDE DEF U
  <2>1. U \subseteq Nat
    BY DEF U
  <2>2. QED
    BY <1>1, <2>1, SmallestOf
<1>3. n # 0 /\ n - 1 \in T
  BY <1>2
<1>4. QED
  BY <1>2, <1>3

-----------------------------------------------------------------------------
(* What the import of some lines leaves is the end of a sequence of        *)
(* tables, one per line.                                                   *)

OneLine(t, l) == [t EXCEPT ![l.call] = LineRow(@, l.kind)]

Tables(t, lines, n, f) ==
  f = [i \in 0..n |-> IF i = 0 THEN t ELSE OneLine(f[i - 1], lines[i])]

LEMMA TablesExist ==
  ASSUME NEW t, NEW lines
  PROVE  \A n \in Nat : \E f : Tables(t, lines, n, f)
<1> DEFINE T == {n \in Nat : \E f : Tables(t, lines, n, f)}
<1>1. 0 \in T
  <2>1. Tables(t, lines, 0, [i \in 0..0 |-> t])
    BY DEF Tables
  <2>2. QED
    BY <2>1
<1>2. ASSUME NEW n \in T PROVE n + 1 \in T
  <2>1. PICK f : Tables(t, lines, n, f)
    OBVIOUS
  <2> DEFINE g == [i \in 0..n + 1 |-> IF i = 0 THEN t ELSE OneLine(f[i - 1], lines[i])]
  <2>2. \A i \in 0..n : g[i] = f[i]
    BY <2>1 DEF Tables
  <2>3. ASSUME NEW i \in 0..n + 1
        PROVE  (IF i = 0 THEN t ELSE OneLine(f[i - 1], lines[i]))
                 = (IF i = 0 THEN t ELSE OneLine(g[i - 1], lines[i]))
    <3>1. i # 0 => i - 1 \in 0..n
      BY <2>3
    <3> HIDE DEF g
    <3>2. i # 0 => g[i - 1] = f[i - 1]
      BY <2>2, <3>1
    <3>3. QED
      BY <3>2
  <2>4. g = [i \in 0..n + 1 |-> IF i = 0 THEN t ELSE OneLine(f[i - 1], lines[i])]
    OBVIOUS
  <2> HIDE DEF g
  <2>5. g = [i \in 0..n + 1 |-> IF i = 0 THEN t ELSE OneLine(g[i - 1], lines[i])]
    BY <2>3, <2>4
  <2>6. Tables(t, lines, n + 1, g)
    BY <2>5 DEF Tables
  <2>7. QED
    BY <2>6
<1> HIDE DEF T
<1>3. T \in SUBSET Nat
  BY DEF T
<1>4. T = Nat
  BY <1>1, <1>2, <1>3, Induction
<1>5. QED
  BY <1>4 DEF T

(* LinesEffect is the last table of such a sequence.                       *)
LEMMA TablesOfEffect ==
  ASSUME NEW t, NEW lines \in Seq(Line)
  PROVE  \E f : /\ Tables(t, lines, Len(lines), f)
                /\ LinesEffect(t, lines) = f[Len(lines)]
<1> DEFINE g == CHOOSE f : Tables(t, lines, Len(lines), f)
<1>1. Tables(t, lines, Len(lines), g)
  <2>1. Len(lines) \in Nat
    OBVIOUS
  <2>2. \E f : Tables(t, lines, Len(lines), f)
    BY <2>1, TablesExist
  <2>3. QED
    BY <2>2
<1>2. LinesEffect(t, lines) = g[Len(lines)]
  BY DEF LinesEffect, Tables, OneLine
<1>3. QED
  BY <1>1, <1>2

(* The statuses the contract speaks of, in the same way.                   *)

OneWord(s, l) == [s EXCEPT ![l.call] = Promise!Says(l, @)]

Words(s, lines, n, g) ==
  g = [i \in 0..n |-> IF i = 0 THEN s ELSE OneWord(g[i - 1], lines[i])]

LEMMA WordsExist ==
  ASSUME NEW s, NEW lines
  PROVE  \A n \in Nat : \E f : Words(s, lines, n, f)
<1> DEFINE T == {n \in Nat : \E f : Words(s, lines, n, f)}
<1>1. 0 \in T
  <2>1. Words(s, lines, 0, [i \in 0..0 |-> s])
    BY DEF Words
  <2>2. QED
    BY <2>1
<1>2. ASSUME NEW n \in T PROVE n + 1 \in T
  <2>1. PICK f : Words(s, lines, n, f)
    OBVIOUS
  <2> DEFINE g == [i \in 0..n + 1 |-> IF i = 0 THEN s ELSE OneWord(f[i - 1], lines[i])]
  <2>2. \A i \in 0..n : g[i] = f[i]
    BY <2>1 DEF Words
  <2>3. ASSUME NEW i \in 0..n + 1
        PROVE  (IF i = 0 THEN s ELSE OneWord(f[i - 1], lines[i]))
                 = (IF i = 0 THEN s ELSE OneWord(g[i - 1], lines[i]))
    <3>1. i # 0 => i - 1 \in 0..n
      BY <2>3
    <3> HIDE DEF g
    <3>2. i # 0 => g[i - 1] = f[i - 1]
      BY <2>2, <3>1
    <3>3. QED
      BY <3>2
  <2>4. g = [i \in 0..n + 1 |-> IF i = 0 THEN s ELSE OneWord(f[i - 1], lines[i])]
    OBVIOUS
  <2> HIDE DEF g
  <2>5. g = [i \in 0..n + 1 |-> IF i = 0 THEN s ELSE OneWord(g[i - 1], lines[i])]
    BY <2>3, <2>4
  <2>6. Words(s, lines, n + 1, g)
    BY <2>5 DEF Words
  <2>7. QED
    BY <2>6
<1> HIDE DEF T
<1>3. T \in SUBSET Nat
  BY DEF T
<1>4. T = Nat
  BY <1>1, <1>2, <1>3, Induction
<1>5. QED
  BY <1>4 DEF T

(* After is the last of such a sequence.                                   *)
LEMMA WordsOfAfter ==
  ASSUME NEW s, NEW lines \in Seq(Line)
  PROVE  \E g : /\ Words(s, lines, Len(lines), g)
                /\ Promise!After(s, lines) = g[Len(lines)]
<1> DEFINE h == CHOOSE g : Words(s, lines, Len(lines), g)
<1>1. Words(s, lines, Len(lines), h)
  <2>1. Len(lines) \in Nat
    OBVIOUS
  <2>2. \E g : Words(s, lines, Len(lines), g)
    BY <2>1, WordsExist
  <2>3. QED
    BY <2>2
<1>2. Promise!After(s, lines) = h[Len(lines)]
  BY DEF Promise!After, Words, OneWord
<1>3. QED
  BY <1>1, <1>2

-----------------------------------------------------------------------------
(* One line keeps the shape of a table, and the statuses in it go the way  *)
(* the contract says.                                                      *)

Status == {"none"} \cup OpenStatus \cup TerminalStatus
StatusIn(t) == [c \in Calls |-> t[c].status]

(* The cases of LineRow and Says exclude each other.                       *)
LEMMA LineRowIs ==
  ASSUME NEW r, NEW kind
  PROVE  /\ kind = "ENTERQUEUE" => LineRow(r, kind) = LogEnterRow(r)
         /\ kind = "CONNECT" => LineRow(r, kind) = AnswerRow(r)
         /\ kind \in LogExits => LineRow(r, kind) = LogExitRow(r, kind)
         /\ kind \notin LogLines => LineRow(r, kind) = r
BY DEF LineRow, LogExits, LogLines

LEMMA SaysIs ==
  ASSUME NEW line, NEW known
  PROVE  /\ line.kind = "ENTERQUEUE" => Promise!Says(line, known) = "ENTERED"
         /\ known = "none" /\ line.kind # "ENTERQUEUE"
              => Promise!Says(line, known) = "none"
         /\ known # "none" /\ line.kind = "CONNECT"
              => Promise!Says(line, known) = "ANSWERED"
         /\ known # "none" /\ line.kind \in LogExits
              => Promise!Says(line, known) = ExitStatus(line.kind)
         /\ line.kind \notin LogLines => Promise!Says(line, known) = known
<1>1. line.kind = "ENTERQUEUE" => Promise!Says(line, known) = "ENTERED"
  BY DEF Promise!Says
<1>2. known = "none" /\ line.kind # "ENTERQUEUE" => Promise!Says(line, known) = "none"
  BY DEF Promise!Says
<1>3. known # "none" /\ line.kind = "CONNECT" => Promise!Says(line, known) = "ANSWERED"
  BY DEF Promise!Says, Promise!LogExits
<1>4. known # "none" /\ line.kind \in LogExits
        => Promise!Says(line, known) = ExitStatus(line.kind)
  BY DEF Promise!Says, Promise!LogExits, Promise!ExitStatus, LogExits, ExitStatus
<1>5. line.kind \notin LogLines => Promise!Says(line, known) = known
  BY DEF Promise!Says, Promise!LogExits, LogExits, LogLines
<1>6. QED
  BY <1>1, <1>2, <1>3, <1>4, <1>5

LEMMA LineRowType ==
  ASSUME NEW r \in Row, NEW kind
  PROVE  LineRow(r, kind) \in Row
<1>1. LogEnterRow(r) \in Row
  BY DEF LogEnterRow, Row, NoRow, OpenStatus
<1>2. AnswerRow(r) \in Row
  BY DEF AnswerRow, Row, TerminalStatus
<1>3. ASSUME kind \in LogExits PROVE LogExitRow(r, kind) \in Row
  <2>1. ExitStatus(kind) \in TerminalStatus
    BY <1>3 DEF LogExits, ExitStatus, TerminalStatus
  <2>2. /\ (r.answered \/ kind = "COMPLETE") \in BOOLEAN
        /\ (r.talk \/ kind = "COMPLETE") \in BOOLEAN
    BY DEF Row
  <2>3. QED
    BY <2>1, <2>2 DEF LogExitRow, Row
<1>4. QED
  BY <1>1, <1>2, <1>3, LineRowIs DEF LogLines

LEMMA LineRowStatus ==
  ASSUME NEW r \in Row, NEW line \in Line
  PROVE  LineRow(r, line.kind).status = Promise!Says(line, r.status)
<1>1. LogEnterRow(r).status = "ENTERED"
  BY DEF LogEnterRow, Row, NoRow
<1>2. AnswerRow(r).status = IF r.status = "none" THEN "none" ELSE "ANSWERED"
  BY DEF AnswerRow, Row, Exists
<1>3. LogExitRow(r, line.kind).status
        = IF r.status = "none" THEN "none" ELSE ExitStatus(line.kind)
  BY DEF LogExitRow, Row, Exists
<1>4. "ENTERQUEUE" \notin LogExits
  BY DEF LogExits
<1>5. QED
  BY <1>1, <1>2, <1>3, <1>4, LineRowIs, SaysIs DEF LogLines

(* Importing lines keeps the shape of the table, and the statuses in it    *)
(* become what the contract says of them.                                  *)
LEMMA EffectType ==
  ASSUME NEW t \in [Calls -> Row], NEW lines \in Seq(Line)
  PROVE  /\ LinesEffect(t, lines) \in [Calls -> Row]
         /\ StatusIn(LinesEffect(t, lines)) = Promise!After(StatusIn(t), lines)
<1>1. PICK f : /\ Tables(t, lines, Len(lines), f)
               /\ LinesEffect(t, lines) = f[Len(lines)]
  BY TablesOfEffect
<1>2. PICK g : /\ Words(StatusIn(t), lines, Len(lines), g)
               /\ Promise!After(StatusIn(t), lines) = g[Len(lines)]
  BY WordsOfAfter
<1> DEFINE T == {n \in Nat : n <= Len(lines) => /\ f[n] \in [Calls -> Row]
                                                /\ StatusIn(f[n]) = g[n]}
<1>3. 0 \in T
  BY <1>1, <1>2 DEF Tables, Words
<1>4. ASSUME NEW n \in T PROVE n + 1 \in T
  <2> SUFFICES ASSUME n + 1 <= Len(lines)
               PROVE  f[n + 1] \in [Calls -> Row] /\ StatusIn(f[n + 1]) = g[n + 1]
    OBVIOUS
  <2>1. n \in Nat /\ n + 1 \in 0..Len(lines) /\ n + 1 \in 1..Len(lines) /\ n + 1 - 1 = n
    OBVIOUS
  <2>2. lines[n + 1] \in Line
    BY <2>1
  <2>3. f[n + 1] = OneLine(f[n], lines[n + 1])
    BY <1>1, <2>1 DEF Tables
  <2>4. g[n + 1] = OneWord(g[n], lines[n + 1])
    BY <1>2, <2>1 DEF Words
  <2>5. f[n] \in [Calls -> Row] /\ StatusIn(f[n]) = g[n]
    BY <2>1
  <2> DEFINE l == lines[n + 1]
  <2>6. l.call \in Calls /\ l.kind \in Kinds
    BY <2>2 DEF Line
  <2>7. f[n + 1] \in [Calls -> Row]
    BY <2>3, <2>5, <2>6, LineRowType DEF OneLine
  <2>8. StatusIn(f[n + 1]) = g[n + 1]
    <3>1. ASSUME NEW c \in Calls
          PROVE  f[n + 1][c].status = g[n + 1][c]
      <4>1. g[n][c] = f[n][c].status
        BY <2>5 DEF StatusIn
      <4>2. CASE c = l.call
        <5>1. f[n + 1][c] = LineRow(f[n][c], l.kind)
          BY <2>3, <2>5, <2>6, <4>2 DEF OneLine
        <5>2. g[n + 1][c] = Promise!Says(l, g[n][c])
          BY <2>4, <2>5, <2>6, <4>2 DEF OneWord, StatusIn
        <5>3. LineRow(f[n][c], l.kind).status = Promise!Says(l, f[n][c].status)
          BY <2>2, <2>5, LineRowStatus
        <5>4. QED
          BY <4>1, <5>1, <5>2, <5>3
      <4>3. CASE c # l.call
        BY <2>3, <2>4, <2>5, <2>6, <4>1, <4>3 DEF OneLine, OneWord, StatusIn
      <4>4. QED
        BY <4>2, <4>3
    <3>2. g[n + 1] = [c \in Calls |-> g[n + 1][c]]
      BY <2>4, <2>5 DEF OneWord, StatusIn
    <3>3. QED
      BY <3>1, <3>2 DEF StatusIn
  <2>9. QED
    BY <2>7, <2>8
<1> HIDE DEF T
<1>5. T \in SUBSET Nat
  BY DEF T
<1>6. T = Nat
  BY <1>3, <1>4, <1>5, Induction
<1>7. Len(lines) \in Nat
  OBVIOUS
<1>8. QED
  BY <1>1, <1>2, <1>6, <1>7 DEF T

-----------------------------------------------------------------------------
(* What a stretch of the log says of the calls.                            *)

LEMMA WordType ==
  ASSUME NEW s \in [Calls -> Status], NEW l \in Line
  PROVE  /\ OneWord(s, l) \in [Calls -> Status]
         /\ \A c \in Calls : OneWord(s, l)[c]
                               = IF c = l.call THEN Promise!Says(l, s[c]) ELSE s[c]
<1>1. l.call \in Calls /\ l.kind \in Kinds
  BY DEF Line
<1>2. ASSUME NEW known \in Status PROVE Promise!Says(l, known) \in Status
  <2>1. \A kind \in LogExits : ExitStatus(kind) \in Status
    BY DEF LogExits, ExitStatus, Status, TerminalStatus
  <2>2. {"none", "ENTERED", "ANSWERED"} \subseteq Status
    BY DEF Status, OpenStatus, TerminalStatus
  <2>3. QED
    BY <2>1, <2>2, SaysIs DEF LogLines
<1>3. QED
  BY <1>1, <1>2 DEF OneWord

LEMMA WordsType ==
  ASSUME NEW s \in [Calls -> Status], NEW lines \in Seq(Line), NEW g,
         Words(s, lines, Len(lines), g)
  PROVE  /\ g[0] = s
         /\ \A i \in 0..Len(lines) : g[i] \in [Calls -> Status]
         /\ \A i \in 0..Len(lines) - 1 : g[i + 1] = OneWord(g[i], lines[i + 1])
<1> DEFINE n == Len(lines)
           T == {i \in Nat : i <= n => g[i] \in [Calls -> Status]}
<1>1. n \in Nat
  OBVIOUS
<1>2. g[0] = s
  BY <1>1 DEF Words
<1>3. ASSUME NEW i \in 0..n - 1 PROVE g[i + 1] = OneWord(g[i], lines[i + 1])
  <2>1. i + 1 \in 0..n /\ i + 1 # 0 /\ i + 1 - 1 = i
    BY <1>1
  <2>2. QED
    BY <2>1 DEF Words
<1>4. 0 \in T
  BY <1>2
<1>5. ASSUME NEW i \in T PROVE i + 1 \in T
  <2> SUFFICES ASSUME i + 1 <= n PROVE g[i + 1] \in [Calls -> Status]
    OBVIOUS
  <2>1. i \in 0..n - 1 /\ i + 1 \in 1..n
    BY <1>1
  <2>2. lines[i + 1] \in Line
    BY <2>1
  <2>3. g[i] \in [Calls -> Status]
    BY <2>1
  <2>4. OneWord(g[i], lines[i + 1]) \in [Calls -> Status]
    BY <2>2, <2>3, WordType
  <2>5. g[i + 1] = OneWord(g[i], lines[i + 1])
    BY <1>3, <2>1
  <2>6. QED
    BY <2>4, <2>5
<1> HIDE DEF T
<1>6. T \in SUBSET Nat
  BY DEF T
<1>7. T = Nat
  BY <1>4, <1>5, <1>6, Induction
<1>8. QED
  BY <1>1, <1>2, <1>3, <1>7 DEF T

(* The lines of the log from f + 1 to n.                                   *)
LEMMA Stretch ==
  ASSUME NEW h \in Seq(Line), NEW f \in Nat, NEW n \in Nat, f <= n, n <= Len(h)
  PROVE  /\ SubSeq(h, f + 1, n) \in Seq(Line)
         /\ Len(SubSeq(h, f + 1, n)) = n - f
         /\ \A i \in 1..n - f : SubSeq(h, f + 1, n)[i] = h[f + i]
<1>1. Len(SubSeq(h, f + 1, n)) = n - f
  OBVIOUS
<1>2. \A i \in 1..n - f : SubSeq(h, f + 1, n)[i] = h[f + i]
  OBVIOUS
<1>3. \A i \in 1..n - f : h[f + i] \in Line
  OBVIOUS
<1>4. SubSeq(h, f + 1, n) \in Seq(Line)
  OBVIOUS
<1>5. QED
  BY <1>1, <1>2, <1>4

LEMMA AfterType ==
  ASSUME NEW s \in [Calls -> Status], NEW lines \in Seq(Line)
  PROVE  /\ Promise!After(s, lines) \in [Calls -> Status]
         /\ Len(lines) = 0 => Promise!After(s, lines) = s
<1>1. PICK g : /\ Words(s, lines, Len(lines), g)
               /\ Promise!After(s, lines) = g[Len(lines)]
  BY WordsOfAfter
<1>2. Len(lines) \in 0..Len(lines)
  OBVIOUS
<1>3. QED
  BY <1>1, <1>2, WordsType

(* A stretch can be told in two parts.                                     *)
LEMMA AfterSplits ==
  ASSUME NEW s \in [Calls -> Status], NEW h \in Seq(Line),
         NEW f \in Nat, NEW m \in Nat, NEW n \in Nat, f <= m, m <= n, n <= Len(h)
  PROVE  Promise!After(s, SubSeq(h, f + 1, n))
           = Promise!After(Promise!After(s, SubSeq(h, f + 1, m)), SubSeq(h, m + 1, n))
<1> DEFINE all   == SubSeq(h, f + 1, n)
           begun == SubSeq(h, f + 1, m)
           rest  == SubSeq(h, m + 1, n)
           x     == Promise!After(s, begun)
<1>1. /\ all \in Seq(Line) /\ Len(all) = n - f
      /\ \A i \in 1..n - f : all[i] = h[f + i]
  BY Stretch
<1>2. /\ begun \in Seq(Line) /\ Len(begun) = m - f
      /\ \A i \in 1..m - f : begun[i] = h[f + i]
  <2>1. m <= Len(h)
    OBVIOUS
  <2>2. QED
    BY <2>1, Stretch
<1>3. /\ rest \in Seq(Line) /\ Len(rest) = n - m
      /\ \A i \in 1..n - m : rest[i] = h[m + i]
  BY Stretch
<1> HIDE DEF all, begun, rest
<1>4. x \in [Calls -> Status]
  BY <1>2, AfterType
<1>5. PICK g : Words(s, all, Len(all), g) /\ Promise!After(s, all) = g[Len(all)]
  BY <1>1, WordsOfAfter
<1>6. PICK a : Words(s, begun, Len(begun), a) /\ x = a[Len(begun)]
  BY <1>2, WordsOfAfter
<1> HIDE DEF x
<1>7. PICK b : Words(x, rest, Len(rest), b) /\ Promise!After(x, rest) = b[Len(rest)]
  BY <1>3, WordsOfAfter
<1>8. /\ g[0] = s
      /\ \A i \in 0..n - f - 1 : g[i + 1] = OneWord(g[i], all[i + 1])
  BY <1>1, <1>5, WordsType
<1>9. /\ a[0] = s
      /\ \A i \in 0..m - f - 1 : a[i + 1] = OneWord(a[i], begun[i + 1])
  BY <1>2, <1>6, WordsType
<1>10. /\ b[0] = x
       /\ \A i \in 0..n - m - 1 : b[i + 1] = OneWord(b[i], rest[i + 1])
  BY <1>3, <1>4, <1>7, WordsType
<1>11. \A i \in Nat : i <= m - f => g[i] = a[i]
  <2> DEFINE T == {i \in Nat : i <= m - f => g[i] = a[i]}
  <2>1. 0 \in T
    BY <1>8, <1>9
  <2>2. ASSUME NEW i \in T PROVE i + 1 \in T
    <3> SUFFICES ASSUME i + 1 <= m - f PROVE g[i + 1] = a[i + 1]
      OBVIOUS
    <3>1. /\ i \in 0..m - f - 1 /\ i \in 0..n - f - 1
          /\ i + 1 \in 1..m - f /\ i + 1 \in 1..n - f /\ i <= m - f
      OBVIOUS
    <3>2. all[i + 1] = begun[i + 1]
      BY <1>1, <1>2, <3>1
    <3>3. QED
      BY <1>8, <1>9, <3>1, <3>2
  <2> HIDE DEF T
  <2>3. T \in SUBSET Nat
    BY DEF T
  <2>4. T = Nat
    BY <2>1, <2>2, <2>3, Induction
  <2>5. QED
    BY <2>4 DEF T
<1>12. \A i \in Nat : i <= n - m => g[(m - f) + i] = b[i]
  <2> DEFINE T == {i \in Nat : i <= n - m => g[(m - f) + i] = b[i]}
  <2>1. 0 \in T
    <3>1. m - f \in Nat /\ (m - f) + 0 = m - f
      OBVIOUS
    <3>2. g[m - f] = x
      BY <1>2, <1>6, <1>11, <3>1
    <3>3. QED
      BY <1>10, <3>1, <3>2
  <2>2. ASSUME NEW i \in T PROVE i + 1 \in T
    <3> SUFFICES ASSUME i + 1 <= n - m PROVE g[(m - f) + (i + 1)] = b[i + 1]
      OBVIOUS
    <3>1. /\ (m - f) + i \in 0..n - f - 1 /\ i \in 0..n - m - 1
          /\ (m - f) + i + 1 \in 1..n - f /\ i + 1 \in 1..n - m /\ i <= n - m
          /\ (m - f) + (i + 1) = (m - f) + i + 1
          /\ f + ((m - f) + i + 1) = m + (i + 1)
      OBVIOUS
    <3>2. all[(m - f) + i + 1] = rest[i + 1]
      BY <1>1, <1>3, <3>1
    <3>3. QED
      BY <1>8, <1>10, <3>1, <3>2
  <2> HIDE DEF T
  <2>3. T \in SUBSET Nat
    BY DEF T
  <2>4. T = Nat
    BY <2>1, <2>2, <2>3, Induction
  <2>5. QED
    BY <2>4 DEF T
<1>13. n - m \in Nat /\ (m - f) + (n - m) = n - f
  OBVIOUS
<1>14. g[n - f] = b[n - m]
  BY <1>12, <1>13
<1>15. QED
  BY <1>1, <1>3, <1>5, <1>7, <1>14 DEF all, begun, rest, x

(* A call that is known stays known.                                       *)
LEMMA AfterKeeps ==
  ASSUME NEW s \in [Calls -> Status], NEW lines \in Seq(Line),
         NEW c \in Calls, s[c] # "none"
  PROVE  Promise!After(s, lines)[c] # "none"
<1> DEFINE n == Len(lines)
<1>1. PICK g : Words(s, lines, n, g) /\ Promise!After(s, lines) = g[n]
  BY WordsOfAfter
<1>2. /\ g[0] = s
      /\ \A i \in 0..n : g[i] \in [Calls -> Status]
      /\ \A i \in 0..n - 1 : g[i + 1] = OneWord(g[i], lines[i + 1])
  BY <1>1, WordsType
<1> DEFINE T == {i \in Nat : i <= n => g[i][c] # "none"}
<1>3. 0 \in T
  BY <1>2
<1>4. ASSUME NEW i \in T PROVE i + 1 \in T
  <2> SUFFICES ASSUME i + 1 <= n PROVE g[i + 1][c] # "none"
    OBVIOUS
  <2>1. i \in 0..n - 1 /\ i \in 0..n /\ i + 1 \in 1..n /\ i <= n
    OBVIOUS
  <2> DEFINE l == lines[i + 1]
  <2>2. l \in Line
    BY <2>1
  <2>3. g[i + 1] = OneWord(g[i], l) /\ g[i] \in [Calls -> Status]
    BY <1>2, <2>1
  <2>4. g[i][c] # "none"
    BY <2>1
  <2> HIDE DEF l
  <2>5. g[i + 1][c] = IF c = l.call THEN Promise!Says(l, g[i][c]) ELSE g[i][c]
    BY <2>2, <2>3, WordType
  <2>6. \A kind \in LogExits : ExitStatus(kind) # "none"
    BY DEF LogExits, ExitStatus
  <2>7. QED
    BY <2>4, <2>5, <2>6, SaysIs DEF LogLines
<1> HIDE DEF T
<1>5. T \in SUBSET Nat
  BY DEF T
<1>6. T = Nat
  BY <1>3, <1>4, <1>5, Induction
<1>7. QED
  BY <1>1, <1>6 DEF T

(* A stretch told twice says what it said.                                 *)
LEMMA AfterTwice ==
  ASSUME NEW s \in [Calls -> Status], NEW lines \in Seq(Line)
  PROVE  Promise!After(Promise!After(s, lines), lines) = Promise!After(s, lines)
<1> DEFINE n == Len(lines)
           x == Promise!After(s, lines)
<1>1. n \in Nat /\ x \in [Calls -> Status]
  BY AfterType
<1>2. PICK g : Words(s, lines, n, g) /\ x = g[n]
  BY WordsOfAfter
<1> HIDE DEF x
<1>3. PICK h : Words(x, lines, n, h) /\ Promise!After(x, lines) = h[n]
  BY WordsOfAfter
<1>4. /\ g[0] = s
      /\ \A i \in 0..n : g[i] \in [Calls -> Status]
      /\ \A i \in 0..n - 1 : g[i + 1] = OneWord(g[i], lines[i + 1])
  BY <1>2, WordsType
<1>5. /\ h[0] = x
      /\ \A i \in 0..n : h[i] \in [Calls -> Status]
      /\ \A i \in 0..n - 1 : h[i + 1] = OneWord(h[i], lines[i + 1])
  BY <1>1, <1>3, WordsType
<1>6. ASSUME NEW c \in Calls PROVE h[n][c] = g[n][c]
  <2> DEFINE Equal(i)  == h[i][c] = g[i][c]
             Behind(i) == \/ Equal(i)
                          \/ h[i][c] = x[c] /\ g[i][c] = s[c]
                          \/ g[i][c] = "none"
             T == {i \in Nat : i <= n => Behind(i) /\ (s[c] = x[c] => Equal(i))}
  <2>0. s[c] # "none" => x[c] # "none"
    BY AfterKeeps DEF x
  <2>1. 0 \in T
    BY <1>4, <1>5
  <2>2. ASSUME NEW i \in T PROVE i + 1 \in T
    <3> SUFFICES ASSUME i + 1 <= n
                 PROVE  Behind(i + 1) /\ (s[c] = x[c] => Equal(i + 1))
      OBVIOUS
    <3>1. i \in 0..n - 1 /\ i \in 0..n /\ i + 1 \in 1..n /\ i <= n
      BY <1>1
    <3> DEFINE l == lines[i + 1]
    <3>2. l \in Line
      BY <3>1
    <3>3. g[i] \in [Calls -> Status] /\ h[i] \in [Calls -> Status]
      BY <1>4, <1>5, <3>1
    <3>4. g[i + 1][c] = IF c = l.call THEN Promise!Says(l, g[i][c]) ELSE g[i][c]
      <4>1. g[i + 1] = OneWord(g[i], l)
        BY <1>4, <3>1
      <4>2. OneWord(g[i], l)[c] = IF c = l.call THEN Promise!Says(l, g[i][c]) ELSE g[i][c]
        BY <3>2, <3>3, WordType
      <4>3. QED
        BY <4>1, <4>2
    <3>5. h[i + 1][c] = IF c = l.call THEN Promise!Says(l, h[i][c]) ELSE h[i][c]
      <4>1. h[i + 1] = OneWord(h[i], l)
        BY <1>5, <3>1
      <4>2. OneWord(h[i], l)[c] = IF c = l.call THEN Promise!Says(l, h[i][c]) ELSE h[i][c]
        BY <3>2, <3>3, WordType
      <4>3. QED
        BY <4>1, <4>2
    <3>6. Behind(i) /\ (s[c] = x[c] => Equal(i))
      BY <3>1
    <3> HIDE DEF l
    <3>8. CASE Equal(i)
      BY <3>4, <3>5, <3>8
    <3>9. CASE ~Equal(i) /\ c # l.call
      BY <3>4, <3>5, <3>6, <3>9
    <3>10. CASE ~Equal(i) /\ c = l.call
      <4>1. s[c] # x[c]
        BY <3>6, <3>10
      <4>2. CASE l.kind = "ENTERQUEUE"
        BY <3>4, <3>5, <3>10, <4>2, SaysIs
      <4>3. CASE l.kind \notin LogLines
        BY <3>4, <3>5, <3>6, <3>10, <4>1, <4>3, SaysIs
      <4>4. CASE l.kind # "ENTERQUEUE" /\ l.kind \in LogLines
        <5>1. CASE g[i][c] = "none"
          BY <3>4, <3>10, <4>1, <4>4, <5>1, SaysIs
        <5>2. CASE g[i][c] # "none" /\ h[i][c] # "none"
          <6>1. Promise!Says(l, g[i][c]) = Promise!Says(l, h[i][c])
            BY <4>4, <5>2, SaysIs DEF LogLines
          <6>2. QED
            BY <3>4, <3>5, <3>10, <6>1
        <5>3. CASE g[i][c] # "none" /\ h[i][c] = "none"
          BY <2>0, <3>6, <3>10, <5>3
        <5>4. QED
          BY <5>1, <5>2, <5>3
      <4>5. QED
        BY <4>2, <4>3, <4>4 DEF LogLines
    <3>11. QED
      BY <3>8, <3>9, <3>10
  <2> HIDE DEF T
  <2>3. T \in SUBSET Nat
    BY DEF T
  <2>4. T = Nat
    BY <2>1, <2>2, <2>3, Induction
  <2>5. Behind(n) /\ (s[c] = x[c] => Equal(n))
    BY <1>1, <2>4 DEF T
  <2>6. QED
    BY <1>2, <2>0, <2>5
<1>7. QED
  <2>1. h[n] \in [Calls -> Status] /\ g[n] \in [Calls -> Status]
    BY <1>1, <1>4, <1>5
  <2>2. h[n] = g[n]
    BY <1>6, <2>1
  <2>3. QED
    BY <1>2, <1>3, <2>2 DEF x

-----------------------------------------------------------------------------
(* Every variable keeps its shape.                                         *)

Places == {"idle", "locked", "placed", "read", "committed", "saved"}
Heads  == Seq(Nat) \cup {<<"empty">>}

LEMMA HeadIs ==
  ASSUME LogSize \in Nat
  PROVE  /\ LogSize = 0 => LogHead = <<"empty">>
         /\ LogSize # 0 => \E k \in 1..LogSize : LogHead = <<base, k>>
<1> DEFINE k == IF LogSize < HeadLines THEN LogSize ELSE HeadLines
<1>1. LogSize # 0 => k \in 1..LogSize
  BY HeadAssumption
<1>2. LogSize # 0 => LogHead = <<base, k>>
  BY DEF LogHead
<1>3. QED
  BY <1>1, <1>2 DEF LogHead

LEMMA HeadType ==
  ASSUME TypeOK
  PROVE  /\ LogSize \in Nat /\ Written \in Nat
         /\ LogHead \in Heads
<1>1. Written \in Nat
  BY DEF TypeOK, Written
<1>2. LogSize \in Nat
  BY <1>1 DEF LogSize
<1>3. base \in Nat
  BY DEF TypeOK
<1>4. \A k \in 1..LogSize : <<base, k>> \in Heads
  <2>1. ASSUME NEW k \in Nat PROVE <<base, k>> \in Heads
    BY <1>3 DEF Heads
  <2>2. \A k \in 1..LogSize : k \in Nat
    BY <1>2
  <2>3. QED
    BY <2>1, <2>2
<1>5. <<"empty">> \in Heads
  BY DEF Heads
<1>6. LogHead \in Heads
  BY <1>2, <1>4, <1>5, HeadIs
<1>7. QED
  BY <1>1, <1>2, <1>6

LEMMA NoWorkType == NoWork \in Work
BY DEF NoWork, Work

LEMMA InitType == Init => TypeOK
<1> SUFFICES ASSUME Init PROVE TypeOK
  OBVIOUS
<1>1. PICK first \in Calls : history = <<[call |-> first, kind |-> "ENTERQUEUE"]>>
  BY DEF Init
<1>2. /\ history \in Seq(Line) /\ Len(history) = 1
      /\ base = 0 /\ front = "none" /\ offset = 1 /\ upto = 1
  <2>1. [call |-> first, kind |-> "ENTERQUEUE"] \in Line
    BY KindsAssumption DEF Line
  <2>2. history \in Seq(Line) /\ Len(history) = 1
    BY <1>1, <2>1
  <2>3. QED
    BY <2>2 DEF Init
<1>3. table \in [Calls -> Row]
  <2>1. NoRow \in Row
    BY DEF NoRow, Row
  <2>2. [c \in Calls |-> NoRow] \in [Calls -> Row]
    BY <2>1
  <2>3. table = LinesEffect([c \in Calls |-> NoRow], history)
    BY DEF Init
  <2>4. QED
    BY <1>2, <2>2, <2>3, EffectType
<1>4. head \in Heads
  <2>1. LogSize = 1
    BY <1>2 DEF LogSize, Written
  <2>2. \E k \in 1..1 : LogHead = <<base, k>>
    BY <2>1, HeadIs
  <2>3. head = <<0, 1>>
    BY <1>2, <2>2 DEF Init
  <2>4. QED
    BY <2>3 DEF Heads
<1>5. work \in [Importers -> Work]
  BY NoWorkType DEF Init
<1>6. QED
  BY <1>2, <1>3, <1>4, <1>5 DEF Init, TypeOK, Heads

LEMMA StopType ==
  ASSUME TypeOK, NEW p \in Importers, NEW from, Stop(p, from)
  PROVE  pc' \in [Importers -> Places] /\ work' \in [Importers -> Work]
BY NoWorkType DEF TypeOK, Stop, Goes, Places

LEMMA TakenType ==
  ASSUME TypeOK, NEW p \in Importers, ReadPlace(p)
  PROVE  work' \in [Importers -> Work] /\ offset' \in Nat
<1> DEFINE from == IF SourceChanged THEN 0 ELSE offset
<1>1. from \in Nat
  BY DEF TypeOK
<1>2. work' = [work EXCEPT ![p].from = from, ![p].head = LogHead] /\ offset' = from
  BY DEF ReadPlace
<1>3. work[p] \in Work /\ LogHead \in Heads
  BY HeadType DEF TypeOK
<1>4. [work[p] EXCEPT !.from = from, !.head = LogHead] \in Work
  BY <1>1, <1>3 DEF Work, Heads
<1>5. QED
  BY <1>1, <1>2, <1>4 DEF TypeOK

LEMMA ReadType ==
  ASSUME TypeOK, NEW p \in Importers, ReadLines(p)
  PROVE  /\ work' \in [Importers -> Work]
         /\ work'[p].from = work[p].from /\ work'[p].to = LogSize
         /\ work'[p].head = work[p].head /\ work'[p].start = base
         /\ work'[p].lines = SubSeq(history, base + work[p].from + 1, Len(history))
         /\ \A q \in Importers : q # p => work'[q] = work[q]
<1> DEFINE lines == SubSeq(history, base + work[p].from + 1, Len(history))
<1>1. work' = [work EXCEPT ![p].to = LogSize, ![p].start = base, ![p].lines = lines]
  BY DEF ReadLines
<1>2. /\ history \in Seq(Line) /\ base \in Nat /\ work \in [Importers -> Work]
      /\ work[p] \in Work /\ work[p].from \in Nat
  BY DEF TypeOK, Work
<1>3. lines \in Seq(Line)
  <2>1. base + work[p].from + 1 \in Nat \ {0} /\ Len(history) \in Nat
    BY <1>2
  <2>2. QED
    BY <1>2, <2>1
<1>4. LogSize \in Nat
  BY HeadType
<1> HIDE DEF lines
<1>5. [work[p] EXCEPT !.to = LogSize, !.start = base, !.lines = lines] \in Work
  BY <1>2, <1>3, <1>4 DEF Work
<1>6. work[p] = [from |-> work[p].from, to |-> work[p].to, head |-> work[p].head,
                 start |-> work[p].start, lines |-> work[p].lines]
  BY <1>2 DEF Work
<1>7. QED
  BY <1>1, <1>2, <1>5, <1>6 DEF lines

LEMMA StepType == TypeOK /\ [Next]_vars => TypeOK'
<1> SUFFICES ASSUME TypeOK, [Next]_vars PROVE TypeOK'
  OBVIOUS
<1>1. ASSUME NEW c \in Calls, NEW kind \in Kinds, Write(c, kind) PROVE TypeOK'
  <2>1. [call |-> c, kind |-> kind] \in Line
    BY DEF Line
  <2>2. history' \in Seq(Line) /\ Len(history') = Len(history) + 1
    BY <1>1, <2>1 DEF Write, TypeOK
  <2>3. QED
    BY <1>1, <2>2 DEF Write, TypeOK, fileVars
<1>2. CASE WriteFront
  BY <1>2, FrontsAssumption DEF WriteFront, TypeOK, fileVars
<1>3. CASE Rotate
  BY <1>3 DEF Rotate, TypeOK, fileVars
<1>4. ASSUME NEW p \in Importers, Lock(p) PROVE TypeOK'
  BY <1>4 DEF Lock, Goes, TypeOK, logVars, fileVars
<1>5. ASSUME NEW p \in Importers, ReadPlace(p) PROVE TypeOK'
  BY <1>5, TakenType DEF ReadPlace, Goes, TypeOK, logVars
<1>6. ASSUME NEW p \in Importers, ReadLines(p) PROVE TypeOK'
  BY <1>6, ReadType DEF ReadLines, Goes, TypeOK, logVars, fileVars
<1>7. ASSUME NEW p \in Importers, ReadNothing(p) PROVE TypeOK'
  BY <1>7, StopType DEF ReadNothing, TypeOK, logVars, fileVars, Places
<1>8. ASSUME NEW p \in Importers, Commit(p) PROVE TypeOK'
  <2>1. /\ work[p].lines \in Seq(Line) /\ work[p].start \in Nat /\ work[p].from \in Nat
    BY DEF TypeOK, Work
  <2>2. table' \in [Calls -> Row]
    <3>1. table' = LinesEffect(table, work[p].lines) /\ table \in [Calls -> Row]
      BY <1>8 DEF Commit, TypeOK
    <3>2. QED
      BY <2>1, <3>1, EffectType
  <2>3. upto' \in Nat
    <3>1. work[p].start + work[p].from + Len(work[p].lines) \in Nat
      BY <2>1
    <3>2. QED
      BY <1>8, <3>1 DEF Commit, TypeOK
  <2>4. QED
    BY <1>8, <2>2, <2>3 DEF Commit, Goes, TypeOK, logVars, fileVars
<1>9. ASSUME NEW p \in Importers, CommitFails(p) PROVE TypeOK'
  BY <1>9, StopType DEF CommitFails, TypeOK, logVars, fileVars, Places
<1>10. ASSUME NEW p \in Importers, SaveOffset(p) PROVE TypeOK'
  BY <1>10 DEF SaveOffset, Goes, TypeOK, Work, logVars
<1>11. ASSUME NEW p \in Importers, SaveState(p) PROVE TypeOK'
  <2>1. work[p].head \in Heads
    BY DEF TypeOK, Work, Heads
  <2>2. QED
    BY <1>11, <2>1, StopType DEF SaveState, TypeOK, logVars, Places, Heads
<1>12. ASSUME NEW p \in Importers, Crash(p) PROVE TypeOK'
  <2>1. offset' \in Nat /\ crashes' \in Nat
    BY <1>12 DEF Crash, TypeOK
  <2>2. head' \in Heads
    <3>1. <<>> \in Heads
      BY DEF Heads
    <3>2. head' = head \/ head' = <<>>
      BY <1>12 DEF Crash
    <3>3. head \in Heads
      BY DEF TypeOK, Heads
    <3>4. QED
      BY <3>1, <3>2, <3>3
  <2>3. QED
    BY <1>12, <2>1, <2>2, StopType DEF Crash, TypeOK, logVars, Places, Heads
<1>13. CASE UNCHANGED vars
  BY <1>13 DEF vars, logVars, fileVars, TypeOK
<1>14. QED
  BY <1>1, <1>2, <1>3, <1>4, <1>5, <1>6, <1>7, <1>8, <1>9, <1>10, <1>11, <1>12,
     <1>13 DEF Next, Carry

-----------------------------------------------------------------------------
(* The place that is kept, when every importer gets the lock, no file      *)
(* tears and no line is read before it is complete.                        *)

Orderly == LockOpens /\ ~FilesTear /\ "long" \notin Fronts

(* What a hash of the first bytes tells of the file they are from: how     *)
(* many lines were in files before it.                                     *)
OfNoFile(h)   == h = <<"empty">>
Shaped(h)     == OfNoFile(h) \/ (h # <<>> /\ h[1] \in Nat /\ h[1] <= base /\ h[1] < Len(history))
AtMost(h, b)  == OfNoFile(h) \/ h[1] <= b
Older(h, b)   == OfNoFile(h) \/ h[1] < b
HeadsOlder(p, b) == Older(head, b) /\ Older(work[p].head, b)

Mutex  == \A p, q \in Importers : ~Idle(p) /\ ~Idle(q) => p = q
Honest == ~OfNoFile(head) /\ head[1] = base => offset = 0 \/ base + offset <= upto

(* The place was taken from this file, or the file was rotated since.      *)
Placed(p) ==
  \/ work[p].from = 0
  \/ base + work[p].from <= upto
  \/ HeadsOlder(p, base) /\ upto <= base

(* What was read ends within the log, and before any later file.           *)
Read(p) ==
  LET w == work[p] IN
  /\ w.from < w.to
  /\ w.start + w.to <= Len(history)
  /\ base = w.start \/ base >= w.start + w.to
  /\ AtMost(head, w.start) /\ AtMost(w.head, w.start)

InHand(p) ==
  LET w == work[p] IN
  /\ w.lines = SubSeq(history, w.start + w.from + 1, w.start + w.to)
  /\ upto <= w.start + w.to
  /\ \/ w.from = 0
     \/ w.start + w.from <= upto
     \/ HeadsOlder(p, w.start) /\ upto <= w.start

Done(p) == work[p].start + work[p].to <= upto \/ HeadsOlder(p, work[p].start)

PlaceInv(p) ==
  /\ pc[p] \in {"placed", "read", "committed"} => offset = work[p].from
  /\ pc[p] \in {"placed", "read", "committed", "saved"} => Shaped(work[p].head)
  /\ pc[p] = "placed" => Placed(p)
  /\ pc[p] \in {"read", "committed", "saved"} => Read(p)
  /\ pc[p] = "read" => InHand(p)
  /\ pc[p] \in {"committed", "saved"} => Done(p)
  /\ pc[p] = "saved" => offset = work[p].to

OrderInv ==
  /\ TypeOK
  /\ front # "long" /\ upto <= Len(history)
  /\ Mutex /\ Shaped(head) /\ Honest
  /\ \A p \in Importers : PlaceInv(p)

(* The hash taken now is of this file, or there is nothing in it.          *)
LEMMA LogHeadIs ==
  ASSUME TypeOK, front # "long"
  PROVE  /\ LogSize = Len(history) - base
         /\ OfNoFile(LogHead) => LogSize = 0
         /\ ~OfNoFile(LogHead) => LogHead[1] = base /\ base < Len(history)
         /\ Shaped(LogHead) /\ AtMost(LogHead, base)
<1>1. base \in Nat /\ base <= Len(history) /\ Len(history) \in Nat
  BY DEF TypeOK
<1>2. LogSize = Len(history) - base /\ LogSize \in Nat
  BY <1>1 DEF LogSize, Written
<1>3. LogSize = 0 => OfNoFile(LogHead)
  BY <1>2, HeadIs DEF OfNoFile
<1>4. LogSize # 0 => LogHead # <<"empty">> /\ LogHead # <<>> /\ LogHead[1] = base
  <2>1. ASSUME NEW k \in 1..LogSize
        PROVE  <<base, k>> # <<"empty">> /\ <<base, k>> # <<>> /\ <<base, k>>[1] = base
    OBVIOUS
  <2>2. QED
    BY <1>2, <2>1, HeadIs
<1>5. QED
  BY <1>1, <1>2, <1>3, <1>4 DEF OfNoFile, Shaped, AtMost

LEMMA StretchKept ==
  ASSUME NEW h \in Seq(Line), NEW l \in Line, NEW f \in Nat, NEW n \in Nat,
         n <= Len(h)
  PROVE  SubSeq(Append(h, l), f + 1, n) = SubSeq(h, f + 1, n)
OBVIOUS

LEMMA OrderInit ==
  ASSUME Orderly, Init
  PROVE  OrderInv
<1>1. TypeOK
  BY InitType
<1>2. front = "none" /\ base = 0 /\ offset = 1 /\ upto = 1 /\ head = LogHead
  BY DEF Init
<1>3. Len(history) = 1
  BY DEF Init
<1>4. \A p \in Importers : pc[p] = "idle"
  BY DEF Init
<1>5. Shaped(head)
  BY <1>1, <1>2, LogHeadIs
<1>6. QED
  BY <1>1, <1>2, <1>3, <1>4, <1>5 DEF OrderInv, Mutex, Idle, Honest, PlaceInv

(* Steps of the exchange.                                                  *)
LEMMA OrderOutside ==
  ASSUME Orderly, OrderInv, TypeOK',
         \/ \E c \in Calls, kind \in Kinds : Write(c, kind)
         \/ WriteFront
         \/ Rotate
  PROVE  OrderInv'
<1> USE DEF OrderInv
<1>1. ASSUME NEW c \in Calls, NEW kind \in Kinds, Write(c, kind) PROVE OrderInv'
  <2> DEFINE l == [call |-> c, kind |-> kind]
  <2>1. l \in Line
    BY DEF Line
  <2>2. /\ history' = Append(history, l) /\ front' = "none"
        /\ UNCHANGED <<base, offset, head, pc, work, upto>>
    BY <1>1 DEF Write, fileVars
  <2>3. history \in Seq(Line) /\ base \in Nat /\ Len(history) \in Nat
    BY DEF TypeOK
  <2> HIDE DEF l
  <2>4. Len(history') = Len(history) + 1
    BY <2>1, <2>2, <2>3
  <2>5. \A h : Shaped(h) => Shaped(h)'
    BY <2>2, <2>3, <2>4 DEF Shaped, OfNoFile
  <2>6. ASSUME NEW p \in Importers PROVE PlaceInv(p)'
    <3>1. work[p].start \in Nat /\ work[p].from \in Nat /\ work[p].to \in Nat
      BY DEF TypeOK, Work
    <3>2. Placed(p) => Placed(p)'
      BY <2>2 DEF Placed, HeadsOlder, Older, OfNoFile
    <3>3. Read(p) => Read(p)'
      BY <2>2, <2>3, <2>4, <3>1 DEF Read, AtMost, OfNoFile
    <3>4. Read(p) /\ InHand(p) => InHand(p)'
      <4> SUFFICES ASSUME Read(p), InHand(p) PROVE InHand(p)'
        OBVIOUS
      <4>1. work[p].start + work[p].to <= Len(history)
        BY DEF Read
      <4>2. SubSeq(history', work[p].start + work[p].from + 1, work[p].start + work[p].to)
              = SubSeq(history, work[p].start + work[p].from + 1, work[p].start + work[p].to)
        <5>1. work[p].start + work[p].from \in Nat /\ work[p].start + work[p].to \in Nat
          BY <3>1
        <5>2. QED
          BY <2>1, <2>2, <2>3, <4>1, <5>1, StretchKept
      <4>3. QED
        BY <2>2, <4>2 DEF InHand, HeadsOlder, Older, OfNoFile
    <3>5. Done(p) => Done(p)'
      BY <2>2 DEF Done, HeadsOlder, Older, OfNoFile
    <3>6. Shaped(work[p].head) => Shaped(work[p].head)'
      BY <2>2, <2>5, <2>3, <2>4 DEF Shaped, OfNoFile
    <3>7. PlaceInv(p)
      OBVIOUS
    <3>8. QED
      BY <2>2, <3>2, <3>3, <3>4, <3>5, <3>6, <3>7 DEF PlaceInv
  <2>7. Mutex' /\ Honest'
    BY <2>2 DEF Mutex, Idle, Honest, OfNoFile
  <2>8. Shaped(head)'
    BY <2>2, <2>3, <2>4 DEF Shaped, OfNoFile
  <2>9. front' # "long" /\ upto' <= Len(history')
    BY <2>2, <2>3, <2>4 DEF TypeOK
  <2>10. QED
    BY <2>6, <2>7, <2>8, <2>9
<1>2. CASE WriteFront
  <2>1. UNCHANGED <<history, base, offset, head, pc, work, upto>>
    BY <1>2 DEF WriteFront, fileVars
  <2>2. front' # "long"
    BY <1>2 DEF WriteFront, Orderly
  <2>3. QED
    BY <2>1, <2>2 DEF Mutex, Idle, Honest, Shaped, OfNoFile, PlaceInv, Placed, Read, InHand,
        Done, HeadsOlder, Older, AtMost
<1>3. CASE Rotate
  <2>1. UNCHANGED <<history, front, offset, head, pc, work, upto>> /\ base' = Len(history)
    BY <1>3 DEF Rotate, fileVars
  <2>2. history \in Seq(Line) /\ base \in Nat /\ Len(history) \in Nat /\ base <= Len(history)
    BY DEF TypeOK
  <2>3. ASSUME NEW h, Shaped(h) PROVE Older(h, base')
    BY <2>1, <2>2, <2>3 DEF Shaped, Older
  <2>4. Shaped(head)' /\ Honest'
    BY <2>1, <2>2 DEF Shaped, OfNoFile, Honest
  <2>5. ASSUME NEW p \in Importers PROVE PlaceInv(p)'
    <3>1. work[p].start \in Nat /\ work[p].from \in Nat /\ work[p].to \in Nat
      BY DEF TypeOK, Work
    <3>2. Shaped(work[p].head) => Shaped(work[p].head)'
      BY <2>1, <2>2 DEF Shaped, OfNoFile
    <3>3. Shaped(work[p].head) => Placed(p)'
      <4>1. Shaped(work[p].head) => Older(head, base') /\ Older(work[p].head, base')
        BY <2>3
      <4>2. QED
        BY <2>1, <4>1 DEF Placed, HeadsOlder, Older, OfNoFile
    <3>4. Read(p) => Read(p)'
      BY <2>1, <2>2, <3>1 DEF Read, AtMost, OfNoFile
    <3>5. (InHand(p) => InHand(p)') /\ (Done(p) => Done(p)')
      BY <2>1 DEF InHand, Done, HeadsOlder, Older, OfNoFile
    <3>6. PlaceInv(p)
      OBVIOUS
    <3>7. QED
      BY <2>1, <3>2, <3>3, <3>4, <3>5, <3>6 DEF PlaceInv
  <2>6. Mutex'
    BY <2>1 DEF Mutex, Idle
  <2>7. QED
    BY <2>1, <2>4, <2>5, <2>6
<1>4. QED
  BY <1>1, <1>2, <1>3

(* An importer that has the lock is alone.                                 *)
LEMMA Alone ==
  ASSUME Mutex, TypeOK, NEW p \in Importers, pc[p] # "idle", NEW q \in Importers, q # p
  PROVE  pc[q] = "idle"
BY DEF Mutex, Idle

(* A step of the one that is at work, told by what it does to the place.   *)
LEMMA OrderCarries ==
  ASSUME OrderInv, TypeOK', NEW p \in Importers,
         \A q \in Importers : q # p => pc[q] = "idle",
         \A q \in Importers : q # p => pc'[q] = pc[q],
         UNCHANGED logVars, upto' <= Len(history),
         Shaped(head)', Honest', PlaceInv(p)'
  PROVE  OrderInv'
<1>1. front' # "long" /\ Len(history') = Len(history)
  BY DEF OrderInv, logVars
<1>2. \A q \in Importers : q # p => pc'[q] = "idle"
  OBVIOUS
<1>3. Mutex'
  BY <1>2 DEF Mutex, Idle
<1>4. \A q \in Importers : q # p => PlaceInv(q)'
  BY <1>2 DEF PlaceInv
<1>5. QED
  BY <1>1, <1>3, <1>4 DEF OrderInv

(* What was read ends where the size of the file said.                     *)
LEMMA LengthRead ==
  ASSUME TypeOK, NEW p \in Importers, Read(p), InHand(p)
  PROVE  /\ work[p].start + work[p].from + Len(work[p].lines) = work[p].start + work[p].to
         /\ work[p].lines \in Seq(Line)
<1> DEFINE f == work[p].start + work[p].from
           n == work[p].start + work[p].to
<1>1. /\ history \in Seq(Line) /\ work[p].start \in Nat
      /\ work[p].from \in Nat /\ work[p].to \in Nat /\ work[p].lines \in Seq(Line)
  BY DEF TypeOK, Work
<1>2. f \in Nat /\ n \in Nat /\ f <= n /\ n <= Len(history)
  BY <1>1 DEF Read
<1>3. work[p].lines = SubSeq(history, f + 1, n)
  BY DEF InHand
<1> HIDE DEF f, n
<1>4. Len(work[p].lines) = n - f
  BY <1>1, <1>2, <1>3, Stretch
<1>5. f + Len(work[p].lines) = n
  BY <1>2, <1>4
<1>6. QED
  BY <1>1, <1>5 DEF f, n

(* Steps of an importer.                                                   *)
LEMMA OrderCarry ==
  ASSUME Orderly, OrderInv, TypeOK', NEW p \in Importers, Lock(p) \/ Carry(p) \/ Crash(p)
  PROVE  OrderInv'
<1> USE DEF OrderInv
<1>0. /\ history \in Seq(Line) /\ base \in Nat /\ Len(history) \in Nat /\ base <= Len(history)
      /\ offset \in Nat /\ upto \in Nat
      /\ work[p].start \in Nat /\ work[p].from \in Nat /\ work[p].to \in Nat
      /\ work \in [Importers -> Work] /\ pc \in [Importers -> Places]
  <2>1. work \in [Importers -> Work] /\ pc \in [Importers -> Places]
    BY DEF TypeOK, Places
  <2>2. work[p].start \in Nat /\ work[p].from \in Nat /\ work[p].to \in Nat
    BY <2>1 DEF Work
  <2>3. /\ history \in Seq(Line) /\ base \in Nat /\ Len(history) \in Nat
        /\ base <= Len(history) /\ offset \in Nat /\ upto \in Nat
    BY DEF TypeOK
  <2>4. QED
    BY <2>1, <2>2, <2>3
<1>1. \A q \in Importers : q # p => pc[q] = "idle"
  <2>1. CASE Lock(p)
    BY <2>1 DEF Lock, Orderly, Idle
  <2>2. CASE Carry(p) \/ Crash(p)
    <3>1. pc[p] # "idle"
      BY <2>2 DEF Carry, Crash, Idle, ReadPlace, ReadLines, ReadNothing, Commit,
          CommitFails, SaveOffset, SaveState, Goes, Stop
    <3>2. QED
      BY <3>1, Alone
  <2>3. QED
    BY <2>1, <2>2
<1>2. \A q \in Importers : q # p => pc'[q] = pc[q]
  <2>1. ASSUME NEW from, NEW to, Goes(p, from, to) PROVE \A q \in Importers : q # p => pc'[q] = pc[q]
    BY <1>0, <2>1 DEF Goes
  <2>2. \E from, to : Goes(p, from, to)
    BY DEF Lock, Carry, Crash, ReadPlace, ReadLines, ReadNothing, Commit,
       CommitFails, SaveOffset, SaveState, Stop
  <2>3. QED
    BY <2>1, <2>2
<1>3. UNCHANGED logVars
  BY DEF Lock, Carry, Crash, ReadPlace, ReadLines, ReadNothing, Commit,
     CommitFails, SaveOffset, SaveState
<1>4. UNCHANGED <<history, base, front>>
  BY <1>3 DEF logVars
<1>5. PlaceInv(p)
  OBVIOUS
<1>6. CASE Lock(p)
  <2>1. pc'[p] = "locked" /\ UNCHANGED <<offset, head, work, upto>>
    BY <1>0, <1>6 DEF Lock, Goes, fileVars
  <2>2. PlaceInv(p)'
    BY <2>1 DEF PlaceInv
  <2>3. Shaped(head)' /\ Honest'
    BY <1>4, <2>1 DEF Shaped, OfNoFile, Honest
  <2>4. upto' <= Len(history)
    BY <2>1
  <2>5. QED
    BY <1>1, <1>2, <1>3, <2>2, <2>3, <2>4, OrderCarries
<1>7. CASE ReadPlace(p)
  <2> DEFINE from == IF SourceChanged THEN 0 ELSE offset
  <2>1. /\ pc'[p] = "placed" /\ offset' = from /\ UNCHANGED <<head, upto>>
        /\ work'[p].from = from /\ work'[p].head = LogHead
    BY <1>0, <1>7 DEF ReadPlace, Goes, Work
  <2>2. from = 0 \/ (from = offset /\ base + offset <= upto)
    <3>1. ASSUME ~SourceChanged, offset # 0 PROVE base + offset <= upto
      <4>1. offset <= LogSize
        BY <1>0, <3>1, HeadType DEF SourceChanged
      <4>2. head = LogHead
        BY <3>1 DEF SourceChanged, Shaped, OfNoFile
      <4>3. ~OfNoFile(LogHead)
        BY <1>0, <3>1, <4>1, LogHeadIs, HeadType
      <4>4. QED
        BY <3>1, <4>2, <4>3, LogHeadIs DEF Honest
    <3>2. SourceChanged => from = 0
      OBVIOUS
    <3>3. ~SourceChanged => from = offset
      OBVIOUS
    <3> HIDE DEF from
    <3>4. QED
      BY <3>1, <3>2, <3>3
  <2> HIDE DEF from
  <2>3. Shaped(LogHead)
    BY LogHeadIs
  <2>4. PlaceInv(p)'
    BY <1>0, <1>4, <2>1, <2>2, <2>3 DEF PlaceInv, Placed, Shaped, OfNoFile
  <2>5. Shaped(head)' /\ Honest'
    BY <1>0, <1>4, <2>1, <2>2 DEF Shaped, OfNoFile, Honest
  <2>6. upto' <= Len(history)
    BY <2>1
  <2>7. QED
    BY <1>1, <1>2, <1>3, <2>4, <2>5, <2>6, OrderCarries
<1>8. CASE ReadLines(p)
  <2>1. /\ pc[p] = "placed" /\ pc'[p] = "read" /\ UNCHANGED <<offset, head, upto>>
        /\ work[p].from < LogSize
    BY <1>0, <1>8 DEF ReadLines, Goes, fileVars
  <2>2. /\ work'[p].from = work[p].from /\ work'[p].to = LogSize
        /\ work'[p].head = work[p].head /\ work'[p].start = base
        /\ work'[p].lines = SubSeq(history, base + work[p].from + 1, Len(history))
    BY <1>8, ReadType
  <2>3. LogSize = Len(history) - base /\ base + LogSize = Len(history)
    BY <1>0, LogHeadIs
  <2>4. Shaped(work[p].head) /\ Placed(p) /\ offset = work[p].from
    BY <1>5, <2>1 DEF PlaceInv
  <2>5. Read(p)'
    BY <1>0, <1>4, <2>1, <2>2, <2>3, <2>4 DEF Read, AtMost, Shaped, OfNoFile
  <2>6. InHand(p)'
    <3>1. work'[p].lines = SubSeq(history', work'[p].start + work'[p].from + 1,
                                    work'[p].start + work'[p].to)
      BY <1>4, <2>2, <2>3
    <3>2. upto' <= work'[p].start + work'[p].to
      BY <2>1, <2>2, <2>3
    <3>3. \/ work'[p].from = 0
          \/ work'[p].start + work'[p].from <= upto'
          \/ HeadsOlder(p, work[p].start)' /\ upto' <= work'[p].start
      BY <2>1, <2>2, <2>4 DEF Placed, HeadsOlder, Older, OfNoFile
    <3>4. QED
      BY <3>1, <3>2, <3>3 DEF InHand
  <2>7. PlaceInv(p)'
    BY <1>4, <2>1, <2>2, <2>4, <2>5, <2>6 DEF PlaceInv, Shaped, OfNoFile
  <2>8. Shaped(head)' /\ Honest'
    BY <1>4, <2>1 DEF Shaped, OfNoFile, Honest
  <2>9. upto' <= Len(history)
    BY <2>1
  <2>10. QED
    BY <1>1, <1>2, <1>3, <2>7, <2>8, <2>9, OrderCarries
<1>9. CASE ReadNothing(p) \/ CommitFails(p) \/ Crash(p)
  <2>1. pc'[p] = "idle" /\ UNCHANGED <<offset, head, upto>>
    BY <1>0, <1>9 DEF ReadNothing, CommitFails, Crash, Stop, Goes, fileVars, Orderly
  <2>2. PlaceInv(p)'
    BY <2>1 DEF PlaceInv
  <2>3. Shaped(head)' /\ Honest'
    BY <1>4, <2>1 DEF Shaped, OfNoFile, Honest
  <2>4. upto' <= Len(history)
    BY <2>1
  <2>5. QED
    BY <1>1, <1>2, <1>3, <2>2, <2>3, <2>4, OrderCarries
<1>10. CASE Commit(p)
  <2> DEFINE w     == work[p]
             first == w.start + w.from
             last  == w.start + w.to
             passedOver == w.from > 0 /\ first > upto
  <2>0. Read(p) /\ InHand(p) /\ Shaped(work[p].head) /\ offset = work[p].from
    BY <1>0, <1>5, <1>10 DEF PlaceInv, Commit, Goes
  <2>1. first + Len(w.lines) = last
    BY <1>0, <2>0, LengthRead
  <2>2. /\ pc[p] = "read" /\ pc'[p] = "committed" /\ UNCHANGED <<offset, head, work>>
        /\ upto' = IF first + Len(w.lines) > upto /\ ~passedOver
                     THEN first + Len(w.lines) ELSE upto
    BY <1>0, <1>10 DEF Commit, Goes, fileVars
  <2>3. /\ first \in Nat /\ last \in Nat /\ last <= Len(history)
        /\ w.from = 0 \/ first <= upto \/ HeadsOlder(p, w.start)
    <3>1. first \in Nat /\ last \in Nat
      BY <1>0
    <3>2. last <= Len(history)
      BY <2>0 DEF Read
    <3>3. w.from = 0 \/ first <= upto \/ HeadsOlder(p, w.start)
      BY <2>0 DEF InHand
    <3>4. QED
      BY <3>1, <3>2, <3>3
  <2>4. upto <= upto' /\ upto' <= Len(history) /\ upto' \in Nat
    <3> HIDE DEF w, first, last, passedOver
    <3>1. QED
      BY <1>0, <2>1, <2>2, <2>3
  <2>5. last <= upto' \/ HeadsOlder(p, w.start)
    <3>1. passedOver => HeadsOlder(p, w.start)
      BY <1>0, <2>3
    <3> HIDE DEF w, first, last, passedOver
    <3>2. QED
      BY <1>0, <2>1, <2>2, <2>3, <3>1
  <2>6. Read(p)' /\ Done(p)'
    <3>1. Read(p)'
      BY <1>4, <2>0, <2>2 DEF Read, AtMost, OfNoFile
    <3>2. Done(p)'
      BY <2>2, <2>5 DEF Done, HeadsOlder, Older, OfNoFile
    <3>3. QED
      BY <3>1, <3>2
  <2>7. PlaceInv(p)'
    BY <1>4, <2>0, <2>2, <2>6 DEF PlaceInv, Shaped, OfNoFile
  <2>8. Shaped(head)' /\ Honest'
    <3>1. Shaped(head) /\ Honest
      OBVIOUS
    <3>2. Shaped(head)'
      BY <1>4, <2>2, <3>1 DEF Shaped, OfNoFile
    <3>3. base + offset <= upto => base' + offset' <= upto'
      BY <1>0, <1>4, <2>2, <2>4
    <3>4. QED
      BY <1>4, <2>2, <3>1, <3>2, <3>3 DEF OfNoFile, Honest
  <2>9. QED
    BY <1>1, <1>2, <1>3, <2>4, <2>7, <2>8, OrderCarries
<1>11. CASE SaveOffset(p)
  <2>1. /\ pc[p] = "committed" /\ pc'[p] = "saved" /\ offset' = work[p].to
        /\ UNCHANGED <<head, work, upto>>
    BY <1>0, <1>11 DEF SaveOffset, Goes
  <2>2. Read(p) /\ Done(p) /\ Shaped(work[p].head)
    BY <1>5, <2>1 DEF PlaceInv
  <2>3. PlaceInv(p)'
    BY <1>4, <2>1, <2>2 DEF PlaceInv, Read, Done, HeadsOlder, AtMost, Older, Shaped, OfNoFile
  <2>4. Honest'
    BY <1>0, <1>4, <2>1, <2>2 DEF Read, Done, HeadsOlder, AtMost, Older, OfNoFile, Honest, Shaped
  <2>5. Shaped(head)'
    BY <1>4, <2>1 DEF Shaped, OfNoFile
  <2>6. upto' <= Len(history)
    BY <2>1
  <2>7. QED
    BY <1>1, <1>2, <1>3, <2>3, <2>4, <2>5, <2>6, OrderCarries
<1>12. CASE SaveState(p)
  <2>1. /\ pc[p] = "saved" /\ pc'[p] = "idle" /\ head' = work[p].head
        /\ UNCHANGED <<offset, upto>>
    BY <1>0, <1>12 DEF SaveState, Stop, Goes
  <2>2. Read(p) /\ Done(p) /\ Shaped(work[p].head) /\ offset = work[p].to
    BY <1>5, <2>1 DEF PlaceInv
  <2>3. PlaceInv(p)'
    BY <2>1 DEF PlaceInv
  <2>4. Honest'
    BY <1>0, <1>4, <2>1, <2>2 DEF Read, Done, HeadsOlder, AtMost, Older, OfNoFile, Honest, Shaped
  <2>5. Shaped(head)'
    BY <1>4, <2>1, <2>2 DEF Shaped, OfNoFile
  <2>6. upto' <= Len(history)
    BY <2>1
  <2>7. QED
    BY <1>1, <1>2, <1>3, <2>3, <2>4, <2>5, <2>6, OrderCarries
<1>13. QED
  BY <1>6, <1>7, <1>8, <1>9, <1>10, <1>11, <1>12 DEF Carry

LEMMA OrderStep ==
  ASSUME Orderly, OrderInv, [Next]_vars
  PROVE  OrderInv'
<1>1. TypeOK'
  BY StepType DEF OrderInv
<1>2. CASE (\E c \in Calls, kind \in Kinds : Write(c, kind)) \/ WriteFront \/ Rotate
  BY <1>1, <1>2, OrderOutside
<1>3. CASE \E p \in Importers : Lock(p) \/ Carry(p) \/ Crash(p)
  BY <1>1, <1>3, OrderCarry
<1>4. CASE UNCHANGED vars
  BY <1>1, <1>4 DEF vars, logVars, fileVars, OrderInv, Mutex, Idle, Honest, Shaped,
     OfNoFile, PlaceInv, Placed, Read, InHand, Done, HeadsOlder, Older, AtMost
<1>5. QED
  BY <1>2, <1>3, <1>4 DEF Next

(* The offset is used only with the hash of this very file.                *)
LEMMA HonestPlace ==
  ASSUME OrderInv
  PROVE  PlaceIsHonest
<1> SUFFICES ASSUME ~SourceChanged, offset # 0 PROVE base + offset <= upto
  BY DEF PlaceIsHonest
<1>1. offset \in Nat /\ LogSize \in Nat
  BY HeadType DEF OrderInv, TypeOK
<1>2. offset <= LogSize
  BY <1>1 DEF SourceChanged
<1>3. head = LogHead
  BY DEF SourceChanged, OrderInv, Shaped, OfNoFile
<1>4. ~OfNoFile(LogHead)
  BY <1>1, <1>2, LogHeadIs DEF OrderInv
<1>5. QED
  BY <1>3, <1>4, LogHeadIs DEF OrderInv, Honest

-----------------------------------------------------------------------------
(* Every variable keeps its shape, for any calls, importers and bounds.    *)
THEOREM TypeCorrect == Spec => []TypeOK
BY InitType, StepType, PTL DEF Spec

(* The place kept in the offset and state files never runs ahead of the    *)
(* committed lines (sync_queue_log_to_db), whatever crashes and however    *)
(* the log is rotated.                                                     *)
THEOREM PlaceStaysHonest ==
  ASSUME Orderly
  PROVE  Spec => []PlaceIsHonest
<1>1. Init => OrderInv
  BY OrderInit
<1>2. OrderInv /\ [Next]_vars => OrderInv'
  BY OrderStep
<1>3. OrderInv => PlaceIsHonest
  BY HonestPlace
<1>4. QED
  BY <1>1, <1>2, <1>3, PTL DEF Spec

-----------------------------------------------------------------------------
(* The contract.  Reading lines again does no harm: the statuses are       *)
(* already what the lines from any place of the file on say.               *)

Known == StatusIn(table)

Stable(b) == \A f \in Nat :
  b <= f /\ f <= upto => Promise!After(Known, SubSeq(history, f + 1, upto)) = Known

StableInv == Stable(base) /\ \A p \in Importers : pc[p] = "read" => Stable(work[p].start)

LEMMA KnownType ==
  ASSUME TypeOK
  PROVE  Known \in [Calls -> Status]
BY DEF TypeOK, Known, StatusIn, Row, Status

LEMMA NothingTold ==
  ASSUME NEW s \in [Calls -> Status], NEW h \in Seq(Line), NEW n \in Nat, n <= Len(h)
  PROVE  Promise!After(s, SubSeq(h, n + 1, n)) = s
<1> DEFINE nothing == SubSeq(h, n + 1, n)
<1>1. nothing \in Seq(Line) /\ Len(nothing) = n - n
  BY Stretch
<1>2. Len(nothing) = 0
  BY <1>1
<1> HIDE DEF nothing
<1>3. Promise!After(s, nothing) = s
  BY <1>1, <1>2, AfterType
<1>4. QED
  BY <1>3 DEF nothing

LEMMA Retold ==
  ASSUME NEW s \in [Calls -> Status], NEW h \in Seq(Line),
         NEW f \in Nat, NEW n \in Nat, f <= n, n <= Len(h)
  PROVE  LET told == Promise!After(s, SubSeq(h, f + 1, n))
         IN  Promise!After(told, SubSeq(h, f + 1, n)) = told
<1>1. SubSeq(h, f + 1, n) \in Seq(Line)
  BY Stretch
<1>2. QED
  BY <1>1, AfterTwice

LEMMA StableInit ==
  ASSUME Orderly, Init
  PROVE  StableInv /\ Promise!ContractInit
<1> DEFINE nobody == [c \in Calls |-> "none"]
<1>1. TypeOK
  BY InitType
<1>2. base = 0 /\ upto = 1 /\ history \in Seq(Line) /\ Len(history) = 1
  BY <1>1 DEF Init, TypeOK
<1>3. nobody \in [Calls -> Status]
  BY DEF Status
<1>4. SubSeq(history, 1, 1) = history
  BY <1>2
<1>5. Known = Promise!After(nobody, history)
  <2>1. NoRow \in Row
    BY DEF NoRow, Row
  <2>2. [c \in Calls |-> NoRow] \in [Calls -> Row]
    BY <2>1
  <2>3. StatusIn([c \in Calls |-> NoRow]) = nobody
    BY DEF StatusIn, NoRow
  <2>4. table = LinesEffect([c \in Calls |-> NoRow], history)
    BY DEF Init
  <2>5. QED
    BY <1>2, <2>2, <2>3, <2>4, EffectType DEF Known
<1> HIDE DEF nobody
<1>6. Known \in [Calls -> Status]
  BY <1>1, KnownType
<1>7. ASSUME NEW f \in Nat, f <= 1
      PROVE  Promise!After(Known, SubSeq(history, f + 1, 1)) = Known
  <2>1. CASE f = 0
    <3>1. Promise!After(Known, history) = Known
      BY <1>2, <1>3, <1>5, AfterTwice
    <3>2. SubSeq(history, f + 1, 1) = history
      BY <1>4, <2>1
    <3>3. QED
      BY <3>1, <3>2
  <2>2. CASE f = 1
    BY <1>2, <1>6, <2>2, NothingTold
  <2>3. QED
    BY <1>7, <2>1, <2>2
<1>8. \A p \in Importers : pc[p] = "idle"
  BY DEF Init
<1>9. StableInv
  BY <1>2, <1>7, <1>8 DEF StableInv, Stable
<1>10. Promise!ContractInit
  <2>1. history \in Seq(Promise!Line) /\ base = 0 /\ upto \in 0..Len(history)
    BY <1>2 DEF Promise!Line, Line
  <2>2. [c \in Calls |-> table[c].status] = Known
    BY DEF Known, StatusIn
  <2>3. Known = Promise!After([c \in Calls |-> "none"], SubSeq(history, 1, upto))
    BY <1>2, <1>4, <1>5 DEF nobody
  <2>4. QED
    BY <2>1, <2>2, <2>3 DEF Promise!ContractInit
<1>11. QED
  BY <1>9, <1>10

(* A step that leaves the table and what has been dealt with alone.        *)
LEMMA StableKept ==
  ASSUME OrderInv, StableInv, UNCHANGED <<table, upto>>,
         \/ UNCHANGED history
         \/ \E l \in Line : history' = Append(history, l),
         base' = base \/ base' = Len(history),
         \A p \in Importers : pc'[p] = "read" =>
           \/ pc[p] = "read" /\ work'[p].start = work[p].start
           \/ work'[p].start = base
  PROVE  StableInv'
<1>1. /\ history \in Seq(Line) /\ base \in Nat /\ Len(history) \in Nat
      /\ upto \in Nat /\ upto <= Len(history)
  BY DEF OrderInv, TypeOK
<1>2. Known' = Known /\ Known \in [Calls -> Status]
  BY KnownType DEF Known, StatusIn, OrderInv
<1>3. ASSUME NEW f \in Nat PROVE SubSeq(history', f + 1, upto) = SubSeq(history, f + 1, upto)
  <2>1. CASE UNCHANGED history
    BY <2>1
  <2>2. ASSUME NEW l \in Line, history' = Append(history, l)
        PROVE  SubSeq(history', f + 1, upto) = SubSeq(history, f + 1, upto)
    BY <1>1, <2>2, StretchKept
  <2>3. QED
    BY <2>1, <2>2
<1>4. ASSUME NEW b, Stable(b) PROVE Stable(b)'
  BY <1>2, <1>3, <1>4 DEF Stable
<1>5. ASSUME base' = Len(history) PROVE Stable(base)'
  <2> SUFFICES ASSUME NEW f \in Nat, base' <= f, f <= upto'
               PROVE  Promise!After(Known', SubSeq(history', f + 1, upto')) = Known'
    BY DEF Stable
  <2>1. f = upto
    BY <1>1, <1>5
  <2>2. Promise!After(Known, SubSeq(history, upto + 1, upto)) = Known
    BY <1>1, <1>2, NothingTold
  <2>3. QED
    BY <1>2, <1>3, <2>1, <2>2
<1>6. Stable(base)'
  <2>1. base' = base => Stable(base)'
    BY <1>2, <1>3 DEF Stable, StableInv
  <2>2. QED
    BY <1>5, <2>1
<1>7. ASSUME NEW p \in Importers, pc'[p] = "read" PROVE Stable(work[p].start)'
  <2>1. \E b : Stable(b) /\ work'[p].start = b
    BY <1>7 DEF StableInv
  <2>2. QED
    BY <1>2, <1>3, <2>1 DEF Stable
<1>8. QED
  BY <1>6, <1>7 DEF StableInv

(* What an import that reaches its commit has in hand.                     *)
LEMMA CommitFacts ==
  ASSUME OrderInv, NEW p \in Importers, Commit(p)
  PROVE  LET w     == work[p]
             first == w.start + w.from
             last  == w.start + w.to
             ahead == w.from > 0 /\ first > upto
         IN  /\ w.start \in Nat /\ w.from \in Nat /\ first \in Nat /\ last \in Nat
             /\ base \in Nat /\ upto \in Nat /\ history \in Seq(Line)
             /\ first <= last /\ last <= Len(history) /\ upto <= last
             /\ w.start <= first
             /\ base = w.start \/ base >= last
             /\ w.start <= base
             /\ ahead => upto <= w.start
             /\ upto' = IF ahead THEN upto ELSE last
             /\ Known \in [Calls -> Status]
             /\ Known' = Promise!After(Known, SubSeq(history, first + 1, last))
             /\ UNCHANGED <<history, base>>
             /\ \A q \in Importers : pc'[q] # "read"
<1> DEFINE w     == work[p]
           first == w.start + w.from
           last  == w.start + w.to
           ahead == w.from > 0 /\ first > upto
<1>1. /\ history \in Seq(Line) /\ base \in Nat /\ upto \in Nat
      /\ work \in [Importers -> Work] /\ table \in [Calls -> Row]
      /\ pc \in [Importers -> Places]
  BY DEF OrderInv, TypeOK, Places
<1>2. w.start \in Nat /\ w.from \in Nat /\ w.to \in Nat /\ w.lines \in Seq(Line)
  BY <1>1 DEF Work
<1>3. pc[p] = "read" /\ pc' = [pc EXCEPT ![p] = "committed"]
  BY DEF Commit, Goes
<1>4. Read(p) /\ InHand(p) /\ Mutex
  BY <1>3 DEF OrderInv, PlaceInv
<1>5. first + Len(w.lines) = last
  BY <1>4, LengthRead DEF OrderInv
<1>6. first <= last /\ last <= Len(history) /\ (base = w.start \/ base >= last)
  BY <1>2, <1>4 DEF Read
<1>7. upto <= last /\ (ahead => upto <= w.start)
  BY <1>1, <1>2, <1>4 DEF InHand
<1>8. w.lines = SubSeq(history, first + 1, last)
  BY <1>4 DEF InHand
<1>9. upto' = IF first + Len(w.lines) > upto /\ ~ahead THEN first + Len(w.lines) ELSE upto
  BY DEF Commit
<1>10. table' = LinesEffect(table, w.lines) /\ UNCHANGED <<history, base>>
  BY DEF Commit, logVars
<1>11. Known' = Promise!After(Known, w.lines)
  <2>1. StatusIn(LinesEffect(table, w.lines)) = Promise!After(StatusIn(table), w.lines)
    BY <1>1, <1>2, EffectType
  <2>2. Known' = StatusIn(table')
    BY DEF Known, StatusIn
  <2>3. QED
    BY <1>10, <2>1, <2>2 DEF Known
<1>12. \A q \in Importers : pc'[q] # "read"
  BY <1>1, <1>3, <1>4 DEF Mutex, Idle
<1>13. Known \in [Calls -> Status]
  BY KnownType DEF OrderInv
<1>14. w.start <= first /\ w.start <= base /\ first \in Nat /\ last \in Nat
  BY <1>1, <1>2, <1>6
<1>15. upto' = IF ahead THEN upto ELSE last
  <2> HIDE DEF first, last, w, ahead
  <2>1. QED
    BY <1>1, <1>5, <1>7, <1>9, <1>14
<1>16. QED
  BY <1>1, <1>2, <1>6, <1>7, <1>8, <1>10, <1>11, <1>12, <1>13, <1>14, <1>15

(* A commit keeps the statuses stable and keeps the contract.              *)
LEMMA CommitKeeps ==
  ASSUME OrderInv, StableInv, NEW p \in Importers, Commit(p)
  PROVE  StableInv' /\ (Promise!Import \/ Promise!ImportAhead)
<1> DEFINE w     == work[p]
           start == w.start
           first == w.start + w.from
           last  == w.start + w.to
           ahead == w.from > 0 /\ first > upto
           told(s, f, n) == Promise!After(s, SubSeq(history, f + 1, n))
<1>1. /\ start \in Nat /\ first \in Nat /\ last \in Nat
      /\ base \in Nat /\ upto \in Nat /\ history \in Seq(Line)
      /\ first <= last /\ last <= Len(history) /\ upto <= last
      /\ start <= first /\ start <= base
      /\ base = start \/ base >= last
      /\ ahead => upto <= start
      /\ upto' = IF ahead THEN upto ELSE last
      /\ Known \in [Calls -> Status]
      /\ Known' = told(Known, first, last)
      /\ UNCHANGED <<history, base>>
      /\ \A q \in Importers : pc'[q] # "read"
      /\ w.from \in Nat /\ (w.from = 0 => first = start)
  BY CommitFacts
<1>2. Stable(start)
  BY DEF StableInv, Commit, Goes
<1>3. Promise!After(Known', SubSeq(history, upto' + 1, upto')) = Known'
  <2>1. Known' \in [Calls -> Status]
    <3>1. SubSeq(history, first + 1, last) \in Seq(Line)
      BY <1>1, Stretch
    <3>2. QED
      BY <1>1, <3>1, AfterType
  <2>2. upto' \in Nat /\ upto' <= Len(history)
    BY <1>1
  <2>3. QED
    BY <1>1, <2>1, <2>2, NothingTold
<1>4. SUFFICES Stable(base)' /\ (Promise!Import \/ Promise!ImportAhead)
  BY <1>1 DEF StableInv
<1>5. /\ Known = [c \in Calls |-> table[c].status]
      /\ Known' = [c \in Calls |-> table'[c].status]
  BY DEF Known, StatusIn
<1> HIDE DEF w, start, first, last, ahead
<1>6. CASE ahead
  <2>1. Stable(base)'
    <3> SUFFICES ASSUME NEW f \in Nat, base' <= f, f <= upto'
                 PROVE  Promise!After(Known', SubSeq(history', f + 1, upto')) = Known'
      BY DEF Stable
    <3>1. f = upto'
      BY <1>1, <1>6
    <3>2. QED
      BY <1>1, <1>3, <3>1
  <2>2. Promise!ImportAhead
    <3>1. first \in upto + 1..Len(history) /\ last \in first..Len(history)
      BY <1>1, <1>6 DEF ahead
    <3>2. upto <= base /\ upto' = upto
      BY <1>1, <1>6
    <3>3. QED
      BY <1>1, <1>5, <3>1, <3>2 DEF Promise!ImportAhead
  <2>3. QED
    BY <2>1, <2>2
<1>7. CASE ~ahead
  <2> DEFINE g == IF first <= upto THEN upto ELSE start
  <2>1. /\ g \in Nat /\ upto <= g /\ g <= last /\ upto' = last
        /\ g = upto \/ (g = start /\ first = start /\ g <= base)
    BY <1>1, <1>7 DEF ahead
  <2>2. Known' = told(Known, g, last)
    <3>1. CASE first <= upto
      <4>1. told(Known, first, last) = told(told(Known, first, upto), upto, last)
        BY <1>1, <3>1, AfterSplits
      <4>2. told(Known, first, upto) = Known
        BY <1>1, <1>2, <3>1 DEF Stable
      <4>3. g = upto
        BY <3>1
      <4>4. QED
        BY <1>1, <4>1, <4>2, <4>3
    <3>2. CASE ~(first <= upto)
      <4>1. first = start
        BY <1>1, <1>7, <3>2 DEF ahead
      <4>2. g = start
        BY <3>2
      <4>3. QED
        BY <1>1, <4>1, <4>2
    <3>3. QED
      BY <3>1, <3>2
  <2> HIDE DEF g
  <2>3. Promise!Import
    <3>1. g \in {upto} \cup upto..base /\ last \in g..Len(history)
      BY <1>1, <2>1
    <3>2. QED
      BY <1>1, <1>5, <2>1, <2>2, <3>1 DEF Promise!Import
  <2>4. Stable(base)'
    <3> SUFFICES ASSUME NEW f \in Nat, base <= f, f <= last
                 PROVE  told(Known', f, last) = Known'
      BY <1>1, <2>1 DEF Stable
    <3>1. CASE f = last
      BY <1>1, <1>3, <2>1, <3>1
    <3>2. CASE f # last /\ g <= f
      <4>1. told(Known, g, last) = told(told(Known, g, f), f, last)
        BY <1>1, <2>1, <3>2, AfterSplits
      <4>2. told(Known, g, f) \in [Calls -> Status]
        <5>1. f <= Len(history)
          BY <1>1
        <5>2. SubSeq(history, g + 1, f) \in Seq(Line)
          BY <1>1, <2>1, <3>2, <5>1, Stretch
        <5>3. QED
          BY <1>1, <5>2, AfterType
      <4>3. told(told(told(Known, g, f), f, last), f, last) = told(told(Known, g, f), f, last)
        BY <1>1, <4>2, Retold
      <4>4. QED
        BY <2>2, <4>1, <4>3
    <3>3. CASE f # last /\ f < g
      <4>1. base = start /\ g = upto
        BY <1>1, <2>1, <3>3
      <4>2. told(Known, f, last) = told(told(Known, f, upto), upto, last)
        BY <1>1, <2>1, <3>3, <4>1, AfterSplits
      <4>3. told(Known, f, upto) = Known
        BY <1>1, <1>2, <3>3, <4>1 DEF Stable
      <4>4. told(Known, f, last) = Known'
        BY <2>2, <4>1, <4>2, <4>3
      <4>5. told(told(Known, f, last), f, last) = told(Known, f, last)
        BY <1>1, Retold
      <4>6. QED
        BY <4>4, <4>5
    <3>4. QED
      BY <2>1, <3>1, <3>2, <3>3
  <2>5. QED
    BY <2>3, <2>4
<1>8. QED
  BY <1>6, <1>7

(* Every step is one of the contract's or leaves its variables alone.      *)
LEMMA ContractStep ==
  ASSUME OrderInv, StableInv, [Next]_vars
  PROVE  StableInv' /\ [Promise!ContractNext]_Promise!contractVars
<1>1. ASSUME UNCHANGED table
      PROVE  UNCHANGED [c \in Calls |-> table[c].status]
  BY <1>1
<1>2. ASSUME NEW c \in Calls, NEW kind \in Kinds, Write(c, kind)
      PROVE  StableInv' /\ Promise!ContractNext
  <2> DEFINE l == [call |-> c, kind |-> kind]
  <2>1. l \in Line
    BY DEF Line
  <2>2. history' = Append(history, l) /\ UNCHANGED <<base, upto, table, pc, work>>
    BY <1>2 DEF Write
  <2> HIDE DEF l
  <2>3. StableInv'
    BY <2>1, <2>2, StableKept
  <2>4. Promise!Write(l)
    BY <1>1, <2>2 DEF Promise!Write
  <2>5. l \in Promise!Line
    BY <2>1 DEF Promise!Line, Line
  <2>6. QED
    BY <2>3, <2>4, <2>5 DEF Promise!ContractNext
<1>3. CASE Rotate
  <2>1. base' = Len(history) /\ UNCHANGED <<history, upto, table, pc, work>>
    BY <1>3 DEF Rotate
  <2>2. StableInv'
    BY <2>1, StableKept
  <2>3. Promise!Rotate
    BY <1>1, <2>1 DEF Promise!Rotate
  <2>4. QED
    BY <2>2, <2>3 DEF Promise!ContractNext
<1>4. ASSUME NEW p \in Importers, Commit(p)
      PROVE  StableInv' /\ Promise!ContractNext
  BY <1>4, CommitKeeps DEF Promise!ContractNext
<1>5. ASSUME UNCHANGED <<history, base, upto, table>>,
             \A p \in Importers : pc'[p] = "read" =>
               \/ pc[p] = "read" /\ work'[p].start = work[p].start
               \/ work'[p].start = base
      PROVE  StableInv' /\ UNCHANGED Promise!contractVars
  BY <1>1, <1>5, StableKept DEF Promise!contractVars
<1>6. ASSUME WriteFront \/ UNCHANGED vars
      PROVE  StableInv' /\ UNCHANGED Promise!contractVars
  <2>1. UNCHANGED <<history, base, upto, table, pc, work>>
    BY <1>6 DEF WriteFront, vars, logVars
  <2>2. QED
    BY <1>5, <2>1
<1>7. ASSUME NEW p \in Importers,
             \/ Lock(p) \/ ReadPlace(p) \/ ReadLines(p) \/ ReadNothing(p)
             \/ CommitFails(p) \/ SaveOffset(p) \/ SaveState(p) \/ Crash(p)
      PROVE  StableInv' /\ UNCHANGED Promise!contractVars
  <2>1. UNCHANGED <<history, base, upto, table>>
    BY <1>7 DEF Lock, ReadPlace, ReadLines, ReadNothing, CommitFails, SaveOffset,
        SaveState, Crash, logVars
  <2>2. pc \in [Importers -> Places] /\ work \in [Importers -> Work] /\ TypeOK
    BY DEF OrderInv, TypeOK, Places
  <2>3. ASSUME NEW q \in Importers, pc'[q] = "read"
        PROVE  \/ pc[q] = "read" /\ work'[q].start = work[q].start
               \/ work'[q].start = base
    <3>1. CASE ReadLines(p)
      <4>1. work'[p].start = base
        BY <2>2, <3>1, ReadType
      <4>2. q # p => pc[q] = "read" /\ work'[q].start = work[q].start
        BY <2>2, <2>3, <3>1 DEF ReadLines, Goes
      <4>3. QED
        BY <4>1, <4>2
    <3>2. CASE \/ Lock(p) \/ ReadPlace(p) \/ ReadNothing(p) \/ CommitFails(p)
               \/ SaveOffset(p) \/ SaveState(p) \/ Crash(p)
      <4>1. pc'[p] # "read"
        BY <2>2, <3>2 DEF Lock, ReadPlace, ReadNothing, CommitFails, SaveOffset,
           SaveState, Crash, Goes, Stop
      <4>2. q # p => pc'[q] = pc[q] /\ work'[q] = work[q]
        BY <2>2, <3>2 DEF Lock, ReadPlace, ReadNothing, CommitFails, SaveOffset,
           SaveState, Crash, Goes, Stop
      <4>3. QED
        BY <2>3, <4>1, <4>2
    <3>3. QED
      BY <1>7, <3>1, <3>2
  <2>4. QED
    BY <1>5, <2>1, <2>3
<1>8. QED
  BY <1>2, <1>3, <1>4, <1>6, <1>7 DEF Next, Carry

-----------------------------------------------------------------------------
(* The import keeps its contract: every line takes effect once and in      *)
(* order, but for those a rotation takes away (sync_queue_log_to_db over   *)
(* the whole of its crashes, rotations and repeated readings).             *)
THEOREM ImportKeepsContract ==
  ASSUME Orderly
  PROVE  Spec => KeepsContract
<1>1. Init => OrderInv /\ StableInv /\ Promise!ContractInit
  BY OrderInit, StableInit
<1>2. OrderInv /\ [Next]_vars => OrderInv'
  BY OrderStep
<1>3. OrderInv /\ StableInv /\ [Next]_vars => StableInv' /\ [Promise!ContractNext]_Promise!contractVars
  BY ContractStep
<1>4. QED
  BY <1>1, <1>2, <1>3, PTL DEF Spec, KeepsContract, Promise!Contract
==========================================================================
