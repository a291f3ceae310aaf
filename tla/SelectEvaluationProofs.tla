------------------------- MODULE SelectEvaluationProofs -------------------------
(***************************************************************************)
(* Theorems about SelectEvaluation, whatever expressions and the visitor   *)
(* compute, for every LIMIT and OFFSET, entries of any rows and counts,    *)
(* and any number of them: its types; the answers are the slice of what    *)
(* the operators yield that LIMIT and OFFSET say, whatever entries are     *)
(* cut; the operators yield all that is due; and ORDER BY projects entries *)
(* and groups in the order of a stable sort.                               *)
(***************************************************************************)
EXTENDS SelectEvaluation, SequenceTheorems, FiniteSetTheorems, WellFoundedInduction, TLAPS

(* Induction over numbers comes as least elements of sets of them.         *)
LEMMA LeastElement ==
    ASSUME NEW T \in SUBSET Nat, T # {}
    PROVE  \E n \in T : \A m \in T : n <= m
  <1> DEFINE R == OpToRel(<, Nat)
  <1>1. IsWellFoundedOn(R, Nat)
    BY NatLessThanWellFounded
  <1>2. \A x, y \in Nat : x < y <=> <<x, y>> \in R
    BY DEF OpToRel
  <1> HIDE DEF R
  <1>3. PICK n \in T : \A y \in T : ~(<<y, n>> \in R)
    BY <1>1, WFMin
  <1>4. n \in Nat
    OBVIOUS
  <1>5. ASSUME NEW m \in T
        PROVE  n <= m
    <2>1. m \in Nat /\ ~(<<m, n>> \in R)
      BY <1>3
    <2>2. ~(m < n)
      BY <1>2, <1>4, <2>1
    <2> QED
      BY <1>4, <2>1, <2>2
  <1> QED
    BY <1>5

-----------------------------------------------------------------------------
(* A sequence of entries with the number of solutions up to each of them.  *)
RunningTotals(t, s) ==
    /\ t \in [0 .. Len(s) -> Nat] /\ t[0] = 0
    /\ \A i \in 1 .. Len(s) : t[i] = t[i - 1] + s[i].value

Skipped(q) == IF q.offset = -1 THEN 0 ELSE q.offset
(* How many of n solutions are on the page. *)
OnPage(q, n) ==
    IF n <= Skipped(q) THEN 0
    ELSE IF q.limit = -1 \/ n - Skipped(q) <= q.limit THEN n - Skipped(q) ELSE q.limit

(* Each answer stands for solutions of one entry, of the same row, that    *)
(* are as far behind the first k solutions as the answer is behind the     *)
(* first answer.                                                           *)
Slice(k, g, input, a, answers) ==
    \A i \in 1 .. Len(answers) : \E j \in 1 .. Len(input) :
        /\ answers[i].row = input[j].row
        /\ g[j - 1] <= k + a[i - 1] /\ k + a[i] <= g[j]

Modifiers(q) == q.distinct \in BOOLEAN /\ q.limit \in Nat \cup {-1} /\ q.offset \in Nat \cup {-1}
Counts(R) == [row : R, value : Nat]
Pages(R) == [found_entries : SUBSET R, offset_counter : Nat, limit_counter : Nat,
             answers : Seq(Counts(R)), broken : BOOLEAN]

(* The counters against what was given to LimitPaginationOperator.         *)
CountersAgree(q, p, n, m) ==
    /\ m = OnPage(q, n)
    /\ (q.limit # -1 \/ q.offset # -1) /\ ~p.broken =>
          /\ IF p.offset_counter < Skipped(q) THEN p.offset_counter = n ELSE n >= Skipped(q)
          /\ p.limit_counter = m
    /\ IF p.broken THEN q.limit # -1 /\ m = q.limit
       ELSE q.limit # -1 => m < q.limit \/ n <= Skipped(q)

PageOf(q, input, p) ==
    \E g, a :
        /\ RunningTotals(g, input) /\ RunningTotals(a, p.answers)
        /\ Slice(Skipped(q), g, input, a, p.answers)
        /\ CountersAgree(q, p, g[Len(input)], a[Len(p.answers)])

(* Total counts up: it has a running total, which is its own definition.   *)
LEMMA TotalsExist ==
    ASSUME NEW s, NEW S, s \in Seq(S), \A i \in 1 .. Len(s) : s[i].value \in Nat, NEW n \in 0 .. Len(s)
    PROVE  \E t : /\ t \in [0 .. n -> Nat]
                  /\ t = [i \in 0 .. n |-> IF i = 0 THEN 0 ELSE t[i - 1] + s[i].value]
  <1> DEFINE AddsUp(k, t) == /\ t \in [0 .. k -> Nat]
                             /\ t = [i \in 0 .. k |-> IF i = 0 THEN 0 ELSE t[i - 1] + s[i].value]
             T == {k \in 0 .. Len(s) : ~\E t : AddsUp(k, t)}
  <1>1. Len(s) \in Nat
    BY LenProperties
  <1>2. SUFFICES ASSUME T # {}
                 PROVE  FALSE
    OBVIOUS
  <1>3. PICK k \in T : \A j \in T : k <= j
    <2>1. T \in SUBSET Nat
      BY <1>1
    <2> HIDE DEF T
    <2> QED
      BY <1>2, <2>1, LeastElement
  <1>4. k \in 0 .. Len(s) /\ ~\E t : AddsUp(k, t)
    OBVIOUS
  <1>5. CASE k = 0
    <2>1. AddsUp(0, [i \in 0 .. 0 |-> 0])
      <3>1. \A i \in 0 .. 0 : i = 0
        OBVIOUS
      <3> QED
        BY <3>1
    <2> QED
      BY <1>4, <1>5, <2>1
  <1>6. CASE k # 0
    <2>1. k - 1 \in 0 .. Len(s) /\ ~(k <= k - 1) /\ k \in 1 .. Len(s) /\ k \in 0 .. k /\ k \in Nat
      BY <1>1, <1>4, <1>6
    <2>2. PICK t : AddsUp(k - 1, t)
      <3>1. k - 1 \notin T
        BY <1>3, <2>1
      <3> QED
        BY <2>1, <3>1
    <2> DEFINE u == [i \in 0 .. k |-> IF i = k THEN t[k - 1] + s[k].value ELSE t[i]]
    <2>3. ASSUME NEW i \in 0 .. k
          PROVE  u[i] \in Nat /\ u[i] = IF i = 0 THEN 0 ELSE u[i - 1] + s[i].value
      <3>1. \A j \in 0 .. k - 1 : t[j] \in Nat /\ t[j] = (IF j = 0 THEN 0 ELSE t[j - 1] + s[j].value)
        BY <2>2
      <3>2. s[k].value \in Nat /\ k - 1 \in 0 .. k - 1 /\ k - 1 \in 0 .. k /\ k - 1 # k
        BY <2>1
      <3>3. CASE i = k
        <4>1. u[i] = t[k - 1] + s[k].value /\ u[k - 1] = t[k - 1]
          BY <3>2, <3>3
        <4> QED
          BY <1>6, <3>1, <3>2, <3>3, <4>1
      <3>4. CASE i # k
        <4>1. i \in 0 .. k - 1 /\ (i # 0 => i - 1 \in 0 .. k /\ i - 1 # k)
          BY <2>1, <3>4
        <4>2. u[i] = t[i] /\ (i # 0 => u[i - 1] = t[i - 1])
          BY <3>4, <4>1
        <4> QED
          BY <3>1, <4>1, <4>2
      <3> QED
        BY <3>3, <3>4
    <2>4. u = [i \in 0 .. k |-> u[i]]
      OBVIOUS
    <2> HIDE DEF u
    <2>5. u \in [0 .. k -> Nat]
      BY <2>3, <2>4
    <2>6. u = [i \in 0 .. k |-> IF i = 0 THEN 0 ELSE u[i - 1] + s[i].value]
      BY <2>3, <2>4
    <2> QED
      BY <1>4, <2>5, <2>6
  <1> QED
    BY <1>5, <1>6

LEMMA TotalOfAll ==
    ASSUME NEW s, NEW S, s \in Seq(S), \A i \in DOMAIN s : s[i].value \in Nat
    PROVE  Total(s) \in Nat /\ \E t : RunningTotals(t, s) /\ t[Len(s)] = Total(s)
  <1> DEFINE upto == CHOOSE t : t = [i \in 0 .. Len(s) |-> IF i = 0 THEN 0 ELSE t[i - 1] + s[i].value]
  <1>1. Len(s) \in Nat /\ DOMAIN s = 1 .. Len(s)
    BY LenProperties
  <1>2. PICK t : /\ t \in [0 .. Len(s) -> Nat]
                 /\ t = [i \in 0 .. Len(s) |-> IF i = 0 THEN 0 ELSE t[i - 1] + s[i].value]
    <2>1. Len(s) \in 0 .. Len(s)
      BY <1>1
    <2> QED
      BY <1>1, <2>1, TotalsExist
  <1>3. upto = [i \in 0 .. Len(s) |-> IF i = 0 THEN 0 ELSE upto[i - 1] + s[i].value]
    BY <1>2
  <1>4. Total(s) = upto[Len(s)]
    BY DEF Total
  <1> HIDE DEF upto
  <1>5. ASSUME NEW v, v = [i \in 0 .. Len(s) |-> IF i = 0 THEN 0 ELSE v[i - 1] + s[i].value]
        PROVE  \A i \in 0 .. Len(s) : v[i] = t[i]
    <2> DEFINE T == {i \in 0 .. Len(s) : v[i] # t[i]}
    <2>1. SUFFICES ASSUME T # {}
                   PROVE  FALSE
      OBVIOUS
    <2>2. PICK i \in T : \A j \in T : i <= j
      <3>1. T \in SUBSET Nat
        BY <1>1
      <3> HIDE DEF T
      <3> QED
        BY <2>1, <3>1, LeastElement
    <2>3. i \in 0 .. Len(s) /\ v[i] # t[i]
      OBVIOUS
    <2>4. i # 0
      BY <1>2, <1>5, <2>3
    <2>5. i - 1 \in 0 .. Len(s) /\ ~(i <= i - 1)
      BY <1>1, <2>3, <2>4
    <2>6. v[i - 1] = t[i - 1]
      BY <2>2, <2>5
    <2>7. v[i] = v[i - 1] + s[i].value
      BY <1>5, <2>3, <2>4
    <2>8. t[i] = t[i - 1] + s[i].value
      BY <1>2, <2>3, <2>4
    <2> QED
      BY <2>3, <2>6, <2>7, <2>8
  <1>6. \A i \in 0 .. Len(s) : upto[i] = t[i]
    BY <1>3, <1>5
  <1>7. Total(s) = t[Len(s)] /\ t[Len(s)] \in Nat
    BY <1>1, <1>2, <1>4, <1>6
  <1>8. RunningTotals(t, s)
    <2>1. \A i \in 1 .. Len(s) : i \in 0 .. Len(s) /\ i # 0
      BY <1>1
    <2>2. \A i \in 1 .. Len(s) : t[i] = t[i - 1] + s[i].value
      BY <1>2, <2>1
    <2> QED
      BY <1>1, <1>2, <2>2 DEF RunningTotals
  <1> QED
    BY <1>7, <1>8

LEMMA TotalsExtend ==
    ASSUME NEW s, NEW S, s \in Seq(S), NEW t, RunningTotals(t, s), NEW e, e \in S, e.value \in Nat
    PROVE  LET u == [i \in 0 .. Len(s) + 1 |-> IF i <= Len(s) THEN t[i] ELSE t[Len(s)] + e.value]
           IN  /\ RunningTotals(u, Append(s, e)) /\ u[Len(s) + 1] = t[Len(s)] + e.value
               /\ \A i \in 0 .. Len(s) : u[i] = t[i]
  <1> DEFINE n == Len(s)
             u == [i \in 0 .. n + 1 |-> IF i <= n THEN t[i] ELSE t[n] + e.value]
             c == Append(s, e)
  <1>1. n \in Nat /\ Len(c) = n + 1 /\ c[n + 1] = e /\ \A i \in 1 .. n : c[i] = s[i]
    BY LenProperties, AppendProperties
  <1>2. t \in [0 .. n -> Nat] /\ t[0] = 0 /\ \A i \in 1 .. n : t[i] = t[i - 1] + s[i].value
    BY DEF RunningTotals
  <1> HIDE DEF n, c
  <1>3. u \in [0 .. n + 1 -> Nat]
    BY <1>1, <1>2
  <1>4. u[n + 1] = t[n] + e.value /\ \A i \in 0 .. n : u[i] = t[i]
    BY <1>1, <1>2
  <1> HIDE DEF u
  <1>5. ASSUME NEW i \in 1 .. n + 1
        PROVE  u[i] = u[i - 1] + c[i].value
    <2>1. CASE i = n + 1
      <3>1. n + 1 - 1 = n /\ n \in 0 .. n
        BY <1>1
      <3>2. u[n] = t[n]
        BY <1>4, <3>1
      <3> QED
        BY <1>1, <1>4, <2>1, <3>1, <3>2
    <2>2. CASE i # n + 1
      <3>1. i \in 1 .. n /\ i \in 0 .. n /\ i - 1 \in 0 .. n
        BY <1>1, <2>2
      <3> QED
        BY <1>1, <1>2, <1>4, <3>1
    <2> QED
      BY <2>1, <2>2
  <1>6. RunningTotals(u, c)
    BY <1>1, <1>2, <1>3, <1>4, <1>5 DEF RunningTotals
  <1> QED
    BY <1>4, <1>6 DEF u, c, n

LEMMA TotalsAreNumbers ==
    ASSUME NEW s, NEW S, s \in Seq(S), NEW t, RunningTotals(t, s)
    PROVE  Len(s) \in Nat /\ \A i \in 0 .. Len(s) : t[i] \in Nat
  BY LenProperties DEF RunningTotals

(* One more entry is given, of which w solutions are answers, or none.     *)
LEMMA SliceExtends ==
    ASSUME NEW R, NEW input \in Seq(Counts(R)), NEW answers \in Seq(Counts(R)),
           NEW row \in R, NEW value \in Nat, NEW w \in Nat, NEW k \in Nat,
           NEW g, NEW h, NEW a, NEW b,
           RunningTotals(g, input), RunningTotals(a, answers), Slice(k, g, input, a, answers),
           \A i \in 0 .. Len(input) : h[i] = g[i], h[Len(input) + 1] = g[Len(input)] + value,
           \A i \in 0 .. Len(answers) : b[i] = a[i], b[Len(answers) + 1] = a[Len(answers)] + w
    PROVE  /\ Slice(k, h, Append(input, [row |-> row, value |-> value]), b, answers)
           /\ g[Len(input)] <= k + a[Len(answers)] /\ k + a[Len(answers)] + w <= g[Len(input)] + value =>
                 Slice(k, h, Append(input, [row |-> row, value |-> value]), b, Append(answers, [row |-> row, value |-> w]))
  <1> DEFINE n == Len(input)  m == Len(answers)
             c == Append(input, [row |-> row, value |-> value])
             d == Append(answers, [row |-> row, value |-> w])
  <1>1. /\ n \in Nat /\ Len(c) = n + 1 /\ c[n + 1] = [row |-> row, value |-> value] /\ \A i \in 1 .. n : c[i] = input[i]
        /\ m \in Nat /\ Len(d) = m + 1 /\ d[m + 1] = [row |-> row, value |-> w] /\ \A i \in 1 .. m : d[i] = answers[i]
    BY LenProperties, AppendProperties DEF Counts
  <1>2. /\ \A i \in 0 .. n : h[i] = g[i] /\ g[i] \in Nat
        /\ \A i \in 0 .. m : b[i] = a[i] /\ a[i] \in Nat
        /\ h[n + 1] = g[n] + value /\ b[m + 1] = a[m] + w
    BY TotalsAreNumbers
  <1> HIDE DEF n, m, c, d
  <1>3. ASSUME NEW i \in 1 .. m
        PROVE  \E j \in 1 .. n + 1 : answers[i].row = c[j].row /\ h[j - 1] <= k + b[i - 1] /\ k + b[i] <= h[j]
    <2>1. PICK j \in 1 .. n : answers[i].row = input[j].row /\ g[j - 1] <= k + a[i - 1] /\ k + a[i] <= g[j]
      BY DEF Slice, n, m
    <2>2. j \in 1 .. n + 1 /\ j \in 0 .. n /\ j - 1 \in 0 .. n /\ i \in 0 .. m /\ i - 1 \in 0 .. m
      BY <1>1
    <2>3. c[j] = input[j] /\ h[j] = g[j] /\ h[j - 1] = g[j - 1] /\ b[i] = a[i] /\ b[i - 1] = a[i - 1]
      BY <1>1, <1>2, <2>2
    <2> QED
      BY <2>1, <2>2, <2>3
  <1>4. Slice(k, h, c, b, answers)
    BY <1>1, <1>3 DEF Slice, m
  <1>5. ASSUME g[n] <= k + a[m], k + a[m] + w <= g[n] + value
        PROVE  Slice(k, h, c, b, d)
    <2> SUFFICES ASSUME NEW i \in 1 .. m + 1
                 PROVE  \E j \in 1 .. n + 1 : d[i].row = c[j].row /\ h[j - 1] <= k + b[i - 1] /\ k + b[i] <= h[j]
      BY <1>1 DEF Slice
    <2>1. CASE i = m + 1
      <3>1. n + 1 \in 1 .. n + 1 /\ n + 1 - 1 = n /\ m + 1 - 1 = m /\ n \in 0 .. n /\ m \in 0 .. m
        BY <1>1
      <3>2. h[n + 1 - 1] = g[n] /\ b[i - 1] = a[m] /\ b[i] = a[m] + w /\ h[n + 1] = g[n] + value
        <4>1. h[n + 1 - 1] = h[n] /\ b[i - 1] = b[m] /\ b[i] = b[m + 1]
          BY <2>1, <3>1, SMTT(30)
        <4> QED
          BY <1>2, <3>1, <4>1
      <3>3. g[n] \in Nat /\ a[m] \in Nat
        BY <1>2, <3>1
      <3>4. h[n + 1 - 1] <= k + b[i - 1] /\ k + b[i] <= h[n + 1]
        BY <1>5, <3>2, <3>3
      <3>5. d[i].row = row /\ c[n + 1].row = row
        BY <1>1, <2>1
      <3>6. d[i].row = c[n + 1].row
        BY <3>5
      <3>7. \A j : j = n + 1 => j \in 1 .. n + 1 /\ d[i].row = c[j].row /\ h[j - 1] <= k + b[i - 1] /\ k + b[i] <= h[j]
        BY <3>1, <3>4, <3>6
      <3> QED
        BY <3>7
    <2>2. CASE i # m + 1
      <3>1. i \in 1 .. m /\ d[i] = answers[i]
        BY <1>1, <2>2
      <3> QED
        BY <1>3, <3>1
    <2> QED
      BY <2>1, <2>2
  <1> QED
    BY <1>4, <1>5 DEF c, d, n, m

LEMMA AnswerFields ==
    ASSUME NEW R, NEW p \in Pages(R), NEW row \in R, NEW w \in Nat
    PROVE  LET s == Answer(p, row, w)
           IN  /\ s \in Pages(R) /\ s.answers = Append(p.answers, [row |-> row, value |-> w])
               /\ s.found_entries = p.found_entries /\ s.broken = p.broken
               /\ s.offset_counter = p.offset_counter /\ s.limit_counter = p.limit_counter
  <1> DEFINE e == [row |-> row, value |-> w]
  <1>1. e \in Counts(R) /\ p.answers \in Seq(Counts(R))
    BY DEF Counts, Pages
  <1> HIDE DEF e
  <1>2. Append(p.answers, e) \in Seq(Counts(R))
    BY <1>1, AppendProperties
  <1>3. Answer(p, row, w) = [p EXCEPT !.answers = Append(p.answers, e)]
    BY DEF Answer, e, Pages
  <1> QED
    BY <1>2, <1>3 DEF Pages, e

LEMMA CountedFields ==
    ASSUME NEW R, NEW p \in Pages(R), NEW row \in R, NEW w \in Nat
    PROVE  LET s == Counted(p, row, w)
           IN  /\ s \in Pages(R) /\ s.answers = Append(p.answers, [row |-> row, value |-> w])
               /\ s.found_entries = p.found_entries /\ s.broken = p.broken
               /\ s.offset_counter = p.offset_counter /\ s.limit_counter = p.limit_counter + w
  <1> DEFINE s == Answer(p, row, w)
  <1>1. /\ s \in Pages(R) /\ s.answers = Append(p.answers, [row |-> row, value |-> w])
        /\ s.found_entries = p.found_entries /\ s.broken = p.broken
        /\ s.offset_counter = p.offset_counter /\ s.limit_counter = p.limit_counter
    BY AnswerFields
  <1> HIDE DEF s
  <1>2. Counted(p, row, w) = [s EXCEPT !.limit_counter = @ + w]
    BY DEF Counted, s
  <1>3. LET r == [s EXCEPT !.limit_counter = @ + w]
        IN  /\ r \in Pages(R) /\ r.answers = s.answers /\ r.found_entries = s.found_entries /\ r.broken = s.broken
            /\ r.offset_counter = s.offset_counter /\ r.limit_counter = s.limit_counter + w
    BY <1>1, SMTT(30) DEF Pages
  <1> QED
    BY <1>1, <1>2, <1>3

LEMMA CutFields ==
    ASSUME NEW R, NEW p \in Pages(R), NEW row \in R, NEW w \in Nat
    PROVE  LET s == [Answer(p, row, w) EXCEPT !.broken = TRUE]
           IN  /\ s \in Pages(R) /\ s.answers = Append(p.answers, [row |-> row, value |-> w])
               /\ s.found_entries = p.found_entries /\ s.broken = TRUE
               /\ s.offset_counter = p.offset_counter /\ s.limit_counter = p.limit_counter
  <1> DEFINE s == Answer(p, row, w)
  <1>1. /\ s \in Pages(R) /\ s.answers = Append(p.answers, [row |-> row, value |-> w])
        /\ s.found_entries = p.found_entries
        /\ s.offset_counter = p.offset_counter /\ s.limit_counter = p.limit_counter
    BY AnswerFields
  <1> HIDE DEF s
  <1>2. LET r == [s EXCEPT !.broken = TRUE]
        IN  /\ r \in Pages(R) /\ r.answers = s.answers /\ r.found_entries = s.found_entries /\ r.broken = TRUE
            /\ r.offset_counter = s.offset_counter /\ r.limit_counter = s.limit_counter
    BY <1>1 DEF Pages
  <1> QED
    BY <1>1, <1>2 DEF s

(* What LimitPaginationOperator does to the counters is what the page      *)
(* needs: with more solutions than LIMIT leaves room for, it answers with  *)
(* as many as there is room, and ends.                                     *)
LEMMA PaginateKeeps ==
    ASSUME NEW R, NEW q, Modifiers(q), NEW input \in Seq(Counts(R)), NEW p \in Pages(R), ~p.broken,
           PageOf(q, input, p), NEW row \in R, NEW value \in Nat
    PROVE  /\ PageOf(q, Append(input, [row |-> row, value |-> value]), Paginate(q, p, row, value))
           /\ Paginate(q, p, row, value) \in Pages(R)
           /\ Paginate(q, p, row, value).found_entries = p.found_entries
  <1> DEFINE k == Skipped(q)  entry == [row |-> row, value |-> value]  c == Append(input, entry)
             r == Paginate(q, p, row, value)
  <1>1. k \in Nat /\ q.limit \in Nat \cup {-1} /\ q.offset \in Nat \cup {-1} /\ (q.offset = -1 => k = 0)
        /\ (q.offset # -1 => k = q.offset)
    BY DEF Skipped, Modifiers
  <1>2. PICK g, a : /\ RunningTotals(g, input) /\ RunningTotals(a, p.answers) /\ Slice(k, g, input, a, p.answers)
                    /\ CountersAgree(q, p, g[Len(input)], a[Len(p.answers)])
    BY DEF PageOf
  <1>3. /\ p.answers \in Seq(Counts(R)) /\ p.offset_counter \in Nat /\ p.limit_counter \in Nat
        /\ p.found_entries \in SUBSET R /\ p.broken = FALSE
    BY DEF Pages
  <1> DEFINE n == g[Len(input)]  m == a[Len(p.answers)]
  <1>4. n \in Nat /\ m \in Nat
    <2>1. Len(input) \in 0 .. Len(input) /\ Len(p.answers) \in 0 .. Len(p.answers)
      BY <1>3, LenProperties
    <2> QED
      BY <1>2, <1>3, <2>1, TotalsAreNumbers
  <1>5. /\ m = OnPage(q, n)
        /\ q.limit # -1 \/ q.offset # -1 =>
              /\ IF p.offset_counter < k THEN p.offset_counter = n ELSE n >= k
              /\ p.limit_counter = m
        /\ q.limit # -1 => m < q.limit \/ n <= k
    BY <1>2, <1>3 DEF CountersAgree
  <1>6. n > k => m = n - k
    BY <1>1, <1>4, <1>5 DEF OnPage
  <1>7. n <= k => m = 0
    BY <1>5 DEF OnPage
  <1>8. entry \in Counts(R) /\ entry.value = value /\ c \in Seq(Counts(R)) /\ Len(c) = Len(input) + 1
    BY AppendProperties DEF Counts
  <1> DEFINE h == [i \in 0 .. Len(input) + 1 |-> IF i <= Len(input) THEN g[i] ELSE g[Len(input)] + entry.value]
  <1>9. RunningTotals(h, c) /\ h[Len(input) + 1] = n + value /\ \A i \in 0 .. Len(input) : h[i] = g[i]
    <2> HIDE DEF entry
    <2> QED
      BY <1>2, <1>8, TotalsExtend
  <1> HIDE DEF h, k, entry, c
  (* An answer of w of the solutions. *)
  <1>10. ASSUME NEW w \in Nat, NEW s, s.answers = Append(p.answers, [row |-> row, value |-> w]),
                n <= k + m, k + m + w <= n + value, CountersAgree(q, s, n + value, m + w)
         PROVE  PageOf(q, c, s)
    <2> DEFINE last == [row |-> row, value |-> w]
               b == [i \in 0 .. Len(p.answers) + 1 |-> IF i <= Len(p.answers) THEN a[i] ELSE a[Len(p.answers)] + last.value]
    <2>1. last \in Counts(R) /\ last.value = w
      BY DEF Counts
    <2>2. Len(s.answers) = Len(p.answers) + 1
      BY <1>3, <1>10, <2>1, AppendProperties
    <2> HIDE DEF last
    <2>3. RunningTotals(b, Append(p.answers, last)) /\ b[Len(p.answers) + 1] = m + w
          /\ \A i \in 0 .. Len(p.answers) : b[i] = a[i]
      <3>1. RunningTotals(a, p.answers) /\ p.answers \in Seq(Counts(R)) /\ last \in Counts(R) /\ last.value \in Nat
        BY <1>2, <1>3, <2>1
      <3> QED
        BY <2>1, <3>1, TotalsExtend, SMTT(30)
    <2> HIDE DEF b
    <2>4. RunningTotals(b, s.answers)
      BY <1>10, <2>3 DEF last
    <2>5. Slice(k, h, c, b, s.answers)
      <3>1. Slice(k, h, Append(input, [row |-> row, value |-> value]), b, Append(p.answers, [row |-> row, value |-> w]))
        BY <1>1, <1>2, <1>3, <1>9, <1>10, <2>3, SliceExtends
      <3> QED
        BY <1>10, <3>1 DEF c, entry
    <2>6. CountersAgree(q, s, h[Len(c)], b[Len(s.answers)])
      BY <1>8, <1>9, <1>10, <2>2, <2>3
    <2> QED
      BY <1>9, <2>4, <2>5, <2>6 DEF PageOf, k
  (* No answer. *)
  <1>11. ASSUME NEW s, s.answers = p.answers, CountersAgree(q, s, n + value, m)
         PROVE  PageOf(q, c, s)
    <2> DEFINE b == [i \in 0 .. Len(p.answers) + 1 |-> IF i <= Len(p.answers) THEN a[i] ELSE a[Len(p.answers)] + 0]
    <2>1. b[Len(p.answers) + 1] = a[Len(p.answers)] + 0 /\ \A i \in 0 .. Len(p.answers) : b[i] = a[i]
      BY <1>3, LenProperties
    <2> HIDE DEF b
    <2>2. Slice(k, h, Append(input, [row |-> row, value |-> value]), b, p.answers)
      BY <1>1, <1>2, <1>3, <1>9, <2>1, SliceExtends
    <2>3. Slice(k, h, c, a, s.answers)
      <3>1. \A i \in 1 .. Len(p.answers) : b[i] = a[i] /\ b[i - 1] = a[i - 1]
        BY <1>3, <2>1, LenProperties
      <3> QED
        BY <1>11, <2>2, <3>1 DEF Slice, c, entry
    <2> QED
      BY <1>2, <1>8, <1>9, <1>11, <2>3 DEF PageOf, k
  <1> HIDE DEF n, m
  <1>12. CASE q.limit = -1 /\ q.offset = -1
    <2>1. r = Answer(p, row, value)
      BY <1>12 DEF Paginate
    <2>2. /\ r.answers = Append(p.answers, [row |-> row, value |-> value]) /\ r.broken = FALSE /\ r \in Pages(R)
          /\ r.found_entries = p.found_entries
      BY <2>1, <1>3, AnswerFields
    <2>3. n <= k + m /\ k + m + value <= n + value /\ CountersAgree(q, r, n + value, m + value)
      <3>1. k = 0 /\ m = n
        BY <1>1, <1>4, <1>6, <1>7, <1>12
      <3>2. m + value = OnPage(q, n + value)
        BY <1>1, <1>4, <1>12, <3>1 DEF OnPage, k
      <3> QED
        BY <1>4, <1>12, <2>2, <3>1, <3>2 DEF CountersAgree
    <2> HIDE DEF r
    <2>4. PageOf(q, c, r)
      BY <1>10, <2>2, <2>3
    <2> QED
      BY <2>2, <2>4 DEF r, c, entry
  <1>13. CASE q.offset # -1 /\ p.offset_counter < q.offset
    <2> DEFINE o == [p EXCEPT !.offset_counter = @ + value]  rest == n + value - k
    <2>1. k = q.offset /\ p.offset_counter = n /\ n < k /\ m = 0 /\ p.limit_counter = 0
      BY <1>1, <1>4, <1>5, <1>7, <1>13
    <2>2. /\ o \in Pages(R) /\ o.answers = p.answers /\ o.offset_counter = n + value /\ o.limit_counter = 0
          /\ o.broken = FALSE /\ o.found_entries = p.found_entries
      BY <1>3, <1>4, <2>1 DEF Pages
    <2>3. r = AfterOffset(q, o, row, rest)
      BY <1>1, <1>13, <2>1 DEF Paginate
    <2>4. rest \in Int
      BY <1>1, <1>4
    <2> HIDE DEF o, rest, r
    <2>5. CASE ~(rest > 0)
      <3>1. r = o
        BY <2>3, <2>5 DEF AfterOffset
      <3>2. n + value <= k
        BY <1>1, <1>4, <2>5 DEF rest
      <3>3. CountersAgree(q, o, n + value, m)
        BY <1>1, <1>4, <2>1, <2>2, <3>2 DEF CountersAgree, OnPage, k
      <3>4. PageOf(q, c, o)
        BY <1>11, <2>2, <3>3
      <3> QED
        BY <2>2, <3>1, <3>4 DEF r, c, entry
    <2>6. CASE rest > 0 /\ q.limit # -1 /\ rest >= q.limit
      <3>1. q.limit \in Nat
        BY <1>1, <2>6
      <3>2. r = Cut(q, o, row) /\ o.limit_counter + rest = rest
        BY <2>2, <2>3, <2>4, <2>6 DEF AfterOffset, WithinLimit
      <3>3. /\ r.answers = Append(o.answers, [row |-> row, value |-> q.limit]) /\ r.broken = TRUE
            /\ r.offset_counter = n + value /\ r.limit_counter = 0 /\ r \in Pages(R)
            /\ r.found_entries = p.found_entries
        <4>1. q.limit - o.limit_counter = q.limit
          BY <2>2, <3>1
        <4>2. r = [Answer(o, row, q.limit) EXCEPT !.broken = TRUE] /\ o \in Pages(R)
          BY <2>2, <3>2, <4>1 DEF Cut
        <4>3. /\ r \in Pages(R) /\ r.answers = Append(o.answers, [row |-> row, value |-> q.limit])
              /\ r.found_entries = o.found_entries /\ r.broken = TRUE
              /\ r.offset_counter = o.offset_counter /\ r.limit_counter = o.limit_counter
          BY <3>1, <4>2, CutFields
        <4> QED
          BY <2>2, <4>3
      <3>4. n <= k + m /\ k + m + q.limit <= n + value /\ n + value > k
        BY <1>1, <1>4, <2>1, <2>6, <3>1 DEF rest
      <3>5. m + q.limit = OnPage(q, n + value)
        BY <1>1, <1>4, <2>1, <2>6, <3>1, <3>4 DEF OnPage, k, rest
      <3>6. CountersAgree(q, r, n + value, m + q.limit)
        BY <1>1, <1>4, <2>1, <2>6, <3>1, <3>3, <3>4, <3>5 DEF CountersAgree, k
      <3>7. PageOf(q, c, r)
        BY <1>10, <2>2, <3>1, <3>3, <3>4, <3>6
      <3> QED
        BY <3>3, <3>7 DEF r, c, entry
    <2>7. CASE rest > 0 /\ ~(q.limit # -1 /\ rest >= q.limit)
      <3>1. r = Counted(o, row, rest) /\ rest \in Nat
        BY <2>2, <2>3, <2>4, <2>7 DEF AfterOffset, WithinLimit
      <3>2. /\ r.answers = Append(o.answers, [row |-> row, value |-> rest]) /\ r.broken = FALSE
            /\ r.offset_counter = n + value /\ r.limit_counter = rest /\ r \in Pages(R)
            /\ r.found_entries = p.found_entries
        <4>1. o \in Pages(R) /\ rest \in Nat /\ r = Counted(o, row, rest)
          BY <2>2, <3>1
        <4>2. /\ r.answers = Append(o.answers, [row |-> row, value |-> rest]) /\ r.broken = o.broken
              /\ r.offset_counter = o.offset_counter /\ r.limit_counter = o.limit_counter + rest /\ r \in Pages(R)
              /\ r.found_entries = o.found_entries
          BY <4>1, CountedFields
        <4>3. 0 + rest = rest
          BY <3>1
        <4> QED
          BY <2>2, <4>2, <4>3
      <3>3. n <= k + m /\ k + m + rest <= n + value /\ n + value > k
        BY <1>1, <1>4, <2>1, <2>7 DEF rest
      <3>4. m + rest = OnPage(q, n + value)
        BY <1>1, <1>4, <2>1, <2>7, <3>3 DEF OnPage, k, rest
      <3>5. CountersAgree(q, r, n + value, m + rest)
        BY <1>1, <1>4, <2>1, <2>7, <3>1, <3>2, <3>3, <3>4 DEF CountersAgree, k
      <3>6. PageOf(q, c, r)
        BY <1>10, <2>2, <3>1, <3>2, <3>3, <3>5
      <3> QED
        BY <3>2, <3>6 DEF r, c, entry
    <2> QED
      BY <2>5, <2>6, <2>7
  <1>14. CASE ~(q.limit = -1 /\ q.offset = -1) /\ ~(q.offset # -1 /\ p.offset_counter < q.offset)
    <2>1. n >= k /\ m = n - k /\ p.limit_counter = m
      BY <1>1, <1>3, <1>4, <1>5, <1>6, <1>7, <1>14
    <2>2. ~(p.offset_counter < q.offset) /\ ~(p.offset_counter < k)
      BY <1>1, <1>3, <1>14
    <2>3. r = WithinLimit(q, p, row, value)
      BY <1>14, <2>2 DEF Paginate
    <2>4. q.limit # -1 => q.limit \in Nat /\ m <= q.limit
      BY <1>1, <1>4, <1>5, <1>7
    <2> HIDE DEF r
    <2>5. CASE q.limit # -1 /\ m + value >= q.limit
      <3> DEFINE w == q.limit - m
      <3>1. w \in Nat
        BY <1>4, <2>4, <2>5
      <3>2. r = Cut(q, p, row)
        BY <2>1, <2>3, <2>5 DEF WithinLimit
      <3>3. /\ r.answers = Append(p.answers, [row |-> row, value |-> w]) /\ r.broken = TRUE
            /\ r.offset_counter = p.offset_counter /\ r \in Pages(R)
            /\ r.found_entries = p.found_entries
        <4>1. q.limit - p.limit_counter = w
          BY <2>1
        <4> HIDE DEF w
        <4>2. r = [Answer(p, row, w) EXCEPT !.broken = TRUE]
          BY <3>2, <4>1 DEF Cut
        <4> QED
          BY <3>1, <4>2, CutFields
      <3> HIDE DEF w
      <3>4. n <= k + m /\ k + m + w <= n + value /\ n + value >= k /\ m + w = q.limit
        BY <1>1, <1>4, <2>1, <2>4, <2>5 DEF w
      <3>5. m + w = OnPage(q, n + value)
        <4>1. k = Skipped(q) /\ q.limit \in Nat /\ q.limit # -1 /\ (n + value <= k => m + w = 0)
          BY <1>1, <1>4, <2>1, <2>4, <2>5, <3>4 DEF k
        <4>2. n + value - k >= q.limit
          BY <1>1, <1>4, <2>1, <2>5, <4>1
        <4> QED
          BY <1>1, <1>4, <3>4, <4>1, <4>2 DEF OnPage
      <3>6. CountersAgree(q, r, n + value, m + w)
        BY <1>1, <1>4, <2>1, <2>2, <2>5, <3>3, <3>4, <3>5 DEF CountersAgree, k
      <3>7. PageOf(q, c, r)
        BY <1>10, <3>1, <3>3, <3>4, <3>6
      <3> QED
        BY <3>3, <3>7 DEF r, c, entry
    <2>6. CASE ~(q.limit # -1 /\ m + value >= q.limit)
      <3>1. r = Counted(p, row, value)
        BY <2>1, <2>3, <2>6 DEF WithinLimit
      <3>2. /\ r.answers = Append(p.answers, [row |-> row, value |-> value]) /\ r.broken = FALSE
            /\ r.offset_counter = p.offset_counter /\ r.limit_counter = m + value /\ r \in Pages(R)
            /\ r.found_entries = p.found_entries
        <4>1. /\ r.answers = Append(p.answers, [row |-> row, value |-> value]) /\ r.broken = p.broken
              /\ r.offset_counter = p.offset_counter /\ r.limit_counter = p.limit_counter + value /\ r \in Pages(R)
              /\ r.found_entries = p.found_entries
          BY <3>1, CountedFields
        <4> QED
          BY <1>3, <2>1, <4>1
      <3>3. n <= k + m /\ k + m + value <= n + value /\ n + value >= k
        BY <1>1, <1>4, <2>1
      <3>4. m + value = OnPage(q, n + value)
        <4>1. k = Skipped(q) /\ n + value - k = m + value /\ (n + value <= k => m + value = 0)
          BY <1>1, <1>4, <2>1, <3>3 DEF k
        <4>2. q.limit = -1 \/ n + value - k <= q.limit
          BY <1>1, <1>4, <2>4, <2>6, <4>1
        <4> QED
          BY <1>1, <1>4, <4>1, <4>2 DEF OnPage
      <3>5. CountersAgree(q, r, n + value, m + value)
        <4>1. n + value >= k
          BY <1>1, <1>4, <2>1
        <4>2. q.limit # -1 => m + value < q.limit
          BY <1>1, <1>4, <2>4, <2>6
        <4>3. k = Skipped(q)
          BY DEF k
        <4> QED
          BY <2>2, <3>2, <3>4, <4>1, <4>2, <4>3 DEF CountersAgree
      <3>6. PageOf(q, c, r)
        BY <1>10, <3>2, <3>3, <3>5
      <3> QED
        BY <3>2, <3>6 DEF r, c, entry
    <2> QED
      BY <2>5, <2>6
  <1> QED
    BY <1>12, <1>13, <1>14

LEMMA FoundDoesNotMatter ==
    ASSUME NEW q, NEW input, NEW p, NEW r, PageOf(q, input, p), r.answers = p.answers, r.broken = p.broken,
           r.offset_counter = p.offset_counter, r.limit_counter = p.limit_counter
    PROVE  PageOf(q, input, r)
  <1>1. PICK g, a : /\ RunningTotals(g, input) /\ RunningTotals(a, p.answers) /\ Slice(Skipped(q), g, input, a, p.answers)
                    /\ CountersAgree(q, p, g[Len(input)], a[Len(p.answers)])
    BY DEF PageOf
  <1>2. CountersAgree(q, r, g[Len(input)], a[Len(p.answers)])
    BY <1>1 DEF CountersAgree
  <1> QED
    BY <1>1, <1>2 DEF PageOf

LEMMA NothingGiven ==
    ASSUME NEW R, NEW q, Modifiers(q)
    PROVE  NoPage \in Pages(R) /\ PageOf(q, <<>>, NoPage)
  <1>1. <<>> \in Seq(Counts(R)) /\ Len(<<>>) = 0
    OBVIOUS
  <1>2. NoPage \in Pages(R) /\ NoPage.answers = <<>> /\ NoPage.broken = FALSE
        /\ NoPage.offset_counter = 0 /\ NoPage.limit_counter = 0
    BY <1>1 DEF NoPage, Pages
  <1> DEFINE t == [i \in 0 .. 0 |-> 0]
  <1>3. t \in [0 .. 0 -> Nat] /\ t[0] = 0 /\ 1 .. 0 = {}
    OBVIOUS
  <1> HIDE DEF t
  <1>4. RunningTotals(t, <<>>) /\ Slice(Skipped(q), t, <<>>, t, <<>>)
    BY <1>1, <1>3 DEF RunningTotals, Slice
  <1>5. Skipped(q) \in Nat /\ q.limit \in Nat \cup {-1}
    BY DEF Skipped, Modifiers
  <1>6. CountersAgree(q, NoPage, 0, 0)
    BY <1>2, <1>5 DEF CountersAgree, OnPage
  <1> QED
    BY <1>1, <1>2, <1>3, <1>4, <1>6 DEF PageOf

-----------------------------------------------------------------------------
(* The answers are the page of the solutions in the entries of s: as many  *)
(* as LIMIT and OFFSET leave, of the rows that the solutions have there.   *)
IsPage(q, s, answers) ==
    \E g, a :
        /\ RunningTotals(g, s) /\ RunningTotals(a, answers)
        /\ Slice(Skipped(q), g, s, a, answers)
        /\ a[Len(answers)] = OnPage(q, g[Len(s)])

(* Each row of s once, in the order in which they came first. *)
Rowset(s) == {s[i].row : i \in DOMAIN s}
Earlier(s, row, other) == \E m \in DOMAIN s : s[m].row = row /\ \A l \in 1 .. m : s[l].row # other
Distinct(s, first) ==
    /\ Rowset(first) = Rowset(s)
    /\ \A i \in DOMAIN first : first[i].value = 1
    /\ \A i, j \in DOMAIN first : first[i].row = first[j].row => i = j
    /\ \A i, j \in DOMAIN first : i < j => Earlier(s, first[i].row, first[j].row)

(* The page p against the entries s that were yielded.                     *)
PageInv(q, R, s, p) ==
    /\ s \in Seq(Counts(R)) /\ p \in Pages(R)
    /\ ~q.distinct => PageOf(q, s, p)
    /\ q.distinct => \E first \in Seq(Counts(R)) :
                         Distinct(s, first) /\ PageOf(q, first, p) /\ p.found_entries = Rowset(s)

LEMMA RowsExtend ==
    ASSUME NEW R, NEW s \in Seq(Counts(R)), NEW e \in Counts(R)
    PROVE  /\ Append(s, e) \in Seq(Counts(R)) /\ DOMAIN Append(s, e) = 1 .. Len(s) + 1 /\ DOMAIN s = 1 .. Len(s)
           /\ Len(s) \in Nat /\ Append(s, e)[Len(s) + 1] = e /\ \A i \in 1 .. Len(s) : Append(s, e)[i] = s[i]
           /\ Rowset(Append(s, e)) = Rowset(s) \cup {e.row}
  <1> DEFINE c == Append(s, e)  n == Len(s)
  <1>1. /\ n \in Nat /\ c \in Seq(Counts(R)) /\ DOMAIN c = 1 .. n + 1 /\ DOMAIN s = 1 .. n
        /\ c[n + 1] = e /\ \A i \in 1 .. n : c[i] = s[i]
    BY LenProperties, AppendProperties
  <1> HIDE DEF c, n
  <1>2. ASSUME NEW i \in 1 .. n + 1
        PROVE  c[i].row \in Rowset(s) \cup {e.row}
    <2>1. CASE i = n + 1
      BY <1>1, <2>1
    <2>2. CASE i # n + 1
      <3>1. i \in 1 .. n
        BY <1>1, <2>2
      <3> QED
        BY <1>1, <3>1 DEF Rowset
    <2> QED
      BY <2>1, <2>2
  <1>3. ASSUME NEW i \in 1 .. n
        PROVE  s[i].row \in Rowset(c)
    <2>1. i \in 1 .. n + 1
      BY <1>1
    <2> QED
      BY <1>1, <2>1 DEF Rowset
  <1>4. e.row \in Rowset(c)
    <2>1. n + 1 \in 1 .. n + 1
      BY <1>1
    <2> QED
      BY <1>1, <2>1 DEF Rowset
  <1>5. Rowset(c) \subseteq Rowset(s) \cup {e.row}
    BY <1>1, <1>2 DEF Rowset
  <1>6. Rowset(s) \subseteq Rowset(c)
    <2>1. \A i \in DOMAIN s : s[i].row \in Rowset(c)
      BY <1>1, <1>3
    <2> QED
      BY <2>1 DEF Rowset
  <1> QED
    BY <1>1, <1>4, <1>5, <1>6 DEF c, n

(* An entry of a row that was there leaves the distinct rows alone; one of *)
(* a new row adds it to them.                                              *)
LEMMA DistinctExtends ==
    ASSUME NEW R, NEW s \in Seq(Counts(R)), NEW first \in Seq(Counts(R)), Distinct(s, first),
           NEW row \in R, NEW value \in Nat
    PROVE  /\ row \in Rowset(s) => Distinct(Append(s, [row |-> row, value |-> value]), first)
           /\ row \notin Rowset(s) =>
                 Distinct(Append(s, [row |-> row, value |-> value]), Append(first, [row |-> row, value |-> 1]))
  <1> DEFINE e == [row |-> row, value |-> value]  f == [row |-> row, value |-> 1]
             c == Append(s, e)  d == Append(first, f)  n == Len(first)
  <1>1. e \in Counts(R) /\ e.row = row /\ f \in Counts(R) /\ f.row = row /\ f.value = 1
    BY DEF Counts
  <1> HIDE DEF e, f
  <1>2. Rowset(c) = Rowset(s) \cup {row}
    BY <1>1, RowsExtend
  <1>3. /\ DOMAIN d = 1 .. n + 1 /\ DOMAIN first = 1 .. n /\ n \in Nat /\ d[n + 1] = f
        /\ \A i \in 1 .. n : d[i] = first[i]
        /\ Rowset(d) = Rowset(first) \cup {row}
    BY <1>1, RowsExtend
  <1>4. DOMAIN s = 1 .. Len(s) /\ Len(s) \in Nat /\ DOMAIN c = 1 .. Len(s) + 1 /\ \A i \in 1 .. Len(s) : c[i] = s[i]
    BY <1>1, RowsExtend
  <1> HIDE DEF c, d, n
  <1>5. /\ Rowset(first) = Rowset(s) /\ \A i \in 1 .. n : first[i].value = 1
        /\ \A i, j \in 1 .. n : first[i].row = first[j].row => i = j
        /\ \A i, j \in 1 .. n : i < j => Earlier(s, first[i].row, first[j].row)
    BY <1>3 DEF Distinct
  <1>6. ASSUME NEW i \in 1 .. n, NEW j \in 1 .. n, i < j
        PROVE  Earlier(c, first[i].row, first[j].row)
    <2>1. PICK m \in DOMAIN s : s[m].row = first[i].row /\ \A l \in 1 .. m : s[l].row # first[j].row
      BY <1>5, <1>6 DEF Earlier
    <2>2. m \in DOMAIN c /\ \A l \in 1 .. m : c[l] = s[l]
      BY <1>4
    <2>3. m \in 1 .. m
      BY <1>4
    <2> QED
      BY <2>1, <2>2, <2>3 DEF Earlier
  <1>7. row \in Rowset(s) => Distinct(c, first)
    BY <1>2, <1>3, <1>5, <1>6 DEF Distinct
  <1>8. ASSUME row \notin Rowset(s)
        PROVE  Distinct(c, d)
    <2>1. \A i \in 1 .. n + 1 : i \in 1 .. n \/ i = n + 1
      BY <1>3
    <2>2. \A i \in 1 .. n : d[i].row \in Rowset(first) /\ d[i].row = first[i].row /\ d[i].value = 1
      BY <1>3, <1>5 DEF Rowset
    <2>3. d[n + 1].row = row /\ d[n + 1].value = 1 /\ row \notin Rowset(first)
      BY <1>1, <1>3, <1>5, <1>8
    <2>4. \A i \in 1 .. n + 1 : d[i].value = 1
      BY <2>1, <2>2, <2>3
    <2>5. ASSUME NEW i \in 1 .. n + 1, NEW j \in 1 .. n + 1, d[i].row = d[j].row
          PROVE  i = j
      <3>1. CASE i = n + 1
        BY <2>1, <2>2, <2>3, <2>5, <3>1
      <3>2. CASE j = n + 1
        BY <2>1, <2>2, <2>3, <2>5, <3>2
      <3>3. CASE i \in 1 .. n /\ j \in 1 .. n
        BY <1>5, <2>2, <2>5, <3>3
      <3> QED
        BY <2>1, <3>1, <3>2, <3>3
    <2>6. ASSUME NEW i \in 1 .. n + 1, NEW j \in 1 .. n + 1, i < j
          PROVE  Earlier(c, d[i].row, d[j].row)
      <3>1. i \in 1 .. n
        BY <1>3, <2>6
      <3>2. CASE j = n + 1
        <4>1. PICK m \in DOMAIN s : s[m].row = first[i].row
          <5>1. first[i].row \in Rowset(s)
            <6>1. first[i].row \in Rowset(first)
              BY <2>2, <3>1
            <6> QED
              BY <1>5, <6>1
          <5> QED
            BY <5>1 DEF Rowset
        <4>2. m \in 1 .. m /\ m \in DOMAIN c /\ \A l \in 1 .. m : l \in DOMAIN s /\ c[l] = s[l]
          BY <1>4
        <4>3. \A l \in DOMAIN s : s[l].row # row
          BY <1>8 DEF Rowset
        <4> QED
          BY <1>3, <2>3, <3>1, <3>2, <4>1, <4>2, <4>3 DEF Earlier
      <3>3. CASE j \in 1 .. n
        BY <1>3, <1>6, <2>6, <3>1, <3>3
      <3> QED
        BY <2>1, <3>2, <3>3
    <2> QED
      BY <1>2, <1>3, <1>5, <2>4, <2>5, <2>6 DEF Distinct
  <1> QED
    BY <1>7, <1>8 DEF c, d, e, f

(* What an operator yields keeps the page in agreement with what was       *)
(* yielded, until the page has ended.                                      *)
LEMMA YieldKeeps ==
    ASSUME NEW q, Modifiers(q), NEW R, NEW s, NEW p, PageInv(q, R, s, p), ~p.broken,
           NEW row \in R, NEW value \in Nat
    PROVE  PageInv(q, R, Append(s, [row |-> row, value |-> value]), Yielded(q, p, row, value))
  <1> DEFINE e == [row |-> row, value |-> value]  f == [row |-> row, value |-> 1]
             c == Append(s, e)  r == Yielded(q, p, row, value)
  <1>1. /\ s \in Seq(Counts(R)) /\ p \in Pages(R)
        /\ e \in Counts(R) /\ e.row = row /\ f \in Counts(R) /\ f.row = row /\ 1 \in Nat
    BY DEF PageInv, Counts
  <1>2. c \in Seq(Counts(R)) /\ Rowset(c) = Rowset(s) \cup {row}
    <2> HIDE DEF e
    <2> QED
      BY <1>1, RowsExtend
  <1>3. CASE ~q.distinct
    <2>1. PageOf(q, s, p)
      BY <1>3 DEF PageInv
    <2>2. r = Paginate(q, p, row, value)
      BY <1>3 DEF Yielded
    <2>3. PageOf(q, c, Paginate(q, p, row, value)) /\ Paginate(q, p, row, value) \in Pages(R)
      BY <1>1, <2>1, PaginateKeeps
    <2> QED
      BY <1>2, <1>3, <2>2, <2>3 DEF PageInv
  <1>4. CASE q.distinct
    <2>1. PICK first \in Seq(Counts(R)) : Distinct(s, first) /\ PageOf(q, first, p) /\ p.found_entries = Rowset(s)
      BY <1>4 DEF PageInv
    <2> DEFINE more == Append(first, f)
    <2>2. more \in Seq(Counts(R))
      <3> HIDE DEF f
      <3> QED
        BY <1>1, RowsExtend
    <2>3. /\ row \in Rowset(s) => Distinct(c, first)
          /\ row \notin Rowset(s) => Distinct(c, more)
      BY <1>1, <2>1, DistinctExtends
    <2> HIDE DEF more, c
    <2>4. CASE row \in Rowset(s)
      <3>1. r = p
        BY <1>4, <2>1, <2>4 DEF Yielded
      <3>2. Rowset(c) = Rowset(s)
        BY <1>2, <2>4
      <3> HIDE DEF r
      <3> QED
        BY <1>1, <1>2, <1>4, <2>1, <2>3, <2>4, <3>1, <3>2 DEF PageInv, c, e, r
    <2>5. CASE row \notin Rowset(s)
      <3> DEFINE o == [p EXCEPT !.found_entries = @ \cup {row}]
      <3>1. r = Paginate(q, o, row, 1)
        BY <1>4, <2>1, <2>5 DEF Yielded
      <3>2. /\ o \in Pages(R) /\ o.answers = p.answers /\ o.broken = p.broken
            /\ o.offset_counter = p.offset_counter /\ o.limit_counter = p.limit_counter
            /\ o.found_entries = p.found_entries \cup {row}
        BY <1>1 DEF Pages
      <3> HIDE DEF o, r
      <3>3. PageOf(q, first, o)
        BY <2>1, <3>2, FoundDoesNotMatter
      <3>4. PageOf(q, more, r) /\ r \in Pages(R) /\ r.found_entries = o.found_entries
        <4>1. ~o.broken
          BY <3>2
        <4>2. /\ PageOf(q, Append(first, [row |-> row, value |-> 1]), Paginate(q, o, row, 1))
              /\ Paginate(q, o, row, 1) \in Pages(R)
              /\ Paginate(q, o, row, 1).found_entries = o.found_entries
          <5>1. first \in Seq(Counts(R)) /\ o \in Pages(R) /\ PageOf(q, first, o) /\ 1 \in Nat
            BY <3>2, <3>3
          <5> QED
            BY <4>1, <5>1, PaginateKeeps
        <4> QED
          BY <3>1, <4>2 DEF more
      <3>5. r.found_entries = Rowset(c)
        BY <1>2, <2>1, <3>2, <3>4
      <3> QED
        BY <1>2, <1>4, <2>2, <2>3, <2>5, <3>4, <3>5 DEF PageInv, c, e, r
    <2> QED
      BY <2>4, <2>5
  <1> QED
    BY <1>3, <1>4

LEMMA NothingYielded ==
    ASSUME NEW q, Modifiers(q), NEW R
    PROVE  PageInv(q, R, <<>>, NoPage)
  <1>1. <<>> \in Seq(Counts(R)) /\ DOMAIN <<>> = {}
    OBVIOUS
  <1>2. NoPage \in Pages(R) /\ PageOf(q, <<>>, NoPage)
    BY NothingGiven
  <1>3. Rowset(<<>>) = {} /\ Distinct(<<>>, <<>>)
    BY <1>1 DEF Rowset, Distinct
  <1>4. NoPage.found_entries = {}
    BY DEF NoPage
  <1> QED
    BY <1>1, <1>2, <1>3, <1>4 DEF PageInv

LEMMA SequencesOfMore ==
    ASSUME NEW S, NEW T, S \subseteq T, NEW s \in Seq(S)
    PROVE  s \in Seq(T)
  <1>1. Len(s) \in Nat /\ DOMAIN s = 1 .. Len(s) /\ s = [i \in 1 .. Len(s) |-> s[i]] /\ \A i \in 1 .. Len(s) : s[i] \in T
    BY LenProperties, ElementOfSeq
  <1>2. s \in [1 .. Len(s) -> T]
    BY <1>1
  <1> QED
    BY <1>1, <1>2, SeqDef

(* More rows may be yielded than were.                                     *)
LEMMA RowsOfMore ==
    ASSUME NEW q, NEW R, NEW T, R \subseteq T, NEW s, NEW p, PageInv(q, R, s, p)
    PROVE  PageInv(q, T, s, p)
  <1>1. Counts(R) \subseteq Counts(T)
    BY DEF Counts
  <1>2. \A t : t \in Seq(Counts(R)) => t \in Seq(Counts(T))
    BY <1>1, SequencesOfMore
  <1>3. p \in Pages(T)
    <2>1. p \in Pages(R)
      BY DEF PageInv
    <2>2. /\ p = [found_entries |-> p.found_entries, offset_counter |-> p.offset_counter,
                  limit_counter |-> p.limit_counter, answers |-> p.answers, broken |-> p.broken]
          /\ p.found_entries \in SUBSET R /\ p.offset_counter \in Nat /\ p.limit_counter \in Nat
          /\ p.answers \in Seq(Counts(R)) /\ p.broken \in BOOLEAN
      BY <2>1 DEF Pages
    <2>3. p.found_entries \in SUBSET T /\ p.answers \in Seq(Counts(T))
      BY <1>2, <2>2
    <2> QED
      BY <2>2, <2>3 DEF Pages
  <1> QED
    BY <1>2, <1>3 DEF PageInv

LEMMA PageOfIsPage == ASSUME NEW q, NEW s, NEW p, PageOf(q, s, p) PROVE IsPage(q, s, p.answers)
  BY DEF PageOf, IsPage, CountersAgree

-----------------------------------------------------------------------------
(* ORDER BY.  The keys are nodes of the kinds that have an order.          *)
SmallerKey(d, v, w) == IF d THEN Before(w, v) ELSE Before(v, w)

LEMMA BeforeIsTotal ==
    ASSUME NEW u \in SortableNodes, NEW v \in SortableNodes, NEW w \in SortableNodes
    PROVE  /\ ~Before(v, v)
           /\ Before(u, v) /\ Before(v, w) => Before(u, w)
           /\ Before(v, w) \/ Before(w, v) \/ v = w
  <1>1. ASSUME NEW x \in SortableNodes
        PROVE  Kind(x) \in 1 .. 5 /\ KindOrder[Kind(x)] = x[1] /\ x[2] \in Int /\ x = <<x[1], x[2]>>
    <2>1. x = <<x[1], x[2]>> /\ x[1] \in {"null", "iri", "boolean", "integer"} /\ x[2] \in Int
      BY DEF SortableNodes
    <2>2. DOMAIN KindOrder = 1 .. 5
      BY DEF KindOrder
    <2>3. KindOrder[1] = "null" /\ KindOrder[2] = "iri" /\ KindOrder[3] = "boolean" /\ KindOrder[4] = "integer"
      BY DEF KindOrder
    <2>4. \E i \in DOMAIN KindOrder : KindOrder[i] = x[1]
      BY <2>1, <2>2, <2>3
    <2>5. Kind(x) \in DOMAIN KindOrder /\ KindOrder[Kind(x)] = x[1]
      BY <2>4 DEF Kind
    <2> QED
      BY <2>1, <2>2, <2>5
  <1>2. \A x, y \in SortableNodes : Kind(x) = Kind(y) /\ x[2] = y[2] => x = y
    BY <1>1
  <1> QED
    BY <1>1, <1>2 DEF Before

(* Ranks are compared like words: the first key that differs decides.      *)
LEMMA PrecedesAtFirstDifference ==
    ASSUME NEW n \in Nat, NEW desc \in [1 .. n -> BOOLEAN], NEW r \in Ranks(n), NEW s \in Ranks(n)
    PROVE  /\ Precedes(desc, r, s) <=> \E i \in 1 .. n : SmallerKey(desc[i], r[i], s[i]) /\ \A j \in 1 .. i - 1 : r[j] = s[j]
           /\ r # s => \E i \in 1 .. n : r[i] # s[i] /\ \A j \in 1 .. i - 1 : r[j] = s[j]
  <1>1. DOMAIN r = 1 .. n /\ DOMAIN s = 1 .. n
    BY DEF Ranks
  <1>2. Precedes(desc, r, s) <=> \E i \in 1 .. n : SmallerKey(desc[i], r[i], s[i]) /\ \A j \in 1 .. i - 1 : r[j] = s[j]
    BY <1>1 DEF Precedes, SmallerKey
  <1>3. ASSUME r # s
        PROVE  \E i \in 1 .. n : r[i] # s[i] /\ \A j \in 1 .. i - 1 : r[j] = s[j]
    <2> DEFINE T == {i \in 1 .. n : r[i] # s[i]}
    <2>1. T \in SUBSET Nat /\ T # {}
      BY <1>3 DEF Ranks
    <2> HIDE DEF T
    <2>2. PICK i \in T : \A j \in T : i <= j
      BY <2>1, LeastElement
    <2>3. i \in 1 .. n /\ r[i] # s[i]
      BY DEF T
    <2>4. ASSUME NEW j \in 1 .. i - 1
          PROVE  r[j] = s[j]
      <3>1. j \in 1 .. n /\ ~(i <= j)
        BY <2>3
      <3> QED
        BY <2>2, <3>1 DEF T
    <2> QED
      BY <2>3, <2>4
  <1> QED
    BY <1>2, <1>3

LEMMA PrecedesIsTotal ==
    ASSUME NEW n \in Nat, NEW desc \in [1 .. n -> BOOLEAN],
           NEW r \in Ranks(n), NEW s \in Ranks(n), NEW t \in Ranks(n)
    PROVE  /\ ~Precedes(desc, r, r)
           /\ Precedes(desc, r, s) /\ Precedes(desc, s, t) => Precedes(desc, r, t)
           /\ Precedes(desc, r, s) \/ Precedes(desc, s, r) \/ r = s
  <1>1. \A x \in Ranks(n) : \A i \in 1 .. n : x[i] \in SortableNodes
    BY DEF Ranks
  <1>2. \A d \in BOOLEAN : \A u, v, w \in SortableNodes :
            /\ ~SmallerKey(d, v, v)
            /\ SmallerKey(d, u, v) /\ SmallerKey(d, v, w) => SmallerKey(d, u, w)
            /\ SmallerKey(d, v, w) \/ SmallerKey(d, w, v) \/ v = w
    BY BeforeIsTotal DEF SmallerKey
  <1>3. \A i \in 1 .. n : desc[i] \in BOOLEAN
    OBVIOUS
  <1>4. ~Precedes(desc, r, r)
    BY <1>1, <1>2, <1>3, PrecedesAtFirstDifference
  <1>5. ASSUME Precedes(desc, r, s), Precedes(desc, s, t)
        PROVE  Precedes(desc, r, t)
    <2>1. PICK i \in 1 .. n : SmallerKey(desc[i], r[i], s[i]) /\ \A j \in 1 .. i - 1 : r[j] = s[j]
      BY <1>5, PrecedesAtFirstDifference
    <2>2. PICK k \in 1 .. n : SmallerKey(desc[k], s[k], t[k]) /\ \A j \in 1 .. k - 1 : s[j] = t[j]
      BY <1>5, PrecedesAtFirstDifference
    <2>3. CASE i < k
      <3>1. i \in 1 .. k - 1 /\ \A j \in 1 .. i - 1 : j \in 1 .. k - 1
        BY <2>3
      <3>2. SmallerKey(desc[i], r[i], t[i]) /\ \A j \in 1 .. i - 1 : r[j] = t[j]
        BY <2>1, <2>2, <3>1
      <3> QED
        BY <3>2, PrecedesAtFirstDifference
    <2>4. CASE k < i
      <3>1. k \in 1 .. i - 1 /\ \A j \in 1 .. k - 1 : j \in 1 .. i - 1
        BY <2>4
      <3>2. SmallerKey(desc[k], r[k], t[k]) /\ \A j \in 1 .. k - 1 : r[j] = t[j]
        BY <2>1, <2>2, <3>1
      <3> QED
        BY <3>2, PrecedesAtFirstDifference
    <2>5. CASE i = k
      <3>1. SmallerKey(desc[i], r[i], t[i])
        <4>1. desc[i] \in BOOLEAN /\ r[i] \in SortableNodes /\ s[i] \in SortableNodes /\ t[i] \in SortableNodes
          BY <1>1, <1>3
        <4> QED
          BY <1>2, <2>1, <2>2, <2>5, <4>1
      <3> QED
        BY <2>1, <2>2, <2>5, <3>1, PrecedesAtFirstDifference
    <2> QED
      BY <2>3, <2>4, <2>5
  <1>6. ASSUME r # s
        PROVE  Precedes(desc, r, s) \/ Precedes(desc, s, r)
    <2>1. PICK i \in 1 .. n : r[i] # s[i] /\ \A j \in 1 .. i - 1 : r[j] = s[j]
      BY <1>6, PrecedesAtFirstDifference
    <2>2. SmallerKey(desc[i], r[i], s[i]) \/ SmallerKey(desc[i], s[i], r[i])
      BY <1>1, <1>2, <1>3, <2>1
    <2> QED
      BY <2>1, <2>2, PrecedesAtFirstDifference
  <1> QED
    BY <1>4, <1>5, <1>6

-----------------------------------------------------------------------------
Items(n, R) == [ranks : Ranks(n), of : R]
Sorted(desc, s) == \A i, j \in DOMAIN s : i < j => ~Precedes(desc, s[j].ranks, s[i].ranks)

LEMMA DownwardClosedIsInterval ==
    ASSUME NEW n \in Nat, NEW D \in SUBSET (1 .. n), \A i \in D : \A j \in 1 .. i : j \in D
    PROVE  Cardinality(D) \in 0 .. n /\ D = 1 .. Cardinality(D)
  <1> DEFINE T == {i \in 1 .. n + 1 : i \notin D}
  <1>1. T \in SUBSET Nat /\ n + 1 \in T
    OBVIOUS
  <1> HIDE DEF T
  <1>2. PICK m \in T : \A j \in T : m <= j
    BY <1>1, LeastElement
  <1>3. m \in 1 .. n + 1 /\ m \notin D
    BY DEF T
  <1>4. ASSUME NEW i \in D
        PROVE  i \in 1 .. m - 1
    <2>1. i \in 1 .. n /\ ~(m \in 1 .. i)
      BY <1>3
    <2> QED
      BY <1>3, <2>1
  <1>5. ASSUME NEW i \in 1 .. m - 1
        PROVE  i \in D
    <2>1. i \in 1 .. n + 1 /\ ~(m <= i)
      BY <1>3
    <2> QED
      BY <1>2, <2>1 DEF T
  <1>6. D = 1 .. m - 1
    BY <1>4, <1>5
  <1>7. Cardinality(1 .. m - 1) = m - 1
    BY <1>3, FS_Interval
  <1> QED
    BY <1>3, <1>6, <1>7

LEMMA InsertAtProperties ==
    ASSUME NEW S, NEW s \in Seq(S), NEW k \in 1 .. Len(s) + 1, NEW e \in S
    PROVE  LET longer == InsertAt(s, k, e)
           IN  /\ longer \in Seq(S) /\ Len(longer) = Len(s) + 1 /\ longer[k] = e
               /\ \A i \in 1 .. k - 1 : longer[i] = s[i]
               /\ \A i \in k .. Len(s) : longer[i + 1] = s[i]
  <1> DEFINE n == Len(s)  a == SubSeq(s, 1, k - 1)  b == <<e>>  c == SubSeq(s, k, n)  ab == a \o b  r == ab \o c
  <1>1. n \in Nat /\ k \in 1 .. n + 1 /\ \A i \in 1 .. n : s[i] \in S
    BY LenProperties, ElementOfSeq
  <1>2. a \in Seq(S) /\ Len(a) = k - 1 /\ \A i \in 1 .. k - 1 : a[i] = s[i]
    <2> HIDE DEF n
    <2>1. 1 \in Int /\ k - 1 \in Int /\ \A i \in 1 .. k - 1 : s[i] \in S
      BY <1>1
    <2>2. /\ a \in Seq(S) /\ Len(a) = IF 1 <= k - 1 THEN k - 1 - 1 + 1 ELSE 0
          /\ \A i \in 1 .. k - 1 - 1 + 1 : a[i] = s[1 + i - 1]
      BY <2>1, SubSeqProperties
    <2> HIDE DEF a
    <2>3. \A i \in 1 .. k - 1 : i \in 1 .. k - 1 - 1 + 1 /\ 1 + i - 1 = i
      BY <1>1
    <2> QED
      BY <1>1, <2>2, <2>3
  <1>3. c \in Seq(S) /\ Len(c) = n - k + 1 /\ \A i \in 1 .. n - k + 1 : c[i] = s[k + i - 1]
    <2> HIDE DEF n
    <2>1. k \in Int /\ n \in Int /\ \A i \in k .. n : s[i] \in S
      BY <1>1
    <2>2. /\ c \in Seq(S) /\ Len(c) = IF k <= n THEN n - k + 1 ELSE 0
          /\ \A i \in 1 .. n - k + 1 : c[i] = s[k + i - 1]
      BY <2>1, SubSeqProperties
    <2> HIDE DEF c
    <2> QED
      BY <1>1, <2>2
  <1>4. b \in Seq(S) /\ Len(b) = 1 /\ b[1] = e
    OBVIOUS
  <1> HIDE DEF a, b, c, n
  <1>5. /\ ab \in Seq(S) /\ Len(ab) = Len(a) + Len(b)
        /\ \A i \in 1 .. Len(a) + Len(b) : ab[i] = IF i <= Len(a) THEN a[i] ELSE b[i - Len(a)]
    BY <1>2, <1>4, ConcatProperties
  <1> HIDE DEF ab
  <1>6. /\ r \in Seq(S) /\ Len(r) = Len(ab) + Len(c)
        /\ \A i \in 1 .. Len(ab) + Len(c) : r[i] = IF i <= Len(ab) THEN ab[i] ELSE c[i - Len(ab)]
    <2>1. ab \in Seq(S) /\ c \in Seq(S)
      BY <1>3, <1>5
    <2> QED
      BY <2>1, ConcatProperties
  <1>7. r = InsertAt(s, k, e)
    BY DEF InsertAt, ab, a, b, c, n
  <1> HIDE DEF r
  <1>8. Len(ab) = k /\ Len(r) = n + 1
    <2>1. Len(ab) = k - 1 + 1 /\ Len(r) = Len(ab) + (n - k + 1)
      BY <1>2, <1>3, <1>4, <1>5, <1>6
    <2> QED
      BY <1>1, <2>1
  <1>9. ASSUME NEW i \in 1 .. k - 1
        PROVE  r[i] = s[i]
    <2>1. i \in 1 .. Len(ab) + Len(c) /\ i <= Len(ab) /\ i \in 1 .. Len(a) + Len(b) /\ i <= Len(a)
      BY <1>1, <1>2, <1>3, <1>4, <1>8
    <2> QED
      BY <1>2, <1>5, <1>6, <2>1
  <1>10. r[k] = e
    <2>1. k \in 1 .. Len(ab) + Len(c) /\ k <= Len(ab) /\ k \in 1 .. Len(a) + Len(b) /\ ~(k <= Len(a)) /\ k - Len(a) = 1
      BY <1>1, <1>2, <1>3, <1>4, <1>8
    <2>2. r[k] = ab[k] /\ ab[k] = b[k - Len(a)]
      BY <1>5, <1>6, <2>1
    <2> QED
      BY <1>4, <2>1, <2>2
  <1>11. ASSUME NEW i \in k .. n
         PROVE  r[i + 1] = s[i]
    <2> DEFINE j == i + 1 - k
    <2>1. i + 1 \in 1 .. Len(ab) + Len(c) /\ ~(i + 1 <= Len(ab)) /\ i + 1 - Len(ab) = j
          /\ j \in 1 .. n - k + 1 /\ k + j - 1 = i
      BY <1>1, <1>3, <1>8
    <2> HIDE DEF j
    <2>2. r[i + 1] = c[i + 1 - Len(ab)]
      BY <1>6, <2>1
    <2>3. c[j] = s[k + j - 1]
      BY <1>3, <2>1
    <2>4. s[k + j - 1] = s[i] /\ c[i + 1 - Len(ab)] = c[j]
      BY <2>1
    <2> QED
      BY <2>2, <2>3, <2>4
  <1> QED
    BY <1>6, <1>7, <1>8, <1>9, <1>10, <1>11 DEF n

(* What is inserted comes after all that are not greater, and before all   *)
(* that are.                                                               *)
LEMMA PlaceSplits ==
    ASSUME NEW n \in Nat, NEW desc \in [1 .. n -> BOOLEAN], NEW S, NEW s \in Seq(S), Sorted(desc, s),
           \A i \in 1 .. Len(s) : s[i].ranks \in Ranks(n), NEW item, item.ranks \in Ranks(n), NEW k, k = Place(desc, s, item)
    PROVE  /\ k \in 1 .. Len(s) + 1
           /\ \A i \in 1 .. k - 1 : ~Precedes(desc, item.ranks, s[i].ranks)
           /\ \A i \in k .. Len(s) : Precedes(desc, item.ranks, s[i].ranks)
  <1> DEFINE m == Len(s)  D == {i \in DOMAIN s : ~Precedes(desc, item.ranks, s[i].ranks)}
  <1>1. m \in Nat /\ DOMAIN s = 1 .. m /\ item.ranks \in Ranks(n) /\ \A i \in 1 .. m : s[i].ranks \in Ranks(n)
    BY LenProperties
  <1>2. k = Cardinality(D) + 1
    BY DEF Place
  <1>3. \A i \in 1 .. m : i \in D <=> ~Precedes(desc, item.ranks, s[i].ranks)
    BY <1>1
  <1>4. D \in SUBSET (1 .. m)
    BY <1>1
  <1> HIDE DEF D, m
  <1>5. ASSUME NEW i \in D, NEW j \in 1 .. i
        PROVE  j \in D
    <2>1. i \in 1 .. m /\ j \in 1 .. m
      BY <1>1, <1>4
    <2>2. CASE j = i
      BY <2>2
    <2>3. CASE j < i
      <3>1. ~Precedes(desc, s[i].ranks, s[j].ranks)
        BY <1>1, <2>1, <2>3 DEF Sorted
      <3>2. ~Precedes(desc, item.ranks, s[i].ranks)
        BY <1>3, <2>1
      <3>3. s[i].ranks \in Ranks(n) /\ s[j].ranks \in Ranks(n)
        BY <1>1, <2>1
      <3>4. ~Precedes(desc, item.ranks, s[j].ranks)
        <4>1. Precedes(desc, s[i].ranks, item.ranks) \/ s[i].ranks = item.ranks
          BY <1>1, <3>2, <3>3, PrecedesIsTotal
        <4>2. Precedes(desc, s[i].ranks, item.ranks) /\ Precedes(desc, item.ranks, s[j].ranks)
              => Precedes(desc, s[i].ranks, s[j].ranks)
          BY <1>1, <3>3, PrecedesIsTotal
        <4> QED
          BY <3>1, <4>1, <4>2
      <3> QED
        BY <1>3, <2>1, <3>4
    <2> QED
      BY <2>1, <2>2, <2>3
  <1>6. Cardinality(D) \in 0 .. m /\ D = 1 .. Cardinality(D)
    BY <1>1, <1>4, <1>5, DownwardClosedIsInterval
  <1>7. k \in 1 .. m + 1 /\ D = 1 .. k - 1
    BY <1>1, <1>2, <1>6
  <1>8. \A i \in 1 .. k - 1 : ~Precedes(desc, item.ranks, s[i].ranks)
    <2>1. \A i \in 1 .. k - 1 : i \in 1 .. m /\ i \in D
      BY <1>1, <1>7
    <2> QED
      BY <1>3, <2>1
  <1>9. \A i \in k .. m : Precedes(desc, item.ranks, s[i].ranks)
    <2>1. \A i \in k .. m : i \in 1 .. m /\ i \notin D
      BY <1>1, <1>7
    <2> QED
      BY <1>3, <2>1
  <1> QED
    BY <1>7, <1>8, <1>9 DEF m

(* r has what s has, each as often. *)
Permutes(s, r, f) ==
    /\ f \in [1 .. Len(r) -> 1 .. Len(s)] /\ Len(r) = Len(s)
    /\ \A j \in 1 .. Len(s) : \E i \in 1 .. Len(r) : f[i] = j
    /\ \A i \in 1 .. Len(r) : r[i] = s[f[i]]

(* And it is in order, what is equal in the order of s, if there is one.   *)
Sortable(desc, s) == desc \in Seq(BOOLEAN) /\ \A i \in 1 .. Len(s) : s[i].ranks \in Ranks(Len(desc))
InOrder(desc, r, f) ==
    \A i, j \in 1 .. Len(r) : i < j =>
        ~Precedes(desc, r[j].ranks, r[i].ranks) /\ (Precedes(desc, r[i].ranks, r[j].ranks) \/ f[i] < f[j])
Sorts(desc, s, r, f) == Permutes(s, r, f) /\ (Sortable(desc, s) => InOrder(desc, r, f))

(* Where what stands at i stood before the insertion of another at k.      *)
Shifted(f, m, k) == [i \in 1 .. m + 1 |-> IF i < k THEN f[i] ELSE IF i = k THEN m + 1 ELSE f[i - 1]]

LEMMA InsertionShifts ==
    ASSUME NEW S, NEW l \in Seq(S), NEW item \in S, NEW k \in 1 .. Len(l) + 1, NEW r, r = InsertAt(l, k, item),
           NEW f, NEW m, m = Len(l), NEW g, g = Shifted(f, m, k), NEW i \in 1 .. m + 1
    PROVE  \/ i < k /\ i \in 1 .. m /\ r[i] = l[i] /\ g[i] = f[i]
           \/ i = k /\ r[i] = item /\ g[i] = m + 1
           \/ i > k /\ i - 1 \in 1 .. m /\ r[i] = l[i - 1] /\ g[i] = f[i - 1]
  <1>1. m \in Nat /\ k \in 1 .. m + 1
    BY LenProperties
  <1>2. /\ Len(r) = m + 1 /\ r[k] = item
        /\ \A j \in 1 .. k - 1 : r[j] = l[j]
        /\ \A j \in k .. m : r[j + 1] = l[j]
    <2> DEFINE t == InsertAt(l, k, item)
    <2>1. /\ Len(t) = Len(l) + 1 /\ t[k] = item
          /\ \A j \in 1 .. k - 1 : t[j] = l[j]
          /\ \A j \in k .. Len(l) : t[j + 1] = l[j]
      <3>1. l \in Seq(S) /\ item \in S /\ k \in 1 .. Len(l) + 1
        OBVIOUS
      <3> QED
        BY <3>1, InsertAtProperties, SMTT(30)
    <2>2. r = t
      OBVIOUS
    <2> QED
      BY <2>1, <2>2
  <1>3. g[i] = IF i < k THEN f[i] ELSE IF i = k THEN m + 1 ELSE f[i - 1]
    BY DEF Shifted
  <1>4. CASE i < k
    <2>1. i \in 1 .. k - 1 /\ i \in 1 .. m
      BY <1>1, <1>4
    <2> QED
      BY <1>2, <1>3, <1>4, <2>1
  <1>5. CASE i = k
    BY <1>1, <1>2, <1>3, <1>5
  <1>6. CASE i > k
    <2>1. i - 1 \in k .. m /\ i - 1 \in 1 .. m /\ i - 1 + 1 = i /\ ~(i < k) /\ i # k
      BY <1>1, <1>6
    <2>2. r[i - 1 + 1] = l[i - 1]
      BY <1>2, <2>1
    <2> QED
      BY <1>3, <1>6, <2>1, <2>2
  <1> QED
    BY <1>1, <1>4, <1>5, <1>6

LEMMA InsertionPermutes ==
    ASSUME NEW S, NEW s \in Seq(S), NEW l \in Seq(S), NEW f, Permutes(s, l, f), NEW item \in S,
           NEW k \in 1 .. Len(l) + 1
    PROVE  Permutes(Append(s, item), InsertAt(l, k, item), Shifted(f, Len(l), k))
  <1> DEFINE m == Len(l)  c == Append(s, item)  r == InsertAt(l, k, item)  g == Shifted(f, m, k)
  <1>1. /\ m \in Nat /\ Len(s) = m /\ Len(c) = m + 1 /\ c[m + 1] = item
        /\ \A i \in 1 .. m : c[i] = s[i]
    BY LenProperties, AppendProperties DEF Permutes
  <1>2. /\ f \in [1 .. m -> 1 .. m]
        /\ \A j \in 1 .. m : \E i \in 1 .. m : f[i] = j
        /\ \A i \in 1 .. m : l[i] = s[f[i]]
    BY <1>1 DEF Permutes
  <1>3. Len(r) = m + 1 /\ k \in 1 .. m + 1
    BY InsertAtProperties
  <1>4. ASSUME NEW i \in 1 .. m + 1
        PROVE  \/ i < k /\ i \in 1 .. m /\ r[i] = l[i] /\ g[i] = f[i]
               \/ i = k /\ r[i] = item /\ g[i] = m + 1
               \/ i > k /\ i - 1 \in 1 .. m /\ r[i] = l[i - 1] /\ g[i] = f[i - 1]
    <2>1. r = InsertAt(l, k, item) /\ m = Len(l) /\ g = Shifted(f, m, k)
      OBVIOUS
    <2> HIDE DEF m, r, g
    <2> QED
      BY <2>1, InsertionShifts
  <1>5. g = [i \in 1 .. m + 1 |-> g[i]]
    BY DEF Shifted
  <1> HIDE DEF m, c, r, g
  <1>6. g \in [1 .. m + 1 -> 1 .. m + 1]
    <2>1. ASSUME NEW i \in 1 .. m + 1
          PROVE  g[i] \in 1 .. m + 1
      <3>1. \A j \in 1 .. m : f[j] \in 1 .. m + 1
        BY <1>1, <1>2
      <3>2. m + 1 \in 1 .. m + 1
        BY <1>1
      <3> QED
        BY <1>4, <3>1, <3>2
    <2> QED
      BY <1>5, <2>1
  <1>7. ASSUME NEW j \in 1 .. m + 1
        PROVE  \E i \in 1 .. m + 1 : g[i] = j
    <2>1. CASE j = m + 1
      BY <1>1, <1>3, <1>4, <2>1
    <2>2. CASE j # m + 1
      <3>0. j \in 1 .. m
        BY <1>1, <2>2
      <3>1. PICK i \in 1 .. m : f[i] = j
        BY <1>2, <3>0
      <3>2. CASE i < k
        <4>1. i \in 1 .. m + 1 /\ g[i] = f[i]
          BY <1>1, <1>3, <1>4, <3>2
        <4> QED
          BY <3>1, <4>1
      <3>3. CASE ~(i < k)
        <4>1. i + 1 \in 1 .. m + 1 /\ ~(i + 1 < k) /\ i + 1 # k /\ i + 1 - 1 = i
          BY <1>1, <1>3, <3>3
        <4>2. g[i + 1] = f[i + 1 - 1]
          BY <1>4, <4>1
        <4> QED
          BY <3>1, <4>1, <4>2
      <3> QED
        BY <3>2, <3>3
    <2> QED
      BY <2>1, <2>2
  <1>8. ASSUME NEW i \in 1 .. m + 1
        PROVE  r[i] = c[g[i]]
    <2>1. \A j \in 1 .. m : f[j] \in 1 .. m /\ l[j] = c[f[j]]
      BY <1>1, <1>2
    <2> QED
      BY <1>1, <1>4, <2>1
  <1>9. Permutes(c, r, g)
    BY <1>1, <1>3, <1>6, <1>7, <1>8 DEF Permutes
  <1> QED
    BY <1>9 DEF c, r, g, m

LEMMA InsertionOrders ==
    ASSUME NEW n \in Nat, NEW desc \in [1 .. n -> BOOLEAN], NEW S, NEW l \in Seq(S), NEW f \in [1 .. Len(l) -> 1 .. Len(l)],
           \A i \in 1 .. Len(l) : l[i].ranks \in Ranks(n), InOrder(desc, l, f), NEW item \in S, item.ranks \in Ranks(n)
    PROVE  InOrder(desc, Inserted(desc, l, item), Shifted(f, Len(l), Place(desc, l, item)))
  <1> DEFINE m == Len(l)  k == Place(desc, l, item)  r == Inserted(desc, l, item)  g == Shifted(f, m, k)
  <1>1. m \in Nat /\ DOMAIN l = 1 .. m
    BY LenProperties
  <1>2. \A i, j \in 1 .. m : i < j =>
              ~Precedes(desc, l[j].ranks, l[i].ranks) /\ (Precedes(desc, l[i].ranks, l[j].ranks) \/ f[i] < f[j])
    BY DEF InOrder
  <1>3. Sorted(desc, l)
    BY <1>1, <1>2 DEF Sorted
  <1>4. /\ k \in 1 .. m + 1
        /\ \A i \in 1 .. k - 1 : ~Precedes(desc, item.ranks, l[i].ranks)
        /\ \A i \in k .. m : Precedes(desc, item.ranks, l[i].ranks)
    <2>1. k = Place(desc, l, item)
      OBVIOUS
    <2> HIDE DEF k
    <2> QED
      BY <1>3, <2>1, PlaceSplits
  <1>5. Len(r) = m + 1 /\ r = InsertAt(l, k, item)
    <2> HIDE DEF k
    <2>1. r = InsertAt(l, k, item)
      BY DEF Inserted, k
    <2> QED
      BY <1>4, <2>1, InsertAtProperties
  <1>6. ASSUME NEW i \in 1 .. m + 1
        PROVE  \/ i < k /\ i \in 1 .. m /\ r[i] = l[i] /\ g[i] = f[i]
               \/ i = k /\ r[i] = item /\ g[i] = m + 1
               \/ i > k /\ i - 1 \in 1 .. m /\ r[i] = l[i - 1] /\ g[i] = f[i - 1]
    <2>1. m = Len(l) /\ g = Shifted(f, m, k)
      OBVIOUS
    <2>2. k \in 1 .. Len(l) + 1 /\ r = InsertAt(l, k, item)
      BY <1>4, <1>5
    <2> HIDE DEF m, r, g, k
    <2> QED
      BY <2>1, <2>2, InsertionShifts
  <1> HIDE DEF m, k, r, g
  <1>7. ASSUME NEW i \in 1 .. m + 1
        PROVE  \/ i < k /\ i \in 1 .. m /\ r[i] = l[i] /\ g[i] = f[i] /\ ~Precedes(desc, item.ranks, l[i].ranks)
               \/ i = k /\ r[i] = item /\ g[i] = m + 1
               \/ i > k /\ i - 1 \in 1 .. m /\ r[i] = l[i - 1] /\ g[i] = f[i - 1] /\ Precedes(desc, item.ranks, l[i - 1].ranks)
    <2>1. i < k => i \in 1 .. k - 1
      BY <1>1, <1>4
    <2>2. i > k => i - 1 \in k .. m
      BY <1>1, <1>4
    <2> QED
      BY <1>4, <1>6, <2>1, <2>2
  <1>8. ASSUME NEW i \in 1 .. m + 1, NEW j \in 1 .. m + 1, i < j
         PROVE  ~Precedes(desc, r[j].ranks, r[i].ranks) /\ (Precedes(desc, r[i].ranks, r[j].ranks) \/ g[i] < g[j])
    <2>0. item.ranks \in Ranks(n) /\ \A x \in 1 .. m : l[x].ranks \in Ranks(n)
      BY DEF m
    <2>1. \A u, v \in Ranks(n) : Precedes(desc, u, v) => ~Precedes(desc, v, u)
      <3> SUFFICES ASSUME NEW u \in Ranks(n), NEW v \in Ranks(n), Precedes(desc, u, v), Precedes(desc, v, u)
                   PROVE  FALSE
        OBVIOUS
      <3>1. Precedes(desc, u, u) /\ ~Precedes(desc, u, u)
        BY PrecedesIsTotal
      <3> QED
        BY <3>1
    <2>2. \A x \in 1 .. m : f[x] \in 1 .. m
      BY DEF m
    <2>3. CASE j < k
      <3>1. j \in 1 .. m /\ r[j] = l[j] /\ g[j] = f[j]
        BY <1>4, <1>7, <2>3
      <3>2. i < k
        BY <1>4, <1>8, <2>3
      <3>3. i \in 1 .. m /\ r[i] = l[i] /\ g[i] = f[i]
        BY <1>4, <1>7, <3>2
      <3> QED
        BY <1>2, <1>8, <3>1, <3>3
    <2>4. CASE j = k
      <3>1. /\ i \in 1 .. m /\ r[i] = l[i] /\ r[j] = item /\ g[i] = f[i] /\ g[j] = m + 1
            /\ ~Precedes(desc, item.ranks, l[i].ranks)
        BY <1>4, <1>7, <1>8, <2>4
      <3>2. f[i] < m + 1
        BY <1>1, <2>2, <3>1
      <3> QED
        BY <3>1, <3>2
    <2>5. CASE j > k /\ i = k
      <3>1. /\ j - 1 \in 1 .. m /\ r[j] = l[j - 1] /\ r[i] = item /\ Precedes(desc, item.ranks, l[j - 1].ranks)
        BY <1>4, <1>7, <2>5
      <3>2. ~Precedes(desc, l[j - 1].ranks, item.ranks)
        BY <2>0, <2>1, <3>1
      <3> QED
        BY <3>1, <3>2
    <2>6. CASE j > k /\ i < k
      <3>1. /\ j - 1 \in 1 .. m /\ r[j] = l[j - 1] /\ g[j] = f[j - 1]
            /\ i \in 1 .. m /\ r[i] = l[i] /\ g[i] = f[i] /\ i < j - 1
        BY <1>4, <1>7, <2>6
      <3> QED
        BY <1>2, <3>1
    <2>7. CASE j > k /\ i > k
      <3>1. /\ j - 1 \in 1 .. m /\ r[j] = l[j - 1] /\ g[j] = f[j - 1]
            /\ i - 1 \in 1 .. m /\ r[i] = l[i - 1] /\ g[i] = f[i - 1] /\ i - 1 < j - 1
        BY <1>4, <1>7, <1>8, <2>7
      <3> QED
        BY <1>2, <3>1
    <2> QED
      BY <1>1, <1>4, <2>3, <2>4, <2>5, <2>6, <2>7
  <1>9. InOrder(desc, r, g)
    BY <1>1, <1>5, <1>8 DEF InOrder
  <1> QED
    BY <1>9 DEF r, g, m, k

LEMMA PlaceIsInTheList ==
    ASSUME NEW S, NEW s \in Seq(S), NEW desc, NEW item
    PROVE  Place(desc, s, item) \in 1 .. Len(s) + 1
  <1> DEFINE D == {i \in DOMAIN s : ~Precedes(desc, item.ranks, s[i].ranks)}
  <1>1. Len(s) \in Nat /\ DOMAIN s = 1 .. Len(s)
    BY LenProperties
  <1>2. IsFiniteSet(1 .. Len(s)) /\ Cardinality(1 .. Len(s)) = Len(s)
    BY <1>1, FS_Interval
  <1>3. D \in SUBSET (1 .. Len(s))
    BY <1>1
  <1> HIDE DEF D
  <1>4. Cardinality(D) \in Nat /\ Cardinality(D) <= Len(s)
    BY <1>2, <1>3, FS_Subset, FS_CardinalityType
  <1> QED
    BY <1>1, <1>4 DEF Place, D

(* multiset::insert keeps a list sorted, stably.                           *)
LEMMA InsertionSorts ==
    ASSUME NEW desc, NEW S, NEW s \in Seq(S), NEW l \in Seq(S), NEW f, Sorts(desc, s, l, f), NEW item \in S
    PROVE  /\ Inserted(desc, l, item) \in Seq(S)
           /\ \E g : Sorts(desc, Append(s, item), Inserted(desc, l, item), g)
  <1> DEFINE m == Len(l)  c == Append(s, item)  k == Place(desc, l, item)  r == Inserted(desc, l, item)
             g == Shifted(f, m, k)
  <1>1. /\ m \in Nat /\ Len(s) = m /\ Len(c) = m + 1 /\ c[m + 1] = item
        /\ \A i \in 1 .. m : c[i] = s[i]
    BY LenProperties, AppendProperties DEF Sorts, Permutes
  <1>2. k \in 1 .. m + 1
    BY PlaceIsInTheList
  <1>3. r = InsertAt(l, k, item)
    BY DEF Inserted
  <1>4. r \in Seq(S)
    <2> HIDE DEF k, r
    <2> QED
      BY <1>2, <1>3, InsertAtProperties
  <1>5. Permutes(c, r, g)
    <2>1. Permutes(s, l, f)
      BY DEF Sorts
    <2> HIDE DEF k, r
    <2> QED
      BY <1>2, <1>3, <2>1, InsertionPermutes
  <1>6. ASSUME Sortable(desc, c)
        PROVE  InOrder(desc, r, g)
    <2> DEFINE n == Len(desc)
    <2>1. n \in Nat /\ desc \in [1 .. n -> BOOLEAN] /\ \A i \in 1 .. m + 1 : c[i].ranks \in Ranks(n)
      <3> HIDE DEF c, m
      <3> QED
        BY <1>1, <1>6, LenProperties DEF Sortable
    <2>2. item.ranks \in Ranks(n) /\ \A i \in 1 .. m : s[i].ranks \in Ranks(n)
      <3> HIDE DEF c, m, n
      <3>1. m + 1 \in 1 .. m + 1 /\ \A i \in 1 .. m : i \in 1 .. m + 1
        BY <1>1
      <3> QED
        BY <1>1, <2>1, <3>1
    <2>3. Sortable(desc, s)
      <3> HIDE DEF c, m
      <3> QED
        BY <1>1, <1>6, <2>2 DEF Sortable
    <2>4. f \in [1 .. m -> 1 .. m] /\ \A i \in 1 .. m : l[i] = s[f[i]]
      BY <1>1 DEF Sorts, Permutes
    <2>5. \A i \in 1 .. m : l[i].ranks \in Ranks(n)
      <3> HIDE DEF m, n
      <3> QED
        BY <2>2, <2>4
    <2>6. InOrder(desc, l, f)
      BY <2>3 DEF Sorts
    <2> HIDE DEF n
    <2> QED
      BY <2>1, <2>2, <2>4, <2>5, <2>6, InsertionOrders
  <1>7. Sorts(desc, c, r, g)
    <2> HIDE DEF c, r, g
    <2> QED
      BY <1>5, <1>6 DEF Sorts
  <1> QED
    BY <1>4, <1>7

-----------------------------------------------------------------------------
(* An evaluation.  Entries with a number of solutions each, and a list of  *)
(* such entries.                                                           *)
HasValues(s) == \E S : s \in Seq(S) /\ \A entry \in S : entry.value \in Nat
ListsValues(s) == \E S : s \in Seq(S) /\ \A item \in S : item.of.value \in Nat

LEMMA FirstHasValue ==
    /\ \A s : HasValues(s) /\ s # <<>> => Head(s).value \in Nat /\ HasValues(Tail(s))
    /\ \A s : ListsValues(s) /\ s # <<>> => Head(s).of.value \in Nat /\ ListsValues(Tail(s))
  <1>1. \A S : \A s \in Seq(S) : s # <<>> => Head(s) \in S /\ Tail(s) \in Seq(S)
    BY HeadTailProperties
  <1> QED
    BY <1>1 DEF HasValues, ListsValues

LEMMA InsertedHasValues ==
    ASSUME NEW s, ListsValues(s), NEW desc, NEW item, item.of.value \in Nat
    PROVE  ListsValues(Inserted(desc, s, item))
  <1>1. PICK S : s \in Seq(S) /\ \A e \in S : e.of.value \in Nat
    BY DEF ListsValues
  <1> DEFINE T == S \cup {item}
  <1>2. s \in Seq(T) /\ item \in T /\ \A e \in T : e.of.value \in Nat
    BY <1>1, SequencesOfMore
  <1> HIDE DEF T
  <1>3. InsertAt(s, Place(desc, s, item), item) \in Seq(T)
    BY <1>2, PlaceIsInTheList, InsertAtProperties
  <1> QED
    BY <1>2, <1>3 DEF Inserted, ListsValues

LEMMA EntriesHaveValues ==
    ASSUME where \in Wheres
    PROVE  HasValues(Entries)
  <1>0. where \in Seq(Range(where)) /\ \A i \in DOMAIN where : where[i].value \in Nat
    BY InputsAssumption DEF IsSequence
  <1>1. where \in Seq(Range(where)) /\ Total(where) \in Nat /\ \A i \in DOMAIN where : where[i].value \in Nat
    BY <1>0, TotalOfAll
  <1>2. CASE query.tracked = {}
    <2> DEFINE entry == [key |-> <<>>, value |-> Total(where)]
    <2>1. Entries = <<entry>> /\ entry.value \in Nat
      BY <1>1, <1>2 DEF Entries
    <2> HIDE DEF entry
    <2>2. Entries \in Seq({entry}) /\ \A e \in {entry} : e.value \in Nat
      BY <2>1
    <2> QED
      BY <2>2 DEF HasValues
  <1>3. CASE query.tracked # {}
    <2> DEFINE S == {Tracking(where[i]) : i \in DOMAIN where}
    <2>1. DOMAIN where = 1 .. Len(where) /\ Len(where) \in Nat
      BY <1>1, LenProperties
    <2>2. Entries = [i \in 1 .. Len(where) |-> Tracking(where[i])]
      BY <1>3, <2>1 DEF Entries
    <2>3. \A i \in 1 .. Len(where) : Tracking(where[i]) \in S
      BY <2>1
    <2>4. \A entry \in S : entry.value \in Nat
      BY <1>1 DEF Tracking
    <2> HIDE DEF S
    <2>5. Entries \in [1 .. Len(where) -> S]
      BY <2>2, <2>3
    <2>6. Entries \in Seq(S)
      BY <2>1, <2>5, SeqDef
    <2> QED
      BY <2>4, <2>6 DEF HasValues
  <1> QED
    BY <1>2, <1>3

-----------------------------------------------------------------------------
(* The page of an evaluation agrees with what was yielded, and nothing is  *)
(* yielded when it has ended.                                              *)
EvaluationInv ==
    /\ syntax \in Queries /\ where \in Wheres
    /\ page.broken => phase = "done"
    /\ HasValues(remaining)
    /\ phase = "sort" => ListsValues(listed)
    /\ \E R : PageInv(syntax, R, given, page)

LEMMA YieldingKeeps ==
    ASSUME EvaluationInv, phase # "done",
           NEW row, NEW value \in Nat, Yield(row, value), UNCHANGED syntax
    PROVE  \E R : PageInv(syntax', R, given', page')
  <1>1. PICK R : PageInv(syntax, R, given, page)
    BY DEF EvaluationInv
  <1> DEFINE T == R \cup {row}
  <1>2. R \subseteq T /\ row \in T
    OBVIOUS
  <1> HIDE DEF T
  <1>3. PageInv(syntax, T, given, page)
    BY <1>1, <1>2, RowsOfMore
  <1>4. Modifiers(syntax) /\ ~page.broken
    BY InputsAssumption DEF EvaluationInv, Modifiers
  <1>5. PageInv(syntax, T, Append(given, [row |-> row, value |-> value]), Yielded(syntax, page, row, value))
    BY <1>2, <1>3, <1>4, YieldKeeps
  <1>6. given' = Append(given, [row |-> row, value |-> value]) /\ page' = Yielded(syntax, page, row, value)
    BY DEF Yield
  <1>7. PageInv(syntax', T, given', page')
    BY <1>5, <1>6
  <1> QED
    BY <1>7

LEMMA ProjectingKeeps ==
    ASSUME EvaluationInv, phase # "done",
           NEW entry, entry.value \in Nat, ProjectAndYield(entry), UNCHANGED syntax
    PROVE  \E R : PageInv(syntax', R, given', page')
  <1>1. PICK exprs : Yield(Values(exprs), entry.value)
    BY DEF ProjectAndYield
  <1> DEFINE row == Values(exprs)  value == entry.value
  <1>2. Yield(row, value) /\ value \in Nat
    BY <1>1
  <1> HIDE DEF row, value
  <1> QED
    BY <1>2, YieldingKeeps

LEMMA EvaluationInvHolds == Spec => []EvaluationInv
  <1>1. Init => EvaluationInv
    <2> SUFFICES ASSUME Init
                 PROVE  EvaluationInv
      OBVIOUS
    <2>1. syntax \in Queries /\ where \in Wheres /\ phase = "parse" /\ remaining = <<>> /\ given = <<>> /\ page = NoPage
      BY DEF Init
    <2>2. HasValues(remaining)
      <3>1. remaining \in Seq({}) /\ \A entry \in {} : entry.value \in Nat
        BY <2>1
      <3> QED
        BY <3>1 DEF HasValues
    <2>3. Modifiers(syntax)
      BY <2>1, InputsAssumption DEF Modifiers
    <2>4. PageInv(syntax, {}, given, page)
      BY <2>1, <2>3, NothingYielded
    <2> QED
      BY <2>1, <2>2, <2>4 DEF EvaluationInv, NoPage
  <1>2. EvaluationInv /\ [Next]_vars => EvaluationInv'
    <2> SUFFICES ASSUME EvaluationInv, [Next]_vars
                 PROVE  EvaluationInv'
      OBVIOUS
    <2> USE DEF EvaluationInv
    <2>1. CASE Parse
      BY <2>1 DEF Parse
    <2>2. CASE Evaluate
      <3>1. /\ remaining' = Entries /\ listed' = <<>> /\ page' = NoPage /\ given' = <<>>
            /\ syntax' = syntax /\ where' = where
        BY <2>2 DEF Evaluate
      <3>2. HasValues(Entries)
        BY EntriesHaveValues
      <3>3. ListsValues(<<>>)
        <4> DEFINE none == {}
        <4>1. <<>> \in Seq(none)
          OBVIOUS
        <4>2. \A item \in none : item.of.value \in Nat
          OBVIOUS
        <4> HIDE DEF none
        <4> QED
          BY <4>1, <4>2 DEF ListsValues
      <3>4. Modifiers(syntax)
        BY InputsAssumption DEF Modifiers
      <3>5. PageInv(syntax, {}, <<>>, NoPage)
        BY <3>4, NothingYielded
      <3>6. ~NoPage.broken
        BY DEF NoPage
      <3> QED
        BY <3>1, <3>2, <3>3, <3>5, <3>6
    <2>3. CASE Project
      <3>1. /\ phase = "project" /\ remaining # <<>> /\ remaining' = Tail(remaining)
            /\ ProjectAndYield(Head(remaining)) /\ syntax' = syntax /\ where' = where
            /\ phase' = IF page'.broken \/ remaining' = <<>> THEN "done" ELSE phase
        BY <2>3 DEF Project, Consume, Ends
      <3>2. Head(remaining).value \in Nat /\ HasValues(Tail(remaining))
        BY <3>1, FirstHasValue
      <3>3. \E R : PageInv(syntax', R, given', page')
        <4> PICK entry : entry = Head(remaining)
          OBVIOUS
        <4>1. entry.value \in Nat /\ ProjectAndYield(entry)
          BY <3>1, <3>2
        <4> QED
          BY <3>1, <4>1, ProjectingKeeps
      <3> QED
        BY <3>1, <3>2, <3>3
    <2>4. CASE Sort
      <3>1. PICK item : /\ phase = "sort" /\ remaining # <<>> /\ remaining' = Tail(remaining)
                        /\ item.of = Head(remaining) /\ listed' = Inserted(query.ordering_type, listed, item)
                        /\ UNCHANGED <<syntax, where, phase, page, given>>
        BY <2>4 DEF Sort, Consume
      <3>2. Head(remaining).value \in Nat /\ HasValues(Tail(remaining))
        BY <3>1, FirstHasValue
      <3>3. ListsValues(listed')
        BY <3>1, <3>2, InsertedHasValues
      <3> QED
        BY <3>1, <3>2, <3>3
    <2>5. CASE ProjectSorted
      <3>1. /\ phase = "sort" /\ listed # <<>> /\ listed' = Tail(listed) /\ remaining' = remaining
            /\ ProjectAndYield(Head(listed).of) /\ syntax' = syntax /\ where' = where
            /\ phase' = IF page'.broken \/ listed' = <<>> THEN "done" ELSE phase
        BY <2>5 DEF ProjectSorted, Ends
      <3>2. Head(listed).of.value \in Nat /\ ListsValues(Tail(listed))
        BY <3>1, FirstHasValue
      <3>3. \E R : PageInv(syntax', R, given', page')
        <4> PICK entry : entry = Head(listed).of
          OBVIOUS
        <4>1. entry.value \in Nat /\ ProjectAndYield(entry)
          BY <3>1, <3>2
        <4> QED
          BY <3>1, <4>1, ProjectingKeeps
      <3> QED
        BY <3>1, <3>2, <3>3
    <2>6. CASE Aggregating
      <3>1. /\ phase = "implicit" /\ remaining # <<>> /\ remaining' = Tail(remaining)
            /\ UNCHANGED <<syntax, where, phase, page, given>>
        BY <2>6 DEF Aggregating, Consume
      <3> QED
        BY <3>1, FirstHasValue
    <2>7. CASE YieldAggregate
      <3>1. /\ phase = "implicit" /\ Yield(Values(solution_expressions), 1)
            /\ phase' = "done" /\ UNCHANGED <<syntax, where, remaining>>
        BY <2>7 DEF YieldAggregate, Ends
      <3>2. \E R : PageInv(syntax', R, given', page')
        <4> PICK row : row = Values(solution_expressions)
          OBVIOUS
        <4>1. Yield(row, 1) /\ 1 \in Nat
          BY <3>1
        <4> QED
          BY <3>1, <4>1, YieldingKeeps
      <3> QED
        BY <3>1, <3>2
    <2>8. CASE Grouping
      <3>1. /\ phase = "explicit" /\ remaining # <<>> /\ remaining' = Tail(remaining)
            /\ UNCHANGED <<syntax, where, phase, page, given>>
        BY <2>8 DEF Grouping, Consume
      <3> QED
        BY <3>1, FirstHasValue
    <2>9. CASE ListGroups
      <3>1. /\ phase = "explicit" /\ phase' \in {"done", "groups"}
            /\ UNCHANGED <<syntax, where, remaining, page, given>>
        BY <2>9 DEF ListGroups
      <3> QED
        BY <3>1
    <2>10. CASE YieldGroup
      <3>1. /\ phase = "groups" /\ Yield(Values(groups[Head(listed).of].solution), 1)
            /\ phase' \in {"done", "groups"} /\ (page'.broken => phase' = "done")
            /\ UNCHANGED <<syntax, where, remaining>>
        BY <2>10 DEF YieldGroup, Ends
      <3>2. \E R : PageInv(syntax', R, given', page')
        <4> PICK row : row = Values(groups[Head(listed).of].solution)
          OBVIOUS
        <4>1. Yield(row, 1) /\ 1 \in Nat
          BY <3>1
        <4> QED
          BY <3>1, <4>1, YieldingKeeps
      <3> QED
        BY <3>1, <3>2
    <2>11. CASE Exhausted
      BY <2>11 DEF Exhausted
    <2>12. CASE UNCHANGED vars
      BY <2>12 DEF vars
    <2> QED
      BY <2>1, <2>2, <2>3, <2>4, <2>5, <2>6, <2>7, <2>8, <2>9, <2>10, <2>11, <2>12 DEF Next
  <1> QED
    BY <1>1, <1>2, PTL DEF Spec

(* Without DISTINCT, the answers are at every moment of an evaluation the  *)
(* page of the solutions in the entries that its operator yielded,         *)
(* wherever OFFSET and LIMIT cut entries apart.                            *)
PageIsTheSlice == ~syntax.distinct => IsPage(syntax, given, page.answers)
THEOREM PagesAreSlices == Spec => []PageIsTheSlice
  <1>1. EvaluationInv => PageIsTheSlice
    BY PageOfIsPage DEF EvaluationInv, PageInv, PageIsTheSlice
  <1> QED
    BY <1>1, EvaluationInvHolds, PTL

(* With DISTINCT, they are the page of the rows that were yielded, each    *)
(* counted once, however often it came.                                    *)
PageIsDistinct ==
    syntax.distinct => \E first \in Seq([row : Rowset(given), value : {1}]) :
                           Distinct(given, first) /\ IsPage(syntax, first, page.answers)
THEOREM DistinctPagesAreSlices == Spec => []PageIsDistinct
  <1>1. EvaluationInv => PageIsDistinct
    <2> SUFFICES ASSUME EvaluationInv, syntax.distinct
                 PROVE  \E first \in Seq([row : Rowset(given), value : {1}]) :
                            Distinct(given, first) /\ IsPage(syntax, first, page.answers)
      BY DEF PageIsDistinct
    <2>1. PICK R : PageInv(syntax, R, given, page)
      BY DEF EvaluationInv
    <2>2. PICK first \in Seq(Counts(R)) : Distinct(given, first) /\ PageOf(syntax, first, page)
      BY <2>1 DEF PageInv
    <2> DEFINE S == [row : Rowset(given), value : {1}]
    <2>3. Len(first) \in Nat /\ DOMAIN first = 1 .. Len(first) /\ first = [i \in 1 .. Len(first) |-> first[i]]
          /\ \A i \in 1 .. Len(first) : first[i] \in Counts(R)
      BY LenProperties, ElementOfSeq
    <2>4. ASSUME NEW i \in 1 .. Len(first)
          PROVE  first[i] \in S
      <3>1. first[i].row \in Rowset(given) /\ first[i].value = 1
        BY <2>2, <2>3 DEF Distinct, Rowset
      <3>2. first[i] \in Counts(R)
        BY <2>3
      <3> QED
        BY <3>1, <3>2 DEF Counts
    <2> HIDE DEF S
    <2>5. first \in [1 .. Len(first) -> S]
      BY <2>3, <2>4
    <2>6. first \in Seq(S)
      BY <2>3, <2>5, SeqDef
    <2> QED
      BY <2>2, <2>6, PageOfIsPage DEF S
  <1> QED
    BY <1>1, EvaluationInvHolds, PTL

-----------------------------------------------------------------------------
(* Types.  What is made of a sequence, element by element, is as long.     *)
Sequence(s) == \E S : s \in Seq(S)

LEMMA SequenceShape ==
    ASSUME NEW s, Sequence(s)
    PROVE  /\ Len(s) \in Nat /\ DOMAIN s = 1 .. Len(s) /\ s = [i \in 1 .. Len(s) |-> s[i]]
           /\ s = <<>> <=> Len(s) = 0
  <1>1. PICK S : s \in Seq(S)
    BY DEF Sequence
  <1> QED
    BY <1>1, LenProperties, EmptySeq

LEMMA TuplesAreSequences ==
    ASSUME NEW n \in Nat, NEW s, s = [i \in 1 .. n |-> s[i]]
    PROVE  Sequence(s) /\ Len(s) = n
  <1> DEFINE S == {s[i] : i \in 1 .. n}
  <1>1. \A i \in 1 .. n : s[i] \in S
    OBVIOUS
  <1> HIDE DEF S
  <1>2. s \in [1 .. n -> S]
    BY <1>1
  <1>3. s \in Seq(S)
    BY <1>2, SeqDef
  <1>4. Len(s) = n
    BY <1>2, <1>3, LenProperties
  <1>5. Sequence(s)
    BY <1>3 DEF Sequence
  <1> QED
    BY <1>4, <1>5

LEMMA TailsAreSequences ==
    ASSUME NEW s, Sequence(s), s # <<>>
    PROVE  /\ Sequence(Tail(s)) /\ Len(s) \in Nat \ {0} /\ Len(Tail(s)) = Len(s) - 1 /\ Head(s) = s[1]
           /\ \A i \in 1 .. Len(s) - 1 : Tail(s)[i] = s[i + 1]
  <1>1. PICK S : s \in Seq(S)
    BY DEF Sequence
  <1> QED
    BY <1>1, LenProperties, HeadTailProperties, EmptySeq DEF Sequence

LEMMA AppendedSequences ==
    ASSUME NEW s, Sequence(s), NEW e
    PROVE  /\ Sequence(Append(s, e)) /\ Len(s) \in Nat /\ Len(Append(s, e)) = Len(s) + 1 /\ Append(s, e)[Len(s) + 1] = e
           /\ \A i \in 1 .. Len(s) : Append(s, e)[i] = s[i]
  <1>1. PICK S : s \in Seq(S)
    BY DEF Sequence
  <1> DEFINE T == S \cup {e}
  <1>2. S \subseteq T /\ e \in T
    OBVIOUS
  <1> HIDE DEF T
  <1>3. s \in Seq(T)
    BY <1>1, <1>2, SequencesOfMore
  <1> QED
    BY <1>2, <1>3, LenProperties, AppendProperties DEF Sequence

LEMMA MapsKeepLength ==
    ASSUME NEW s, Sequence(s)
    PROVE  /\ Sequence(CloneAll(s)) /\ Len(CloneAll(s)) = Len(s)
           /\ Sequence(Values(s)) /\ Len(Values(s)) = Len(s)
           /\ \A key : Sequence(UpdateAll(s, key)) /\ Len(UpdateAll(s, key)) = Len(s)
  <1>1. Len(s) \in Nat /\ DOMAIN s = 1 .. Len(s)
    BY SequenceShape
  <1>2. CloneAll(s) = [i \in 1 .. Len(s) |-> CloneAll(s)[i]]
    BY <1>1 DEF CloneAll
  <1>3. Values(s) = [i \in 1 .. Len(s) |-> Values(s)[i]]
    BY <1>1 DEF Values
  <1>4. \A key : UpdateAll(s, key) = [i \in 1 .. Len(s) |-> UpdateAll(s, key)[i]]
    BY <1>1 DEF UpdateAll
  <1>5. ASSUME NEW key
        PROVE  Sequence(UpdateAll(s, key)) /\ Len(UpdateAll(s, key)) = Len(s)
    BY <1>1, <1>4, TuplesAreSequences
  <1> QED
    BY <1>1, <1>2, <1>3, <1>5, TuplesAreSequences

(* An entry of several solutions is counted that often. *)
UpdatedUpTo(exprs, key, n, t) == t = [i \in 0 .. n |-> IF i = 0 THEN exprs ELSE UpdateAll(t[i - 1], key)]
LEMMA UpdatesExist ==
    ASSUME NEW exprs, NEW key, NEW v \in Nat, NEW n \in 0 .. v
    PROVE  \E t : UpdatedUpTo(exprs, key, n, t)
  <1> USE DEF UpdatedUpTo
  <1> DEFINE Updated(k, t) == UpdatedUpTo(exprs, key, k, t)
             T == {k \in 0 .. v : ~\E t : Updated(k, t)}
  <1>1. SUFFICES ASSUME T # {}
                 PROVE  FALSE
    OBVIOUS
  <1>2. PICK k \in T : \A j \in T : k <= j
    <2>1. T \in SUBSET Nat
      OBVIOUS
    <2> HIDE DEF T
    <2> QED
      BY <1>1, <2>1, LeastElement
  <1>3. k \in 0 .. v /\ ~\E t : Updated(k, t)
    OBVIOUS
  <1>4. CASE k = 0
    <2>1. \A i \in 0 .. 0 : i = 0
      OBVIOUS
    <2>2. Updated(0, [i \in 0 .. 0 |-> exprs])
      BY <2>1
    <2> QED
      BY <1>3, <1>4, <2>2
  <1>5. CASE k # 0
    <2>1. k - 1 \in 0 .. v /\ ~(k <= k - 1) /\ k \in Nat
      BY <1>3, <1>5
    <2>2. PICK t : Updated(k - 1, t)
      <3>1. k - 1 \notin T
        BY <1>2, <2>1
      <3> QED
        BY <2>1, <3>1
    <2> DEFINE u == [i \in 0 .. k |-> IF i = k THEN UpdateAll(t[k - 1], key) ELSE t[i]]
    <2>3. ASSUME NEW i \in 0 .. k
          PROVE  u[i] = IF i = 0 THEN exprs ELSE UpdateAll(u[i - 1], key)
      <3>1. \A j \in 0 .. k - 1 : t[j] = (IF j = 0 THEN exprs ELSE UpdateAll(t[j - 1], key))
        BY <2>2
      <3>2. CASE i = k
        <4>1. k - 1 \in 0 .. k /\ k - 1 # k /\ k \in 0 .. k
          BY <2>1
        <4>2. u[i] = UpdateAll(t[k - 1], key) /\ u[k - 1] = t[k - 1]
          BY <3>2, <4>1
        <4> QED
          BY <1>5, <3>2, <4>2
      <3>3. CASE i # k
        <4>1. i \in 0 .. k - 1 /\ (i # 0 => i - 1 \in 0 .. k /\ i - 1 # k)
          BY <2>1, <3>3
        <4>2. u[i] = t[i] /\ (i # 0 => u[i - 1] = t[i - 1])
          BY <3>3, <4>1
        <4> QED
          BY <3>1, <4>1, <4>2
      <3> QED
        BY <3>2, <3>3
    <2>4. u = [i \in 0 .. k |-> u[i]]
      OBVIOUS
    <2> HIDE DEF u
    <2>5. u = [i \in 0 .. k |-> IF i = 0 THEN exprs ELSE UpdateAll(u[i - 1], key)]
      BY <2>3, <2>4
    <2> QED
      BY <1>3, <2>5
  <1> QED
    BY <1>4, <1>5

LEMMA UpdatesKeepLength ==
    ASSUME NEW exprs, Sequence(exprs), NEW entry, entry.value \in Nat
    PROVE  Sequence(UpdateOften(exprs, entry)) /\ Len(UpdateOften(exprs, entry)) = Len(exprs)
  <1> DEFINE v == entry.value
             after == CHOOSE after : after = [i \in 0 .. v |-> IF i = 0 THEN exprs ELSE UpdateAll(after[i - 1], entry.key)]
  <1>1. \E t : UpdatedUpTo(exprs, entry.key, v, t)
    <2>1. v \in Nat /\ v \in 0 .. v
      OBVIOUS
    <2> HIDE DEF v
    <2> QED
      BY <2>1, UpdatesExist
  <1>2. after = [i \in 0 .. v |-> IF i = 0 THEN exprs ELSE UpdateAll(after[i - 1], entry.key)]
    BY <1>1 DEF UpdatedUpTo
  <1>3. UpdateOften(exprs, entry) = after[v]
    BY DEF UpdateOften
  <1> HIDE DEF after
  <1> DEFINE T == {i \in 0 .. v : ~(Sequence(after[i]) /\ Len(after[i]) = Len(exprs))}
  <1>4. ASSUME T # {}
        PROVE  FALSE
    <2>1. T \in SUBSET Nat
      OBVIOUS
    <2>2. PICK i \in T : \A j \in T : i <= j
      <3> HIDE DEF T
      <3> QED
        BY <1>4, <2>1, LeastElement
    <2>3. i \in 0 .. v /\ ~(Sequence(after[i]) /\ Len(after[i]) = Len(exprs))
      OBVIOUS
    <2>4. i # 0
      BY <1>2, <2>3
    <2>5. i - 1 \in 0 .. v /\ ~(i <= i - 1)
      BY <2>3, <2>4
    <2>6. Sequence(after[i - 1]) /\ Len(after[i - 1]) = Len(exprs)
      BY <2>2, <2>5
    <2>7. after[i] = UpdateAll(after[i - 1], entry.key)
      BY <1>2, <2>3, <2>4
    <2> QED
      BY <2>3, <2>6, <2>7, MapsKeepLength
  <1>5. v \in 0 .. v
    OBVIOUS
  <1> QED
    BY <1>3, <1>4, <1>5

-----------------------------------------------------------------------------
(* The query that is evaluated is the one that was parsed: only the        *)
(* expressions of its grouping key are updated, and stay as many.  So it   *)
(* goes through the same operator every time.                              *)
Keeps(q, parsed) ==
    /\ DOMAIN q = DOMAIN parsed
    /\ \A field \in DOMAIN parsed \ {"grouping_key"} : q[field] = parsed[field]
    /\ Sequence(q.grouping_key) /\ Len(q.grouping_key) = Len(parsed.grouping_key)
QueryInv ==
    /\ syntax \in Queries /\ where \in Wheres
    /\ phase \in Phases /\ evaluations \in 0 .. MaxEvaluations
    /\ evaluations = 0 <=> phase \in {"parse", "malformed", "ready"}
    /\ phase # "parse" => Keeps(query, QueryOf(syntax, where))
    /\ phase \in {"implicit", "explicit", "project", "sort"} => phase = Operator
    /\ phase = "groups" => Operator = "explicit"

(* What an evaluation uses of it stays. *)
SameQuery ==
    /\ query'.solution_mapping = query.solution_mapping /\ query'.solution_filters = query.solution_filters
    /\ query'.order_by = query.order_by /\ query'.ordering_type = query.ordering_type
    /\ query'.tracked = query.tracked

LEMMA ParsedFields ==
    ASSUME QueryInv, phase # "parse"
    PROVE  /\ {"solution_mapping", "solution_filters", "order_by", "ordering_type", "grouping_key", "aggregates", "tracked"}
                  \subseteq DOMAIN query
           /\ Sequence(query.solution_mapping) /\ Sequence(query.solution_filters)
           /\ Sequence(query.order_by) /\ Sequence(query.grouping_key)
  <1>1. PICK parsed : parsed = QueryOf(syntax, where)
    OBVIOUS
  <1>2. IsQuery(parsed) /\ Keeps(query, parsed)
    BY <1>1, InputsAssumption DEF QueryInv
  <1>3. /\ {"solution_mapping", "solution_filters", "order_by", "ordering_type", "grouping_key", "aggregates", "tracked"}
               \subseteq DOMAIN query
        /\ query.solution_mapping = parsed.solution_mapping /\ query.solution_filters = parsed.solution_filters
        /\ query.order_by = parsed.order_by /\ Sequence(query.grouping_key)
    BY <1>2 DEF IsQuery, Keeps
  <1>4. Sequence(parsed.solution_mapping) /\ Sequence(parsed.solution_filters) /\ Sequence(parsed.order_by)
    BY <1>2 DEF IsQuery, IsSequence, Sequence
  <1> QED
    BY <1>3, <1>4

LEMMA GroupingKeepsQuery ==
    ASSUME QueryInv, Grouping
    PROVE  /\ SameQuery /\ Keeps(query', QueryOf(syntax, where))
           /\ Operator' = Operator
  <1>1. PICK key : query' = [query EXCEPT !.grouping_key = UpdateAll(query.grouping_key, key)]
    BY DEF Grouping
  <1>2. phase = "explicit" /\ Keeps(query, QueryOf(syntax, where))
    BY DEF Grouping, QueryInv
  <1>3. PICK parsed : parsed = QueryOf(syntax, where)
    OBVIOUS
  <1> DEFINE updated == UpdateAll(query.grouping_key, key)
  <1>4. /\ {"solution_mapping", "solution_filters", "order_by", "ordering_type", "grouping_key", "aggregates", "tracked"}
               \subseteq DOMAIN query
        /\ Sequence(query.grouping_key)
    BY <1>2, ParsedFields
  <1>5. Sequence(updated) /\ Len(updated) = Len(query.grouping_key)
    BY <1>4, MapsKeepLength
  <1>6. updated = <<>> <=> query.grouping_key = <<>>
    <2> HIDE DEF updated
    <2> QED
      BY <1>4, <1>5, SequenceShape
  <1>7. query' = [query EXCEPT !.grouping_key = updated]
    BY <1>1
  <1> HIDE DEF updated
  <1>8. /\ DOMAIN query' = DOMAIN query /\ query'.grouping_key = updated
        /\ \A field \in DOMAIN query \ {"grouping_key"} : query'[field] = query[field]
    BY <1>4, <1>7
  <1>9. SameQuery /\ query'.aggregates = query.aggregates
    BY <1>4, <1>8 DEF SameQuery
  <1>10. Operator' = Operator
    BY <1>6, <1>8, <1>9 DEF Operator, SameQuery
  <1>11. Keeps(query', parsed)
    BY <1>2, <1>3, <1>5, <1>8 DEF Keeps
  <1> QED
    BY <1>3, <1>9, <1>10, <1>11

LEMMA QueryInvHolds == Spec => []QueryInv
  <1>1. Init => QueryInv
    BY InputsAssumption DEF Init, QueryInv, Phases
  <1>2. QueryInv /\ [Next]_vars => QueryInv'
    <2> SUFFICES ASSUME QueryInv, [Next]_vars
                 PROVE  QueryInv'
      OBVIOUS
    <2>0. ASSUME UNCHANGED query
          PROVE  Operator' = Operator
      BY <2>0 DEF Operator
    <2>1. CASE Parse
      <3>1. /\ phase = "parse" /\ phase' \in {"malformed", "ready"} /\ query' = QueryOf(syntax, where)
            /\ UNCHANGED <<syntax, where, evaluations>>
        BY <2>1 DEF Parse
      <3>2. PICK parsed : parsed = QueryOf(syntax, where)
        OBVIOUS
      <3>3. IsQuery(parsed)
        BY <3>2, InputsAssumption DEF QueryInv
      <3>4. Keeps(parsed, parsed)
        BY <3>3 DEF Keeps, IsQuery, IsSequence, Sequence
      <3>5. Keeps(query', QueryOf(syntax', where'))
        BY <3>1, <3>2, <3>4
      <3> QED
        BY <3>1, <3>5 DEF QueryInv, Phases
    <2>2. CASE Evaluate
      <3>1. /\ phase \in {"ready", "done"} /\ evaluations < MaxEvaluations /\ evaluations' = evaluations + 1
            /\ phase' = "done" \/ phase' = Operator
            /\ UNCHANGED <<syntax, where, query>>
        BY <2>2 DEF Evaluate
      <3>2. Operator \in {"implicit", "explicit", "project", "sort"} /\ Operator' = Operator
        BY <2>0, <3>1 DEF Operator
      <3>3. evaluations' \in 0 .. MaxEvaluations /\ evaluations' # 0
        BY <3>1, InputsAssumption DEF QueryInv
      <3> QED
        BY <3>1, <3>2, <3>3 DEF QueryInv, Phases
    <2>3. CASE Grouping
      <3>1. phase = "explicit" /\ UNCHANGED <<syntax, where, phase, evaluations>>
        BY <2>3 DEF Grouping
      <3>2. Keeps(query', QueryOf(syntax', where')) /\ Operator' = Operator
        BY <2>3, <3>1, GroupingKeepsQuery
      <3> QED
        BY <3>1, <3>2 DEF QueryInv
    <2>4. CASE Project \/ ProjectSorted \/ YieldAggregate \/ YieldGroup
      <3>1. /\ phase \in {"project", "sort", "implicit", "groups"} /\ (phase' = phase \/ phase' = "done")
            /\ UNCHANGED <<syntax, where, query, evaluations>>
        BY <2>4 DEF Project, ProjectSorted, YieldAggregate, YieldGroup, Ends
      <3> QED
        BY <2>0, <3>1 DEF QueryInv, Phases
    <2>5. CASE Sort \/ Aggregating
      <3>1. UNCHANGED <<syntax, where, query, phase, evaluations>>
        BY <2>5 DEF Sort, Aggregating
      <3> QED
        BY <2>0, <3>1 DEF QueryInv
    <2>6. CASE ListGroups
      <3>1. phase = "explicit" /\ phase' \in {"done", "groups"} /\ UNCHANGED <<syntax, where, query, evaluations>>
        BY <2>6 DEF ListGroups
      <3> QED
        BY <2>0, <3>1 DEF QueryInv, Phases
    <2>7. CASE Exhausted
      <3>1. phase \in {"project", "sort"} /\ phase' = "done" /\ UNCHANGED <<syntax, where, query, evaluations>>
        BY <2>7 DEF Exhausted
      <3> QED
        BY <2>0, <3>1 DEF QueryInv, Phases
    <2>8. CASE UNCHANGED vars
      <3>1. UNCHANGED <<syntax, where, query, phase, evaluations>>
        BY <2>8 DEF vars
      <3> QED
        BY <2>0, <3>1 DEF QueryInv
    <2> QED
      BY <2>1, <2>2, <2>3, <2>4, <2>5, <2>6, <2>7, <2>8 DEF Next
  <1> QED
    BY <1>1, <1>2, PTL DEF Spec

LEMMA QueryStays ==
    ASSUME QueryInv, [Next]_vars, ~Parse
    PROVE  SameQuery
  <1>1. CASE Grouping
    BY <1>1, GroupingKeepsQuery
  <1>2. CASE ~Grouping
    <2>1. UNCHANGED query
      BY <1>2 DEF Next, vars, Evaluate, Project, Sort, ProjectSorted, Aggregating, YieldAggregate, ListGroups,
                  YieldGroup, Exhausted
    <2> QED
      BY <2>1 DEF SameQuery
  <1> QED
    BY <1>1, <1>2

-----------------------------------------------------------------------------
(* A list into which items are inserted one after the other is a stable    *)
(* sort of them.                                                           *)
InsertedUpTo(desc, items, n, t) ==
    t = [i \in 0 .. n |-> IF i = 0 THEN <<>> ELSE Inserted(desc, t[i - 1], items[i])]
LEMMA InsertionsExist ==
    ASSUME NEW desc, NEW items, NEW v \in Nat, NEW n \in 0 .. v
    PROVE  \E t : InsertedUpTo(desc, items, n, t)
  <1> USE DEF InsertedUpTo
  <1> DEFINE Upto(k, t) == InsertedUpTo(desc, items, k, t)
             T == {k \in 0 .. v : ~\E t : Upto(k, t)}
  <1>1. SUFFICES ASSUME T # {}
                 PROVE  FALSE
    OBVIOUS
  <1>2. PICK k \in T : \A j \in T : k <= j
    <2>1. T \in SUBSET Nat
      OBVIOUS
    <2> HIDE DEF T
    <2> QED
      BY <1>1, <2>1, LeastElement
  <1>3. k \in 0 .. v /\ ~\E t : Upto(k, t)
    OBVIOUS
  <1>4. CASE k = 0
    <2>1. \A i \in 0 .. 0 : i = 0
      OBVIOUS
    <2>2. Upto(0, [i \in 0 .. 0 |-> <<>>])
      BY <2>1
    <2> QED
      BY <1>3, <1>4, <2>2
  <1>5. CASE k # 0
    <2>1. k - 1 \in 0 .. v /\ ~(k <= k - 1) /\ k \in Nat
      BY <1>3, <1>5
    <2>2. PICK t : Upto(k - 1, t)
      <3>1. k - 1 \notin T
        BY <1>2, <2>1
      <3> QED
        BY <2>1, <3>1
    <2> DEFINE u == [i \in 0 .. k |-> IF i = k THEN Inserted(desc, t[k - 1], items[k]) ELSE t[i]]
    <2>3. ASSUME NEW i \in 0 .. k
          PROVE  u[i] = IF i = 0 THEN <<>> ELSE Inserted(desc, u[i - 1], items[i])
      <3>1. \A j \in 0 .. k - 1 : t[j] = (IF j = 0 THEN <<>> ELSE Inserted(desc, t[j - 1], items[j]))
        BY <2>2
      <3>2. CASE i = k
        <4>1. k - 1 \in 0 .. k /\ k - 1 # k /\ k \in 0 .. k
          BY <2>1
        <4>2. u[i] = Inserted(desc, t[k - 1], items[k]) /\ u[k - 1] = t[k - 1]
          BY <3>2, <4>1
        <4> QED
          BY <1>5, <3>2, <4>2
      <3>3. CASE i # k
        <4>1. i \in 0 .. k - 1 /\ (i # 0 => i - 1 \in 0 .. k /\ i - 1 # k)
          BY <2>1, <3>3
        <4>2. u[i] = t[i] /\ (i # 0 => u[i - 1] = t[i - 1])
          BY <3>3, <4>1
        <4> QED
          BY <3>1, <4>1, <4>2
      <3> QED
        BY <3>2, <3>3
    <2>4. u = [i \in 0 .. k |-> u[i]]
      OBVIOUS
    <2> HIDE DEF u
    <2>5. u = [i \in 0 .. k |-> IF i = 0 THEN <<>> ELSE Inserted(desc, u[i - 1], items[i])]
      BY <2>3, <2>4
    <2> QED
      BY <1>3, <2>5
  <1> QED
    BY <1>4, <1>5

Prefix(s, n) == [i \in 1 .. n |-> s[i]]
LEMMA PrefixExtends ==
    ASSUME NEW S, NEW s \in Seq(S), NEW n \in 1 .. Len(s)
    PROVE  /\ Prefix(s, n - 1) \in Seq(S) /\ Prefix(s, n) = Append(Prefix(s, n - 1), s[n]) /\ s[n] \in S
           /\ Prefix(s, Len(s)) = s
  <1> DEFINE p == Prefix(s, n - 1)  q == Prefix(s, n)  c == Append(p, s[n])
  <1>1. Len(s) \in Nat /\ s = [i \in 1 .. Len(s) |-> s[i]] /\ \A i \in 1 .. Len(s) : s[i] \in S
    BY LenProperties, ElementOfSeq
  <1>2. n \in Nat /\ n - 1 \in Nat /\ n - 1 + 1 = n /\ \A i \in 1 .. n : i \in 1 .. Len(s) /\ (i = n \/ i \in 1 .. n - 1)
    BY <1>1
  <1>3. p \in [1 .. n - 1 -> S] /\ q \in [1 .. n -> S] /\ (\A i \in 1 .. n - 1 : p[i] = s[i]) /\ \A i \in 1 .. n : q[i] = s[i]
    BY <1>1, <1>2 DEF Prefix
  <1> HIDE DEF p, q
  <1>4. p \in Seq(S) /\ q \in Seq(S)
    BY <1>2, <1>3, SeqDef
  <1>5. Len(p) = n - 1 /\ Len(q) = n
    BY <1>2, <1>3, <1>4, LenProperties
  <1>6. s[n] \in S
    BY <1>1
  <1>7. c \in Seq(S) /\ Len(c) = n /\ c[n] = s[n] /\ \A i \in 1 .. n - 1 : c[i] = p[i]
    BY <1>2, <1>4, <1>5, <1>6, AppendProperties
  <1> HIDE DEF c
  <1>8. \A i \in 1 .. n : q[i] = c[i]
    BY <1>2, <1>3, <1>7
  <1>9. q = c
    BY <1>4, <1>5, <1>7, <1>8, SeqEqual
  <1>10. Prefix(s, Len(s)) = s
    BY <1>1 DEF Prefix
  <1> QED
    BY <1>4, <1>6, <1>9, <1>10 DEF p, q, c

LEMMA NothingIsSorted ==
    ASSUME NEW desc, NEW s, s = [i \in 1 .. 0 |-> s[i]]
    PROVE  s = <<>> /\ Sorts(desc, s, <<>>, [i \in {} |-> i])
  <1>1. Sequence(s) /\ Len(s) = 0
    BY TuplesAreSequences
  <1>2. s = <<>>
    BY <1>1, SequenceShape
  <1>3. Len(<<>>) = 0 /\ 1 .. 0 = {}
    OBVIOUS
  <1> QED
    BY <1>2, <1>3 DEF Sorts, Permutes, InOrder

LEMMA InsertedAllSorts ==
    ASSUME NEW desc, NEW S, NEW items \in Seq(S)
    PROVE  /\ InsertedAll(desc, items) \in Seq(S)
           /\ \E f : Sorts(desc, items, InsertedAll(desc, items), f)
  <1> DEFINE v == Len(items)
             after == CHOOSE after : after = [i \in 0 .. v |-> IF i = 0 THEN <<>> ELSE Inserted(desc, after[i - 1], items[i])]
             Holds(i) == after[i] \in Seq(S) /\ \E f : Sorts(desc, Prefix(items, i), after[i], f)
  <1>1. v \in Nat
    BY LenProperties
  <1>2. \E t : InsertedUpTo(desc, items, v, t)
    <2>1. v \in 0 .. v
      BY <1>1
    <2> HIDE DEF v
    <2> QED
      BY <1>1, <2>1, InsertionsExist
  <1>3. after = [i \in 0 .. v |-> IF i = 0 THEN <<>> ELSE Inserted(desc, after[i - 1], items[i])]
    BY <1>2 DEF InsertedUpTo
  <1>4. InsertedAll(desc, items) = after[v]
    BY DEF InsertedAll
  <1> HIDE DEF after
  <1> DEFINE T == {i \in 0 .. v : ~Holds(i)}
  <1>5. ASSUME T # {}
        PROVE  FALSE
    <2>1. T \in SUBSET Nat
      BY <1>1
    <2>2. PICK i \in T : \A j \in T : i <= j
      <3> HIDE DEF T
      <3> QED
        BY <1>5, <2>1, LeastElement
    <2>3. i \in 0 .. v /\ ~Holds(i)
      OBVIOUS
    <2>4. CASE i = 0
      <3>1. after[0] = <<>> /\ <<>> \in Seq(S)
        BY <1>1, <1>3
      <3>2. \E f : Sorts(desc, Prefix(items, 0), <<>>, f)
        <4>1. Prefix(items, 0) = [j \in 1 .. 0 |-> Prefix(items, 0)[j]]
          BY DEF Prefix
        <4> QED
          BY <4>1, NothingIsSorted
      <3> QED
        BY <2>3, <2>4, <3>1, <3>2
    <2>5. CASE i # 0
      <3>1. i - 1 \in 0 .. v /\ ~(i <= i - 1) /\ i \in 1 .. v
        BY <1>1, <2>3, <2>5
      <3>2. Holds(i - 1)
        BY <2>2, <3>1
      <3>3. after[i] = Inserted(desc, after[i - 1], items[i])
        BY <1>3, <2>3, <2>5
      <3>4. PICK f : Sorts(desc, Prefix(items, i - 1), after[i - 1], f)
        BY <3>2
      <3>5. /\ Prefix(items, i - 1) \in Seq(S) /\ Prefix(items, i) = Append(Prefix(items, i - 1), items[i])
            /\ items[i] \in S
        BY <3>1, PrefixExtends
      <3> DEFINE l == after[i - 1]  p == Prefix(items, i - 1)  item == items[i]
      <3>6. l \in Seq(S) /\ p \in Seq(S) /\ item \in S /\ Sorts(desc, p, l, f)
        BY <3>2, <3>4, <3>5
      <3>7. /\ Inserted(desc, l, item) \in Seq(S)
            /\ \E g : Sorts(desc, Append(p, item), Inserted(desc, l, item), g)
        <4> HIDE DEF l, p, item, v, Holds, T
        <4> QED
          BY <3>6, InsertionSorts
      <3>8. Holds(i)
        BY <3>3, <3>5, <3>7
      <3> QED
        BY <2>3, <3>8
    <2> QED
      BY <2>4, <2>5
  <1>6. Holds(v)
    <2>1. v \in 0 .. v
      BY <1>1
    <2> QED
      BY <1>5, <2>1
  <1>7. Prefix(items, v) = items
    <2>1. items = [i \in 1 .. Len(items) |-> items[i]]
      BY LenProperties
    <2> QED
      BY <2>1 DEF Prefix
  <1> QED
    BY <1>4, <1>6, <1>7

-----------------------------------------------------------------------------
(* What an evaluation works with, against the query: see TypeOK.           *)
RemainingInv ==
    /\ phase = "parse" => remaining = <<>>
    /\ Sequence(remaining)
    /\ \A i \in 1 .. Len(remaining) : DOMAIN remaining[i].key = query.tracked /\ remaining[i].value \in Nat
ExpressionsInv ==
    evaluations > 0 => Sequence(solution_expressions) /\ Len(solution_expressions) = Len(query.solution_mapping)
IsGroup(group) ==
    /\ DOMAIN group = {"solution", "filters", "ordering"}
    /\ Sequence(group.solution) /\ Sequence(group.filters) /\ Sequence(group.ordering)
GroupsInv ==
    /\ phase = "parse" => groups = <<>>
    /\ IsFiniteSet(DOMAIN groups)
    /\ \A key \in DOMAIN groups : IsGroup(groups[key]) /\ HasParts(groups[key])
ListedInv ==
    /\ Sequence(listed)
    /\ phase \in {"implicit", "explicit", "project"} => listed = <<>>
    /\ phase = "groups" => \A i \in 1 .. Len(listed) : listed[i].of \in Passing
GivenInv ==
    /\ phase = "parse" => given = <<>>
    /\ Sequence(given)
    /\ \A i \in 1 .. Len(given) : Len(given[i].row) = Len(query.solution_mapping)

LEMMA EmptyIsSequence == Sequence(<<>>) /\ Len(<<>>) = 0 /\ 1 .. 0 = {}
  <1> DEFINE none == {}
  <1>1. <<>> \in Seq(none) /\ Len(<<>>) = 0 /\ 1 .. 0 = {}
    OBVIOUS
  <1> HIDE DEF none
  <1> QED
    BY <1>1 DEF Sequence

LEMMA EntriesFit ==
    ASSUME QueryInv
    PROVE  /\ Sequence(Entries)
           /\ \A i \in 1 .. Len(Entries) : DOMAIN Entries[i].key = query.tracked /\ Entries[i].value \in Nat
  <1>1. where \in Seq(Range(where)) /\ \A i \in DOMAIN where : where[i].value \in Nat
    BY InputsAssumption DEF QueryInv, IsSequence
  <1>2. Total(where) \in Nat /\ Sequence(where)
    BY <1>1, TotalOfAll DEF Sequence
  <1>3. CASE query.tracked = {}
    <2>1. Entries = <<[key |-> <<>>, value |-> Total(where)]>>
      BY <1>3 DEF Entries
    <2>2. Len(Entries) = 1 /\ Entries[1].key = <<>> /\ Entries[1].value = Total(where) /\ DOMAIN <<>> = {}
          /\ Entries = [i \in 1 .. 1 |-> Entries[i]]
      BY <2>1
    <2>3. Sequence(Entries)
      BY <2>2, TuplesAreSequences
    <2> QED
      BY <1>2, <1>3, <2>2, <2>3
  <1>4. CASE query.tracked # {}
    <2>1. Entries = [i \in DOMAIN where |-> Tracking(where[i])]
      BY <1>4 DEF Entries
    <2>2. DOMAIN where = 1 .. Len(where) /\ Len(where) \in Nat
      BY <1>2, SequenceShape
    <2>3. Sequence(Entries) /\ Len(Entries) = Len(where)
      BY <2>1, <2>2, TuplesAreSequences
    <2>4. ASSUME NEW i \in DOMAIN where
          PROVE  DOMAIN Entries[i].key = query.tracked /\ Entries[i].value = where[i].value
      BY <2>1 DEF Tracking
    <2> QED
      BY <1>1, <2>2, <2>3, <2>4
  <1> QED
    BY <1>3, <1>4

LEMMA RemainingStep ==
    ASSUME QueryInv, RemainingInv, [Next]_vars
    PROVE  RemainingInv'
  <1>1. CASE Parse
    <2>1. remaining = <<>> /\ remaining' = <<>>
      BY <1>1 DEF Parse, RemainingInv
    <2> QED
      BY <2>1, EmptyIsSequence DEF RemainingInv
  <1>2. CASE Evaluate
    <2>1. remaining' = Entries /\ query' = query /\ phase' # "parse"
      BY <1>2 DEF Evaluate, Operator
    <2> QED
      BY <2>1, EntriesFit DEF RemainingInv
  <1>3. CASE Project \/ Sort \/ Aggregating \/ Grouping
    <2>1. remaining # <<>> /\ remaining' = Tail(remaining) /\ phase' # "parse"
      BY <1>3 DEF Project, Sort, Aggregating, Grouping, Consume, Ends
    <2>2. query'.tracked = query.tracked
      <3>1. ~Parse
        BY <1>3 DEF Parse, Project, Sort, Aggregating, Grouping
      <3> QED
        BY <3>1, QueryStays DEF SameQuery
    <2>3. /\ Sequence(Tail(remaining)) /\ Len(remaining) \in Nat \ {0} /\ Len(Tail(remaining)) = Len(remaining) - 1
          /\ \A i \in 1 .. Len(remaining) - 1 : Tail(remaining)[i] = remaining[i + 1]
      BY <2>1, TailsAreSequences DEF RemainingInv
    <2>4. \A i \in 1 .. Len(remaining) - 1 : i + 1 \in 1 .. Len(remaining)
      BY <2>3
    <2> QED
      BY <2>1, <2>2, <2>3, <2>4 DEF RemainingInv
  <1>4. CASE ProjectSorted \/ YieldAggregate \/ ListGroups \/ YieldGroup \/ Exhausted
    <2>1. UNCHANGED <<query, remaining>> /\ phase' # "parse"
      BY <1>4 DEF ProjectSorted, YieldAggregate, ListGroups, YieldGroup, Exhausted, Ends
    <2> QED
      BY <2>1 DEF RemainingInv
  <1>5. CASE UNCHANGED vars
    BY <1>5 DEF vars, RemainingInv
  <1> QED
    BY <1>1, <1>2, <1>3, <1>4, <1>5 DEF Next

LEMMA ExpressionsStep ==
    ASSUME QueryInv, RemainingInv, ExpressionsInv, [Next]_vars
    PROVE  ExpressionsInv'
  <1>1. CASE Parse
    <2>1. evaluations = 0 /\ evaluations' = evaluations
      BY <1>1 DEF Parse, QueryInv
    <2> QED
      BY <2>1 DEF ExpressionsInv
  <1>2. CASE Evaluate
    <2>1. solution_expressions' = CloneAll(query.solution_mapping) /\ query' = query /\ phase # "parse"
      BY <1>2 DEF Evaluate
    <2>2. Sequence(query.solution_mapping)
      BY <2>1, ParsedFields
    <2> QED
      BY <2>1, <2>2, MapsKeepLength DEF ExpressionsInv
  <1>3. CASE Project \/ ProjectSorted
    <2>1. PICK key : solution_expressions' = UpdateAll(solution_expressions, key)
      BY <1>3 DEF Project, ProjectSorted, ProjectAndYield
    <2>2. phase \in {"project", "sort"} /\ query' = query /\ evaluations' = evaluations
      BY <1>3 DEF Project, ProjectSorted
    <2>3. evaluations > 0
      BY <2>2 DEF QueryInv
    <2> QED
      BY <2>1, <2>2, <2>3, MapsKeepLength DEF ExpressionsInv
  <1>4. CASE Aggregating
    <2>1. PICK entry : entry = Head(remaining)
      OBVIOUS
    <2>2. /\ solution_expressions' = UpdateOften(solution_expressions, entry) /\ remaining # <<>>
          /\ query' = query /\ evaluations' = evaluations
      BY <1>4, <2>1 DEF Aggregating, Consume
    <2>3. entry.value \in Nat
      <3>1. Head(remaining) = remaining[1] /\ Len(remaining) \in Nat \ {0}
        BY <2>2, TailsAreSequences DEF RemainingInv
      <3> QED
        BY <2>1, <3>1 DEF RemainingInv
    <2> QED
      BY <2>2, <2>3, UpdatesKeepLength DEF ExpressionsInv
  <1>5. CASE Grouping
    <2>1. UNCHANGED <<solution_expressions, evaluations>> /\ ~Parse
      BY <1>5 DEF Grouping, Parse
    <2>2. query'.solution_mapping = query.solution_mapping
      BY <2>1, QueryStays DEF SameQuery
    <2> QED
      BY <2>1, <2>2 DEF ExpressionsInv
  <1>6. CASE Sort \/ YieldAggregate \/ ListGroups \/ YieldGroup \/ Exhausted \/ UNCHANGED vars
    <2>1. UNCHANGED <<solution_expressions, evaluations, query>>
      BY <1>6 DEF Sort, YieldAggregate, ListGroups, YieldGroup, Exhausted, vars
    <2> QED
      BY <2>1 DEF ExpressionsInv
  <1> QED
    BY <1>1, <1>2, <1>3, <1>4, <1>5, <1>6 DEF Next

LEMMA GroupIsUpdated ==
    ASSUME NEW group, IsGroup(group), HasParts(group), NEW entry, entry.value \in Nat,
           NEW updated, updated = [part \in DOMAIN group |-> UpdateOften(group[part], entry)]
    PROVE  IsGroup(updated) /\ HasParts(updated)
  <1>1. /\ DOMAIN group = {"solution", "filters", "ordering"}
        /\ Sequence(group.solution) /\ Sequence(group.filters) /\ Sequence(group.ordering)
    BY DEF IsGroup
  <1>2. /\ DOMAIN updated = {"solution", "filters", "ordering"}
        /\ updated.solution = UpdateOften(group.solution, entry)
        /\ updated.filters = UpdateOften(group.filters, entry)
        /\ updated.ordering = UpdateOften(group.ordering, entry)
    BY <1>1
  <1>3. /\ Sequence(updated.solution) /\ Len(updated.solution) = Len(group.solution)
        /\ Sequence(updated.filters) /\ Len(updated.filters) = Len(group.filters)
        /\ Sequence(updated.ordering) /\ Len(updated.ordering) = Len(group.ordering)
    BY <1>1, <1>2, UpdatesKeepLength
  <1> QED
    BY <1>2, <1>3 DEF IsGroup, HasParts

LEMMA NewGroupFits ==
    ASSUME QueryInv, phase # "parse"
    PROVE  IsGroup(NewGroup) /\ HasParts(NewGroup)
  <1>1. Sequence(query.solution_mapping) /\ Sequence(query.solution_filters) /\ Sequence(query.order_by)
    BY ParsedFields
  <1>2. /\ DOMAIN NewGroup = {"solution", "filters", "ordering"}
        /\ NewGroup.solution = CloneAll(query.solution_mapping)
        /\ NewGroup.filters = CloneAll(query.solution_filters)
        /\ NewGroup.ordering = CloneAll(query.order_by)
    BY DEF NewGroup
  <1> QED
    BY <1>1, <1>2, MapsKeepLength DEF IsGroup, HasParts

LEMMA GroupsStep ==
    ASSUME QueryInv, RemainingInv, GroupsInv, [Next]_vars
    PROVE  GroupsInv'
  <1>0. DOMAIN <<>> = {} /\ IsFiniteSet({})
    BY FS_EmptySet
  <1>1. CASE Parse
    <2>1. groups' = <<>>
      BY <1>1 DEF Parse, GroupsInv
    <2> QED
      BY <1>0, <2>1 DEF GroupsInv
  <1>2. CASE Evaluate
    <2>1. groups' = <<>>
      BY <1>2 DEF Evaluate
    <2> QED
      BY <1>0, <2>1 DEF GroupsInv
  <1>3. CASE Grouping
    <2>1. PICK entry : entry = Head(remaining)
      OBVIOUS
    <2>2. PICK key, group : /\ group = GroupOf(key)
                            /\ groups' = [k \in DOMAIN groups \cup {key} |->
                                             IF k = key THEN [part \in DOMAIN group |-> UpdateOften(group[part], entry)]
                                             ELSE groups[k]]
      BY <1>3, <2>1 DEF Grouping
    <2>3. phase = "explicit" /\ remaining # <<>> /\ phase' = phase
      BY <1>3 DEF Grouping, Consume
    <2>4. entry.value \in Nat
      <3>1. Head(remaining) = remaining[1] /\ Len(remaining) \in Nat \ {0}
        BY <2>3, TailsAreSequences DEF RemainingInv
      <3> QED
        BY <2>1, <3>1 DEF RemainingInv
    <2>5. IsGroup(group) /\ HasParts(group)
      BY <2>2, <2>3, NewGroupFits DEF GroupOf, GroupsInv
    <2>6. PICK updated : updated = [part \in DOMAIN group |-> UpdateOften(group[part], entry)]
      OBVIOUS
    <2>7. IsGroup(updated) /\ HasParts(updated)
      BY <2>4, <2>5, <2>6, GroupIsUpdated
    <2>8. groups' = [k \in DOMAIN groups \cup {key} |-> IF k = key THEN updated ELSE groups[k]]
      BY <2>2, <2>6
    <2>9. /\ DOMAIN groups' = DOMAIN groups \cup {key}
          /\ \A k \in DOMAIN groups' : groups'[k] = IF k = key THEN updated ELSE groups[k]
      BY <2>8
    <2>10. SameQuery
      BY <1>3, GroupingKeepsQuery
    <2>11. \A g : HasParts(g) => HasParts(g)'
      BY <2>10 DEF HasParts, SameQuery
    <2>12. IsFiniteSet(DOMAIN groups')
      BY <2>9, FS_AddElement DEF GroupsInv
    <2>13. ASSUME NEW k \in DOMAIN groups'
           PROVE  IsGroup(groups'[k]) /\ HasParts(groups[k])'
      <3> PICK g : g = groups'[k]
        OBVIOUS
      <3>1. IsGroup(g) /\ HasParts(g)
        BY <2>7, <2>9 DEF GroupsInv
      <3>2. HasParts(g)'
        BY <2>11, <3>1
      <3> QED
        BY <3>1, <3>2 DEF HasParts
    <2> QED
      BY <2>3, <2>12, <2>13 DEF GroupsInv
  <1>4. CASE Project \/ Sort \/ ProjectSorted \/ Aggregating \/ YieldAggregate \/ ListGroups \/ YieldGroup \/ Exhausted
    <2>1. UNCHANGED <<query, groups>> /\ phase' # "parse"
      BY <1>4 DEF Project, Sort, ProjectSorted, Aggregating, YieldAggregate, ListGroups, YieldGroup, Exhausted, Ends
    <2> QED
      BY <2>1 DEF GroupsInv, HasParts
  <1>5. CASE UNCHANGED vars
    BY <1>5 DEF vars, GroupsInv, HasParts
  <1> QED
    BY <1>1, <1>2, <1>3, <1>4, <1>5 DEF Next

(* What is listed is some of what was to be, each item of it once.         *)
LEMMA GroupsAreListed ==
    ASSUME GroupsInv, NEW keys \in SetToSeqs(Passing)
    PROVE  /\ Len(keys) = Cardinality(Passing) /\ Sequence(keys) /\ DOMAIN keys = 1 .. Len(keys)
           /\ \A i \in DOMAIN keys : keys[i] \in Passing
           /\ Sequence(GroupItems(keys)) /\ Len(GroupItems(keys)) = Len(keys)
           /\ \A i \in DOMAIN keys : GroupItems(keys)[i].of = keys[i]
  <1>1. Passing \subseteq DOMAIN groups
    BY DEF Passing
  <1>2. IsFiniteSet(Passing)
    BY <1>1, FS_Subset DEF GroupsInv
  <1>3. Cardinality(Passing) \in Nat
    BY <1>2, FS_CardinalityType
  <1>4. keys \in [1 .. Cardinality(Passing) -> Passing]
    BY DEF SetToSeqs
  <1>5. Sequence(keys) /\ Len(keys) = Cardinality(Passing)
    <2>1. keys = [i \in 1 .. Cardinality(Passing) |-> keys[i]]
      BY <1>4
    <2> QED
      BY <1>3, <2>1, TuplesAreSequences
  <1>6. DOMAIN keys = 1 .. Len(keys) /\ Len(keys) \in Nat
    BY <1>3, <1>4, <1>5
  <1>7. Sequence(GroupItems(keys)) /\ Len(GroupItems(keys)) = Len(keys)
    <2>1. GroupItems(keys) = [i \in 1 .. Len(keys) |-> GroupItems(keys)[i]]
      BY <1>6 DEF GroupItems
    <2> QED
      BY <1>6, <2>1, TuplesAreSequences
  <1>8. \A i \in DOMAIN keys : GroupItems(keys)[i].of = keys[i]
    BY DEF GroupItems
  <1> QED
    BY <1>4, <1>5, <1>6, <1>7, <1>8

LEMMA ListedStep ==
    ASSUME QueryInv, GroupsInv, ListedInv, [Next]_vars
    PROVE  ListedInv'
  <1>1. CASE Parse \/ Evaluate
    <2>1. CASE Parse
      <3>1. listed' = listed /\ phase' \in {"malformed", "ready"}
        BY <2>1 DEF Parse
      <3> QED
        BY <3>1 DEF ListedInv
    <2>2. CASE Evaluate
      <3>1. listed' = <<>>
        BY <2>2 DEF Evaluate
      <3> QED
        BY <3>1, EmptyIsSequence DEF ListedInv
    <2> QED
      BY <1>1, <2>1, <2>2
  <1>2. CASE Sort
    <2>1. PICK desc, item : listed' = Inserted(desc, listed, item)
      BY <1>2 DEF Sort
    <2>2. PICK l : l = listed
      OBVIOUS
    <2>3. PICK S : l \in Seq(S)
      BY <2>2 DEF ListedInv, Sequence
    <2> DEFINE T == S \cup {item}
    <2>4. l \in Seq(T) /\ item \in T
      BY <2>3, SequencesOfMore
    <2> HIDE DEF T
    <2>5. InsertAt(l, Place(desc, l, item), item) \in Seq(T)
      BY <2>4, PlaceIsInTheList, InsertAtProperties
    <2>6. Sequence(listed')
      BY <2>1, <2>2, <2>5 DEF Inserted, Sequence
    <2>7. phase' = "sort"
      BY <1>2 DEF Sort
    <2> QED
      BY <2>6, <2>7 DEF ListedInv
  <1>3. CASE ListGroups
    <2>1. PICK keys \in SetToSeqs(Passing) : listed' = InsertedAll(query.ordering_type, GroupItems(keys))
      BY <1>3 DEF ListGroups
    <2>2. PICK items, desc : items = GroupItems(keys) /\ desc = query.ordering_type
      OBVIOUS
    <2>3. /\ Sequence(items) /\ DOMAIN keys = 1 .. Len(items)
          /\ \A i \in 1 .. Len(items) : items[i].of \in Passing
      BY <2>2, GroupsAreListed
    <2>4. PICK S : items \in Seq(S)
      BY <2>3 DEF Sequence
    <2>5. PICK l : l = InsertedAll(desc, items)
      OBVIOUS
    <2>6. l \in Seq(S) /\ \E f : Sorts(desc, items, l, f)
      BY <2>4, <2>5, InsertedAllSorts
    <2>7. PICK f : Permutes(items, l, f)
      BY <2>6 DEF Sorts
    <2>8. \A i \in 1 .. Len(l) : l[i].of \in Passing
      BY <2>3, <2>7 DEF Permutes
    <2>9. listed' = l /\ groups' = groups /\ phase' \in {"groups", "done"}
      BY <1>3, <2>1, <2>2, <2>5 DEF ListGroups
    <2>10. Passing' = Passing
      BY <2>9 DEF Passing
    <2> QED
      BY <2>6, <2>8, <2>9, <2>10 DEF ListedInv, Sequence
  <1>4. CASE ProjectSorted \/ YieldGroup
    <2>1. /\ listed # <<>> /\ listed' = Tail(listed) /\ groups' = groups
          /\ phase \in {"sort", "groups"} /\ phase' \in {phase, "done"}
      BY <1>4 DEF ProjectSorted, YieldGroup, Ends
    <2>2. /\ Sequence(Tail(listed)) /\ Len(listed) \in Nat \ {0} /\ Len(Tail(listed)) = Len(listed) - 1
          /\ \A i \in 1 .. Len(listed) - 1 : Tail(listed)[i] = listed[i + 1]
      BY <2>1, TailsAreSequences DEF ListedInv
    <2>3. \A i \in 1 .. Len(listed) - 1 : i + 1 \in 1 .. Len(listed)
      BY <2>2
    <2>4. Passing' = Passing
      BY <2>1 DEF Passing
    <2> QED
      BY <2>1, <2>2, <2>3, <2>4 DEF ListedInv
  <1>5. CASE Project \/ Aggregating \/ YieldAggregate \/ Grouping
    <2>1. listed' = listed /\ phase \in {"implicit", "explicit", "project"} /\ phase' \in {phase, "done"}
      BY <1>5 DEF Project, Aggregating, YieldAggregate, Grouping, Ends
    <2> QED
      BY <2>1 DEF ListedInv
  <1>6. CASE Exhausted
    <2>1. listed' = listed /\ phase' = "done"
      BY <1>6 DEF Exhausted
    <2> QED
      BY <2>1 DEF ListedInv
  <1>7. CASE UNCHANGED vars
    <2>1. UNCHANGED <<listed, phase, groups>>
      BY <1>7 DEF vars
    <2>2. Passing' = Passing
      BY <2>1 DEF Passing
    <2> QED
      BY <2>1, <2>2 DEF ListedInv
  <1> QED
    BY <1>1, <1>2, <1>3, <1>4, <1>5, <1>6, <1>7 DEF Next

LEMMA GivenStep ==
    ASSUME QueryInv, ExpressionsInv, GroupsInv, ListedInv, GivenInv, [Next]_vars
    PROVE  GivenInv'
  <1>1. ASSUME NEW row, NEW value, Yield(row, value), query' = query, Len(row) = Len(query.solution_mapping), phase' # "parse"
        PROVE  GivenInv'
    <2>1. PICK e : e = [row |-> row, value |-> value]
      OBVIOUS
    <2>2. given' = Append(given, e) /\ e.row = row
      BY <1>1, <2>1 DEF Yield
    <2>3. /\ Sequence(Append(given, e)) /\ Len(given) \in Nat /\ Len(Append(given, e)) = Len(given) + 1
          /\ Append(given, e)[Len(given) + 1] = e
          /\ \A i \in 1 .. Len(given) : Append(given, e)[i] = given[i]
      BY AppendedSequences DEF GivenInv
    <2>4. \A i \in 1 .. Len(given) + 1 : i \in 1 .. Len(given) \/ i = Len(given) + 1
      BY <2>3
    <2>5. \A i \in 1 .. Len(given) + 1 : Len(Append(given, e)[i].row) = Len(query.solution_mapping)
      BY <1>1, <2>2, <2>3, <2>4 DEF GivenInv
    <2> QED
      BY <1>1, <2>2, <2>3, <2>5 DEF GivenInv
  <1>2. ASSUME NEW entry, ProjectAndYield(entry), query' = query, phase' # "parse", evaluations > 0
        PROVE  GivenInv'
    <2>1. PICK exprs : exprs = UpdateAll(solution_expressions, entry.key) /\ Yield(Values(exprs), entry.value)
      BY <1>2 DEF ProjectAndYield
    <2>2. Sequence(solution_expressions) /\ Len(solution_expressions) = Len(query.solution_mapping)
      BY <1>2 DEF ExpressionsInv
    <2>3. Sequence(exprs) /\ Len(exprs) = Len(query.solution_mapping)
      BY <2>1, <2>2, MapsKeepLength
    <2>4. PICK row, value : row = Values(exprs) /\ value = entry.value
      OBVIOUS
    <2>5. Len(row) = Len(query.solution_mapping) /\ Yield(row, value)
      BY <2>1, <2>3, <2>4, MapsKeepLength
    <2> QED
      BY <1>1, <1>2, <2>5
  <1>3. CASE Parse
    <2>1. given' = <<>>
      BY <1>3 DEF Parse, GivenInv
    <2> QED
      BY <2>1, EmptyIsSequence DEF GivenInv
  <1>4. CASE Evaluate
    <2>1. given' = <<>>
      BY <1>4 DEF Evaluate
    <2> QED
      BY <2>1, EmptyIsSequence DEF GivenInv
  <1>5. CASE Project
    <2>1. PICK entry : entry = Head(remaining)
      OBVIOUS
    <2>2. ProjectAndYield(entry) /\ phase = "project" /\ query' = query /\ phase' # "parse"
      BY <1>5, <2>1 DEF Project, Ends
    <2>3. evaluations > 0
      BY <2>2 DEF QueryInv
    <2> QED
      BY <1>2, <2>2, <2>3
  <1>6. CASE ProjectSorted
    <2>1. PICK entry : entry = Head(listed).of
      OBVIOUS
    <2>2. ProjectAndYield(entry) /\ phase = "sort" /\ query' = query /\ phase' # "parse"
      BY <1>6, <2>1 DEF ProjectSorted, Ends
    <2>3. evaluations > 0
      BY <2>2 DEF QueryInv
    <2> QED
      BY <1>2, <2>2, <2>3
  <1>7. CASE YieldAggregate
    <2>1. PICK row : row = Values(solution_expressions)
      OBVIOUS
    <2>2. Yield(row, 1) /\ phase = "implicit" /\ query' = query /\ phase' # "parse"
      BY <1>7, <2>1 DEF YieldAggregate, Ends
    <2>3. Sequence(solution_expressions) /\ Len(solution_expressions) = Len(query.solution_mapping)
      BY <2>2 DEF QueryInv, ExpressionsInv
    <2>4. Len(row) = Len(query.solution_mapping)
      BY <2>1, <2>3, MapsKeepLength
    <2> QED
      BY <1>1, <2>2, <2>4
  <1>8. CASE YieldGroup
    <2>1. PICK key : key = Head(listed).of
      OBVIOUS
    <2>2. PICK row : row = Values(groups[key].solution)
      OBVIOUS
    <2>3. Yield(row, 1) /\ phase = "groups" /\ listed # <<>> /\ query' = query /\ phase' # "parse"
      BY <1>8, <2>1, <2>2 DEF YieldGroup, Ends
    <2>4. Head(listed) = listed[1] /\ 1 \in 1 .. Len(listed)
      BY <2>3, TailsAreSequences DEF ListedInv
    <2>5. key \in DOMAIN groups
      BY <2>1, <2>3, <2>4 DEF ListedInv, Passing
    <2>6. Sequence(groups[key].solution) /\ Len(groups[key].solution) = Len(query.solution_mapping)
      BY <2>5 DEF GroupsInv, IsGroup, HasParts
    <2>7. Len(row) = Len(query.solution_mapping)
      BY <2>2, <2>6, MapsKeepLength
    <2> QED
      BY <1>1, <2>3, <2>7
  <1>9. CASE Sort \/ Aggregating \/ ListGroups \/ Exhausted
    <2>1. UNCHANGED <<query, given>> /\ phase' # "parse"
      BY <1>9 DEF Sort, Aggregating, ListGroups, Exhausted
    <2> QED
      BY <2>1 DEF GivenInv
  <1>10. CASE Grouping
    <2>1. given' = given /\ phase' # "parse" /\ SameQuery
      BY <1>10, GroupingKeepsQuery DEF Grouping
    <2> QED
      BY <2>1 DEF GivenInv, SameQuery
  <1>11. CASE UNCHANGED vars
    BY <1>11 DEF vars, GivenInv
  <1> QED
    BY <1>3, <1>4, <1>5, <1>6, <1>7, <1>8, <1>9, <1>10, <1>11 DEF Next

StateInv == RemainingInv /\ ExpressionsInv /\ GroupsInv /\ ListedInv /\ GivenInv
LEMMA StateInvHolds == Spec => []StateInv
  <1>1. Init => StateInv
    <2> SUFFICES ASSUME Init
                 PROVE  StateInv
      OBVIOUS
    <2>1. /\ phase = "parse" /\ evaluations = 0 /\ remaining = <<>> /\ solution_expressions = <<>>
          /\ groups = <<>> /\ listed = <<>> /\ given = <<>>
      BY DEF Init
    <2>2. DOMAIN <<>> = {} /\ IsFiniteSet({})
      BY FS_EmptySet
    <2> QED
      BY <2>1, <2>2, EmptyIsSequence DEF StateInv, RemainingInv, ExpressionsInv, GroupsInv, ListedInv, GivenInv
  <1>2. QueryInv /\ StateInv /\ [Next]_vars => StateInv'
    BY RemainingStep, ExpressionsStep, GroupsStep, ListedStep, GivenStep DEF StateInv
  <1> QED
    BY <1>1, <1>2, QueryInvHolds, PTL DEF Spec

LEMMA AnswersAreGiven ==
    ASSUME NEW q, Modifiers(q), NEW R, NEW s, NEW p, PageInv(q, R, s, p), NEW i \in DOMAIN p.answers
    PROVE  p.answers[i].value \in Nat /\ \E j \in 1 .. Len(s) : p.answers[i].row = s[j].row
  <1>1. s \in Seq(Counts(R)) /\ p.answers \in Seq(Counts(R))
    BY DEF PageInv, Pages
  <1>2. DOMAIN p.answers = 1 .. Len(p.answers) /\ DOMAIN s = 1 .. Len(s)
    BY <1>1, LenProperties
  <1>3. p.answers[i].value \in Nat
    <2>1. p.answers[i] \in Counts(R)
      BY <1>1, <1>2, ElementOfSeq
    <2> QED
      BY <2>1 DEF Counts
  <1>4. ASSUME NEW input, PageOf(q, input, p)
        PROVE  \E j \in 1 .. Len(input) : p.answers[i].row = input[j].row
    BY <1>2, <1>4 DEF PageOf, Slice
  <1>5. CASE q.distinct
    <2>1. PICK first \in Seq(Counts(R)) : Distinct(s, first) /\ PageOf(q, first, p)
      BY <1>5 DEF PageInv
    <2>2. PICK j \in 1 .. Len(first) : p.answers[i].row = first[j].row
      BY <1>4, <2>1
    <2>3. j \in DOMAIN first
      BY LenProperties
    <2>4. first[j].row \in Rowset(s)
      BY <2>1, <2>3 DEF Distinct, Rowset
    <2> QED
      BY <1>2, <1>3, <2>2, <2>4 DEF Rowset
  <1>6. CASE ~q.distinct
    BY <1>3, <1>4, <1>6 DEF PageInv
  <1> QED
    BY <1>5, <1>6

(* Every evaluation works with the query that was parsed, and with copies  *)
(* of its expressions that stay as many whatever their groups have gone    *)
(* through; its rows are as long as the projection, whatever was cut; and  *)
(* only groups that there are, and that pass the filters, are listed.      *)
THEOREM TypeCorrect == Spec => []TypeOK
  <1>1. QueryInv /\ StateInv /\ EvaluationInv => TypeOK
    <2> SUFFICES ASSUME QueryInv, StateInv, EvaluationInv
                 PROVE  TypeOK
      OBVIOUS
    <2>1. phase # "parse" => \E parsed \in {QueryOf(syntax, where)} :
                                \A field \in DOMAIN parsed \ {"grouping_key"} : query[field] = parsed[field]
      BY DEF QueryInv, Keeps
    <2>2. \A i \in DOMAIN remaining : DOMAIN remaining[i].key = query.tracked /\ remaining[i].value \in Nat
      <3>1. DOMAIN remaining = 1 .. Len(remaining)
        BY SequenceShape DEF StateInv, RemainingInv
      <3> QED
        BY <3>1 DEF StateInv, RemainingInv
    <2>3. phase = "groups" => \A i \in DOMAIN listed : listed[i].of \in Passing
      <3>1. DOMAIN listed = 1 .. Len(listed)
        BY SequenceShape DEF StateInv, ListedInv
      <3> QED
        BY <3>1 DEF StateInv, ListedInv
    <2>4. ASSUME NEW i \in DOMAIN page.answers
          PROVE  Len(page.answers[i].row) = Len(query.solution_mapping) /\ page.answers[i].value \in Nat
      <3>1. PICK R : PageInv(syntax, R, given, page)
        BY DEF EvaluationInv
      <3>2. Modifiers(syntax)
        BY InputsAssumption DEF EvaluationInv, Modifiers
      <3>3. PICK p : p = page
        OBVIOUS
      <3>4. p.answers[i].value \in Nat /\ \E j \in 1 .. Len(given) : p.answers[i].row = given[j].row
        <4>1. PageInv(syntax, R, given, p) /\ i \in DOMAIN p.answers
          BY <3>1, <3>3
        <4> QED
          BY <3>2, <4>1, AnswersAreGiven
      <3> QED
        BY <3>3, <3>4 DEF StateInv, GivenInv
    <2>5. evaluations > 0 => Len(solution_expressions) = Len(query.solution_mapping)
      BY DEF StateInv, ExpressionsInv
    <2>6. \A key \in DOMAIN groups : HasParts(groups[key])
      BY DEF StateInv, GroupsInv
    <2>7. phase \in {"implicit", "explicit", "project"} => listed = <<>>
      BY DEF StateInv, ListedInv
    <2>8. phase \in Phases /\ evaluations \in 0 .. MaxEvaluations
      BY DEF QueryInv
    <2> QED
      BY <2>1, <2>2, <2>3, <2>4, <2>5, <2>6, <2>7, <2>8 DEF TypeOK
  <1> QED
    BY <1>1, QueryInvHolds, StateInvHolds, EvaluationInvHolds, PTL

-----------------------------------------------------------------------------
(* How many solutions sequences of entries stand for.                      *)
HasNumbers(s) == Sequence(s) /\ \A i \in 1 .. Len(s) : s[i].value \in Nat

LEMMA TotalsAreUnique ==
    ASSUME NEW s, HasNumbers(s), NEW t, RunningTotals(t, s)
    PROVE  t[Len(s)] = Total(s) /\ Total(s) \in Nat
  <1>1. PICK S : s \in Seq(S)
    BY DEF HasNumbers, Sequence
  <1>2. Len(s) \in Nat /\ DOMAIN s = 1 .. Len(s)
    BY <1>1, LenProperties
  <1>3. Total(s) \in Nat /\ \E u : RunningTotals(u, s) /\ u[Len(s)] = Total(s)
    BY <1>1, <1>2, TotalOfAll DEF HasNumbers
  <1>4. PICK u : RunningTotals(u, s) /\ u[Len(s)] = Total(s)
    BY <1>3
  <1> DEFINE T == {i \in 0 .. Len(s) : u[i] # t[i]}
  <1>5. ASSUME T # {}
        PROVE  FALSE
    <2>1. T \in SUBSET Nat
      BY <1>2
    <2>2. PICK i \in T : \A j \in T : i <= j
      <3> HIDE DEF T
      <3> QED
        BY <1>5, <2>1, LeastElement
    <2>3. i \in 0 .. Len(s) /\ u[i] # t[i]
      OBVIOUS
    <2>4. u[0] = 0 /\ t[0] = 0
      BY <1>4 DEF RunningTotals
    <2>5. i \in 1 .. Len(s) /\ i - 1 \in 0 .. Len(s) /\ ~(i <= i - 1)
      BY <1>2, <2>3, <2>4
    <2>6. u[i - 1] = t[i - 1]
      BY <2>2, <2>5
    <2>7. u[i] = u[i - 1] + s[i].value /\ t[i] = t[i - 1] + s[i].value
      BY <1>4, <2>5 DEF RunningTotals
    <2> QED
      BY <2>3, <2>6, <2>7
  <1>6. Len(s) \in 0 .. Len(s)
    BY <1>2
  <1> QED
    BY <1>3, <1>4, <1>5, <1>6

LEMMA NothingCounted == HasNumbers(<<>>) /\ Total(<<>>) = 0
  <1>1. HasNumbers(<<>>) /\ Len(<<>>) = 0 /\ 1 .. 0 = {}
    BY EmptyIsSequence DEF HasNumbers
  <1> DEFINE t == [i \in 0 .. 0 |-> 0]
  <1>2. t \in [0 .. 0 -> Nat] /\ t[0] = 0
    OBVIOUS
  <1> HIDE DEF t
  <1>3. RunningTotals(t, <<>>)
    BY <1>1, <1>2 DEF RunningTotals
  <1> QED
    BY <1>1, <1>2, <1>3, TotalsAreUnique

LEMMA TotalOfMore ==
    ASSUME NEW s, HasNumbers(s), NEW e, e.value \in Nat
    PROVE  HasNumbers(Append(s, e)) /\ Total(Append(s, e)) = Total(s) + e.value
  <1>1. /\ Sequence(Append(s, e)) /\ Len(s) \in Nat /\ Len(Append(s, e)) = Len(s) + 1 /\ Append(s, e)[Len(s) + 1] = e
        /\ \A i \in 1 .. Len(s) : Append(s, e)[i] = s[i]
    BY AppendedSequences DEF HasNumbers
  <1>2. HasNumbers(Append(s, e))
    <2>1. \A i \in 1 .. Len(s) + 1 : i \in 1 .. Len(s) \/ i = Len(s) + 1
      BY <1>1
    <2> QED
      BY <1>1, <2>1 DEF HasNumbers
  <1>3. PICK S : s \in Seq(S)
    BY DEF HasNumbers, Sequence
  <1> DEFINE T == S \cup {e}
  <1>4. s \in Seq(T) /\ e \in T
    BY <1>3, SequencesOfMore
  <1> HIDE DEF T
  <1>5. PICK t : RunningTotals(t, s)
    <2>1. DOMAIN s = 1 .. Len(s)
      BY <1>3, LenProperties
    <2> QED
      BY <1>3, <2>1, TotalOfAll DEF HasNumbers
  <1> DEFINE u == [i \in 0 .. Len(s) + 1 |-> IF i <= Len(s) THEN t[i] ELSE t[Len(s)] + e.value]
  <1>6. RunningTotals(u, Append(s, e)) /\ u[Len(s) + 1] = t[Len(s)] + e.value
    BY <1>4, <1>5, TotalsExtend
  <1> HIDE DEF u
  <1>7. u[Len(Append(s, e))] = Total(Append(s, e)) /\ t[Len(s)] = Total(s)
    BY <1>2, <1>5, <1>6, TotalsAreUnique
  <1> QED
    BY <1>1, <1>2, <1>6, <1>7

LEMMA TotalOfInserted ==
    ASSUME NEW s, HasNumbers(s), NEW k \in 1 .. Len(s) + 1, NEW e, e.value \in Nat,
           NEW r, Sequence(r), Len(r) = Len(s) + 1, r[k] = e,
           \A i \in 1 .. k - 1 : r[i] = s[i], \A i \in k .. Len(s) : r[i + 1] = s[i]
    PROVE  HasNumbers(r) /\ Total(r) = Total(s) + e.value
  <1> DEFINE n == Len(s)
  <1>1. PICK S : s \in Seq(S)
    BY DEF HasNumbers, Sequence
  <1>2. n \in Nat /\ DOMAIN s = 1 .. n /\ k \in 1 .. n + 1
    BY <1>1, LenProperties
  <1>3. PICK t : RunningTotals(t, s) /\ t[n] = Total(s)
    BY <1>1, <1>2, TotalOfAll DEF HasNumbers
  <1>4. /\ t \in [0 .. n -> Nat] /\ t[0] = 0 /\ \A i \in 1 .. n : t[i] = t[i - 1] + s[i].value
        /\ \A i \in 1 .. n : s[i].value \in Nat
    BY <1>3 DEF RunningTotals, HasNumbers
  <1> DEFINE u == [i \in 0 .. n + 1 |-> IF i < k THEN t[i] ELSE t[i - 1] + e.value]
  <1> HIDE DEF n
  <1>5. ASSUME NEW i \in 0 .. n + 1
        PROVE  u[i] \in Nat /\ u[i] = (IF i < k THEN t[i] ELSE t[i - 1] + e.value)
    <2>1. i < k => i \in 0 .. n
      BY <1>2
    <2>2. ~(i < k) => i - 1 \in 0 .. n
      BY <1>2
    <2>3. u[i] = (IF i < k THEN t[i] ELSE t[i - 1] + e.value)
      OBVIOUS
    <2> HIDE DEF u
    <2>4. (i < k => t[i] \in Nat) /\ (~(i < k) => t[i - 1] \in Nat)
      BY <1>4, <2>1, <2>2
    <2> QED
      BY <2>3, <2>4
  <1>6. ASSUME NEW i \in 1 .. n + 1
        PROVE  u[i] = u[i - 1] + r[i].value /\ r[i].value \in Nat
    <2>1. i \in 0 .. n + 1 /\ i - 1 \in 0 .. n + 1 /\ i \in Nat
      BY <1>2
    <2>2. /\ u[i] = (IF i < k THEN t[i] ELSE t[i - 1] + e.value)
          /\ u[i - 1] = (IF i - 1 < k THEN t[i - 1] ELSE t[i - 1 - 1] + e.value)
      BY <1>5, <2>1
    <2>3. CASE i < k
      <3>1. i \in 1 .. n /\ i \in 1 .. k - 1 /\ i - 1 < k
        BY <1>2, <2>3
      <3>2. r[i] = s[i]
        BY <3>1
      <3> QED
        BY <1>4, <2>2, <2>3, <3>1, <3>2
    <2>4. CASE i = k
      <3>1. ~(i < k) /\ i - 1 < k
        BY <1>2, <2>4
      <3> QED
        BY <2>2, <2>4, <3>1
    <2>5. CASE i > k
      <3>1. ~(i < k) /\ ~(i - 1 < k) /\ i - 1 \in k .. n /\ i - 1 \in 1 .. n /\ i - 1 + 1 = i /\ i - 1 - 1 \in 0 .. n
        BY <1>2, <2>5
      <3>2. r[i - 1 + 1] = s[i - 1]
        BY <3>1 DEF n
      <3>3. t[i - 1] = t[i - 1 - 1] + s[i - 1].value /\ t[i - 1 - 1] \in Nat /\ s[i - 1].value \in Nat
        BY <1>4, <3>1
      <3>4. r[i].value = s[i - 1].value
        BY <3>1, <3>2
      <3> QED
        BY <2>2, <3>1, <3>3, <3>4
    <2> QED
      BY <1>2, <2>1, <2>3, <2>4, <2>5
  <1>7. u \in [0 .. n + 1 -> Nat]
    <2>1. u = [i \in 0 .. n + 1 |-> u[i]]
      OBVIOUS
    <2> HIDE DEF u
    <2> QED
      BY <1>5, <2>1
  <1>8. u[0] = 0 /\ u[n + 1] = t[n] + e.value
    <2>1. 0 \in 0 .. n + 1 /\ 0 < k /\ n + 1 \in 0 .. n + 1 /\ ~(n + 1 < k) /\ n + 1 - 1 = n
      BY <1>2
    <2> HIDE DEF u
    <2>2. u[0] = t[0]
      BY <1>5, <2>1
    <2>3. PICK j : j = n + 1
      OBVIOUS
    <2>4. j \in 0 .. n + 1 /\ ~(j < k) /\ j - 1 = n
      BY <1>2, <2>3
    <2>5. u[j] = t[j - 1] + e.value
      BY <1>5, <2>4
    <2>6. t[j - 1] = t[n]
      BY <2>4
    <2> QED
      BY <1>4, <2>2, <2>3, <2>5, <2>6
  <1> HIDE DEF u
  <1>9. RunningTotals(u, r) /\ HasNumbers(r) /\ Len(r) = n + 1
    BY <1>6, <1>7, <1>8 DEF RunningTotals, HasNumbers, n
  <1> QED
    BY <1>3, <1>8, <1>9, TotalsAreUnique

LEMMA TotalOfRest ==
    ASSUME NEW s, HasNumbers(s), s # <<>>
    PROVE  /\ HasNumbers(Tail(s)) /\ Head(s).value \in Nat /\ Total(Tail(s)) \in Nat
           /\ Total(s) = Total(Tail(s)) + Head(s).value
  <1> DEFINE t == Tail(s)
  <1>1. /\ Sequence(t) /\ Len(s) \in Nat \ {0} /\ Len(t) = Len(s) - 1 /\ Head(s) = s[1]
        /\ \A i \in 1 .. Len(s) - 1 : t[i] = s[i + 1]
    BY TailsAreSequences DEF HasNumbers
  <1> HIDE DEF t
  <1>2. HasNumbers(t) /\ Head(s).value \in Nat
    <2>1. 1 \in 1 .. Len(s) /\ \A i \in 1 .. Len(s) - 1 : i + 1 \in 1 .. Len(s)
      BY <1>1
    <2> QED
      BY <1>1, <2>1 DEF HasNumbers
  <1>3. PICK e, k : e = Head(s) /\ k = 1
    OBVIOUS
  <1>4. /\ k \in 1 .. Len(t) + 1 /\ e.value \in Nat /\ Sequence(s) /\ Len(s) = Len(t) + 1 /\ s[k] = e
        /\ \A i \in 1 .. k - 1 : s[i] = t[i]
        /\ \A i \in k .. Len(t) : s[i + 1] = t[i]
    BY <1>1, <1>2, <1>3 DEF HasNumbers
  <1>5. Total(s) = Total(t) + e.value
    BY <1>2, <1>4, TotalOfInserted
  <1>6. Total(t) \in Nat
    <2>1. PICK S : t \in Seq(S)
      BY <1>1 DEF Sequence
    <2>2. DOMAIN t = 1 .. Len(t)
      BY <2>1, LenProperties
    <2> QED
      BY <1>2, <2>1, <2>2, TotalOfAll DEF HasNumbers
  <1> QED
    BY <1>2, <1>3, <1>5, <1>6 DEF t

(* The entries in a list. *)
EntriesOf(list) == [i \in 1 .. Len(list) |-> list[i].of]
LEMMA EntriesOfList ==
    ASSUME NEW list, Sequence(list)
    PROVE  /\ Sequence(EntriesOf(list)) /\ Len(EntriesOf(list)) = Len(list) /\ Len(list) \in Nat
           /\ \A i \in 1 .. Len(list) : EntriesOf(list)[i] = list[i].of
  <1>1. Len(list) \in Nat
    BY SequenceShape
  <1>2. EntriesOf(list) = [i \in 1 .. Len(list) |-> EntriesOf(list)[i]] /\ \A i \in 1 .. Len(list) : EntriesOf(list)[i] = list[i].of
    BY DEF EntriesOf
  <1> QED
    BY <1>1, <1>2, TuplesAreSequences

LEMMA TotalOfListed ==
    ASSUME NEW list, Sequence(list), HasNumbers(EntriesOf(list)), NEW desc, NEW item, item.of.value \in Nat
    PROVE  /\ HasNumbers(EntriesOf(Inserted(desc, list, item)))
           /\ Total(EntriesOf(Inserted(desc, list, item))) = Total(EntriesOf(list)) + item.of.value
  <1>1. PICK k, r, l, s : k = Place(desc, list, item) /\ r = Inserted(desc, list, item) /\ l = EntriesOf(list) /\ s = EntriesOf(r)
    OBVIOUS
  <1>2. PICK S : list \in Seq(S)
    BY DEF Sequence
  <1> DEFINE T == S \cup {item}
  <1>3. list \in Seq(T) /\ item \in T
    BY <1>2, SequencesOfMore
  <1> HIDE DEF T
  <1>4. k \in 1 .. Len(list) + 1
    BY <1>1, <1>3, PlaceIsInTheList
  <1>5. r = InsertAt(list, k, item)
    BY <1>1 DEF Inserted
  <1>6. /\ InsertAt(list, k, item) \in Seq(T) /\ Len(InsertAt(list, k, item)) = Len(list) + 1
        /\ InsertAt(list, k, item)[k] = item
        /\ \A i \in 1 .. k - 1 : InsertAt(list, k, item)[i] = list[i]
        /\ \A i \in k .. Len(list) : InsertAt(list, k, item)[i + 1] = list[i]
    BY <1>3, <1>4, InsertAtProperties, SMTT(30)
  <1>7. /\ Sequence(r) /\ Len(r) = Len(list) + 1 /\ r[k] = item
        /\ \A i \in 1 .. k - 1 : r[i] = list[i]
        /\ \A i \in k .. Len(list) : r[i + 1] = list[i]
    BY <1>5, <1>6 DEF Sequence
  <1>8. /\ Sequence(s) /\ Len(s) = Len(r) /\ \A i \in 1 .. Len(r) : s[i] = r[i].of
        /\ Len(l) = Len(list) /\ Len(list) \in Nat /\ \A i \in 1 .. Len(list) : l[i] = list[i].of
    BY <1>1, <1>7, EntriesOfList
  <1>9. /\ k \in 1 .. Len(l) + 1 /\ Len(s) = Len(l) + 1 /\ s[k] = item.of
        /\ \A i \in 1 .. k - 1 : s[i] = l[i]
        /\ \A i \in k .. Len(l) : s[i + 1] = l[i]
    <2>1. k \in 1 .. Len(r)
      BY <1>4, <1>7, <1>8
    <2>2. \A i \in 1 .. k - 1 : i \in 1 .. Len(r) /\ i \in 1 .. Len(list)
      BY <1>4, <1>7, <1>8
    <2>3. \A i \in k .. Len(list) : i + 1 \in 1 .. Len(r) /\ i \in 1 .. Len(list)
      BY <1>4, <1>7, <1>8
    <2> QED
      BY <1>4, <1>7, <1>8, <2>1, <2>2, <2>3
  <1>10. HasNumbers(l)
    BY <1>1
  <1>11. HasNumbers(s) /\ Total(s) = Total(l) + item.of.value
    <2>1. PICK e : e = item.of
      OBVIOUS
    <2>2. e.value \in Nat /\ s[k] = e /\ Sequence(s)
      BY <1>8, <1>9, <2>1
    <2> QED
      BY <1>9, <1>10, <2>1, <2>2, TotalOfInserted
  <1> QED
    BY <1>1, <1>11

LEMMA TotalOfRestListed ==
    ASSUME NEW list, Sequence(list), list # <<>>, HasNumbers(EntriesOf(list))
    PROVE  /\ HasNumbers(EntriesOf(Tail(list))) /\ Head(list).of.value \in Nat
           /\ Total(EntriesOf(list)) = Total(EntriesOf(Tail(list))) + Head(list).of.value
  <1>1. PICK e, r, l, s : e = Head(list).of /\ r = Tail(list) /\ l = EntriesOf(list) /\ s = EntriesOf(r)
    OBVIOUS
  <1>2. /\ Sequence(r) /\ Len(list) \in Nat \ {0} /\ Len(r) = Len(list) - 1 /\ e = list[1].of
        /\ \A i \in 1 .. Len(list) - 1 : r[i] = list[i + 1]
    BY <1>1, TailsAreSequences
  <1>3. /\ Sequence(s) /\ Len(s) = Len(r) /\ \A i \in 1 .. Len(r) : s[i] = r[i].of
        /\ Sequence(l) /\ Len(l) = Len(list) /\ \A i \in 1 .. Len(list) : l[i] = list[i].of
    BY <1>1, <1>2, EntriesOfList
  <1>4. /\ Len(l) = Len(s) + 1 /\ l[1] = e /\ \A i \in 1 .. Len(s) : l[i + 1] = s[i]
    <2>1. 1 \in 1 .. Len(list) /\ \A i \in 1 .. Len(list) - 1 : i + 1 \in 1 .. Len(list)
      BY <1>2
    <2> QED
      BY <1>2, <1>3, <2>1
  <1>5. HasNumbers(l)
    BY <1>1
  <1>6. HasNumbers(s) /\ e.value \in Nat
    <2>1. Len(s) \in Nat /\ 1 \in 1 .. Len(l) /\ \A i \in 1 .. Len(s) : i + 1 \in 1 .. Len(l)
      BY <1>2, <1>3, <1>4
    <2> QED
      BY <1>3, <1>4, <1>5, <2>1 DEF HasNumbers
  <1>7. Total(l) = Total(s) + e.value
    <2>1. PICK k : k = 1
      OBVIOUS
    <2>2. /\ k \in 1 .. Len(s) + 1 /\ l[k] = e /\ e.value \in Nat
          /\ HasNumbers(s) /\ Sequence(l) /\ Len(l) = Len(s) + 1
          /\ \A i \in 1 .. k - 1 : l[i] = s[i]
          /\ \A i \in k .. Len(s) : l[i + 1] = s[i]
      BY <1>2, <1>3, <1>4, <1>6, <2>1
    <2> QED
      BY <2>2, TotalOfInserted, SMTT(30)
  <1> QED
    BY <1>1, <1>6, <1>7

-----------------------------------------------------------------------------
(* What an evaluation is to yield: each solution of the entries, one       *)
(* aggregated solution, or one for each group that passes the filters.     *)
(* While it runs, what was given, what is listed and what remains are      *)
(* together what was due; once it has ended all of it was given, unless    *)
(* the reader has had enough.                                              *)
Due == CASE Operator = "implicit" -> 1
         [] Operator = "explicit" -> Cardinality(Passing)
         [] OTHER -> Total(Entries)
CountInv ==
    /\ phase \in {"project", "sort"} =>
          /\ HasNumbers(EntriesOf(listed))
          /\ Total(given) + Total(EntriesOf(listed)) + Total(remaining) = Due
    /\ phase \in {"implicit", "explicit"} => given = <<>>
    /\ phase = "groups" => Total(given) + Len(listed) = Due
    /\ phase = "done" => Total(given) <= Due /\ (page.broken \/ Total(given) = Due)

LEMMA CountsAreNumbers ==
    /\ StateInv => HasNumbers(remaining)
    /\ EvaluationInv => HasNumbers(given)
    /\ QueryInv => HasNumbers(Entries)
    /\ \A s : HasNumbers(s) => Total(s) \in Nat
  <1>1. StateInv => HasNumbers(remaining)
    BY DEF StateInv, RemainingInv, HasNumbers
  <1>2. ASSUME EvaluationInv
        PROVE  HasNumbers(given)
    <2>1. PICK R : given \in Seq(Counts(R))
      BY <1>2 DEF EvaluationInv, PageInv
    <2>2. PICK s : s = given
      OBVIOUS
    <2>3. s \in Seq(Counts(R)) /\ \A i \in 1 .. Len(s) : s[i] \in Counts(R)
      BY <2>1, <2>2, ElementOfSeq
    <2>4. HasNumbers(s)
      BY <2>3 DEF HasNumbers, Sequence, Counts
    <2> QED
      BY <2>2, <2>4
  <1>3. QueryInv => HasNumbers(Entries)
    BY EntriesFit DEF HasNumbers
  <1>4. ASSUME NEW s, HasNumbers(s)
        PROVE  Total(s) \in Nat
    <2>1. PICK S : s \in Seq(S)
      BY <1>4 DEF HasNumbers, Sequence
    <2>2. DOMAIN s = 1 .. Len(s)
      BY <2>1, LenProperties
    <2> QED
      BY <1>4, <2>1, <2>2, TotalOfAll DEF HasNumbers
  <1> QED
    BY <1>1, <1>2, <1>3, <1>4

LEMMA DueIsANumber ==
    ASSUME QueryInv, StateInv
    PROVE  Due \in Nat
  <1>1. Cardinality(Passing) \in Nat
    <2>1. Passing \subseteq DOMAIN groups
      BY DEF Passing
    <2> QED
      BY <2>1, FS_Subset, FS_CardinalityType DEF StateInv, GroupsInv
  <1>2. Total(Entries) \in Nat
    BY CountsAreNumbers
  <1> QED
    BY <1>1, <1>2 DEF Due

LEMMA DueStays ==
    ASSUME UNCHANGED <<query, groups, where>>
    PROVE  Due' = Due
  <1>1. Operator' = Operator /\ Passing' = Passing /\ Entries' = Entries
    BY DEF Operator, Passing, Entries, Tracking
  <1> QED
    BY <1>1 DEF Due

LEMMA EvaluateCounts ==
    ASSUME QueryInv, Evaluate
    PROVE  CountInv'
  <1>1. /\ remaining' = Entries /\ listed' = <<>> /\ given' = <<>> /\ groups' = <<>> /\ UNCHANGED <<query, where>>
    BY DEF Evaluate
  <1>2. \/ phase' = Operator
        \/ phase' = "done" /\ where = <<>> /\ Operator # "implicit"
    BY DEF Evaluate
  <1>3. Operator \in {"implicit", "explicit", "project", "sort"} /\ Operator' = Operator /\ Entries' = Entries
    BY <1>1 DEF Operator, Entries, Tracking
  <1>4. HasNumbers(<<>>) /\ Total(<<>>) = 0 /\ EntriesOf(<<>>) = <<>>
    <2>1. EntriesOf(<<>>) = [i \in 1 .. 0 |-> EntriesOf(<<>>)[i]]
      BY EmptyIsSequence DEF EntriesOf
    <2>2. Sequence(EntriesOf(<<>>)) /\ Len(EntriesOf(<<>>)) = 0
      BY <2>1, TuplesAreSequences
    <2> QED
      BY <2>2, NothingCounted, SequenceShape
  <1>5. Total(Entries) \in Nat
    BY CountsAreNumbers
  <1>6. CASE Operator \in {"project", "sort"} /\ phase' = Operator
    <2>1. Due' = Total(Entries)
      BY <1>3, <1>6 DEF Due
    <2>2. phase' \in {"project", "sort"}
      BY <1>6
    <2>3. HasNumbers(EntriesOf(listed')) /\ Total(given') + Total(EntriesOf(listed')) + Total(remaining') = Due'
      BY <1>1, <1>4, <1>5, <2>1
    <2> QED
      BY <2>2, <2>3 DEF CountInv, EntriesOf
  <1>7. CASE Operator \in {"implicit", "explicit"} /\ phase' = Operator
    BY <1>1, <1>7 DEF CountInv
  <1>8. CASE phase' = "done" /\ where = <<>> /\ Operator # "implicit"
    <2>1. Passing' = {} /\ Cardinality({}) = 0
      BY <1>1, FS_EmptySet DEF Passing
    <2>2. Total(Entries) = 0
      <3>1. Total(where) = 0
        BY <1>8, <1>4
      <3>2. CASE query.tracked = {}
        <4> DEFINE e == [key |-> <<>>, value |-> Total(where)]
        <4>1. e.value = 0
          BY <3>1
        <4> HIDE DEF e
        <4>2. Entries = Append(<<>>, e)
          BY <3>2 DEF Entries, e
        <4>3. e.value \in Nat
          BY <4>1
        <4>4. Total(Append(<<>>, e)) = Total(<<>>) + e.value
          BY <1>4, <4>3, TotalOfMore
        <4>5. Total(Append(<<>>, e)) = 0
          BY <1>4, <4>1, <4>4
        <4> QED
          BY <4>2, <4>5
      <3>3. CASE query.tracked # {}
        <4>1. Entries = [i \in DOMAIN where |-> Tracking(where[i])]
          BY <3>3 DEF Entries
        <4>2. DOMAIN where = 1 .. 0
          BY <1>8
        <4>3. Entries = [i \in 1 .. 0 |-> Entries[i]]
          BY <4>1, <4>2
        <4>4. Sequence(Entries) /\ Len(Entries) = 0
          BY <4>3, TuplesAreSequences
        <4>5. Entries = <<>>
          BY <4>4, SequenceShape
        <4> QED
          BY <1>4, <4>5
      <3> QED
        BY <3>2, <3>3
    <2>3. Due' = 0
      BY <1>3, <1>8, <2>1, <2>2 DEF Due
    <2> QED
      BY <1>1, <1>4, <1>8, <2>3 DEF CountInv
  <1> QED
    BY <1>2, <1>3, <1>6, <1>7, <1>8

LEMMA ProjectCounts ==
    ASSUME QueryInv, StateInv, EvaluationInv, CountInv, Project \/ Sort \/ ProjectSorted \/ Exhausted
    PROVE  CountInv'
  <1>1. phase \in {"project", "sort"} /\ UNCHANGED <<query, groups, where>>
    BY DEF Project, Sort, ProjectSorted, Exhausted
  <1>2. PICK g, l, r, d : g = given /\ l = listed /\ r = remaining /\ d = Due
    OBVIOUS
  <1>3. /\ HasNumbers(g) /\ Sequence(l) /\ HasNumbers(EntriesOf(l)) /\ HasNumbers(r)
        /\ Total(g) + Total(EntriesOf(l)) + Total(r) = d
        /\ phase = "project" => l = <<>>
    BY <1>1, <1>2, CountsAreNumbers DEF CountInv, StateInv, ListedInv, EntriesOf
  <1>4. Total(g) \in Nat /\ Total(EntriesOf(l)) \in Nat /\ Total(r) \in Nat /\ d \in Nat
    <2>1. Total(g) \in Nat /\ Total(EntriesOf(l)) \in Nat /\ Total(r) \in Nat
      BY <1>3, CountsAreNumbers
    <2>2. d \in Nat
      BY <1>2, DueIsANumber
    <2> QED
      BY <2>1, <2>2
  <1>5. Due' = d
    BY <1>1, <1>2, DueStays
  <1>6. EntriesOf(<<>>) = <<>> /\ Total(<<>>) = 0
    <2>1. EntriesOf(<<>>) = [i \in 1 .. 0 |-> EntriesOf(<<>>)[i]]
      BY EmptyIsSequence DEF EntriesOf
    <2>2. Sequence(EntriesOf(<<>>)) /\ Len(EntriesOf(<<>>)) = 0
      BY <2>1, TuplesAreSequences
    <2> QED
      BY <2>2, NothingCounted, SequenceShape
  <1>7. CASE Sort
    <2>1. PICK desc, item : /\ item.of = Head(r) /\ listed' = Inserted(desc, l, item) /\ r # <<>> /\ remaining' = Tail(r)
                            /\ given' = g /\ phase' = "sort"
      BY <1>2, <1>7 DEF Sort, Consume
    <2>2. /\ HasNumbers(Tail(r)) /\ Head(r).value \in Nat /\ Total(Tail(r)) \in Nat
          /\ Total(r) = Total(Tail(r)) + Head(r).value
      BY <1>3, <2>1, TotalOfRest
    <2>3. item.of.value \in Nat
      BY <2>1, <2>2
    <2>4. /\ HasNumbers(EntriesOf(listed'))
          /\ Total(EntriesOf(listed')) = Total(EntriesOf(l)) + item.of.value
      BY <1>3, <2>1, <2>3, TotalOfListed
    <2>5. Total(given') + Total(EntriesOf(listed')) + Total(remaining') = Due'
      BY <1>3, <1>4, <1>5, <2>1, <2>2, <2>4
    <2>6. EntriesOf(listed)' = EntriesOf(listed')
      BY DEF EntriesOf
    <2> QED
      BY <2>1, <2>4, <2>5, <2>6 DEF CountInv
  <1>8. CASE Project
    <2>1. PICK e : /\ e.value = Head(r).value /\ given' = Append(g, e) /\ r # <<>> /\ remaining' = Tail(r)
                   /\ listed' = l /\ l = <<>>
                   /\ phase' = IF page'.broken \/ remaining' = <<>> THEN "done" ELSE "project"
      <3>1. PICK entry : entry = Head(remaining)
        OBVIOUS
      <3>2. ProjectAndYield(entry)
        BY <1>8, <3>1 DEF Project
      <3>3. PICK row : given' = Append(given, [row |-> row, value |-> entry.value])
        BY <3>2 DEF ProjectAndYield, Yield
      <3>4. PICK e : e = [row |-> row, value |-> entry.value]
        OBVIOUS
      <3>5. e.value = Head(r).value /\ given' = Append(g, e)
        BY <1>2, <3>1, <3>3, <3>4
      <3>6. /\ r # <<>> /\ remaining' = Tail(r) /\ listed' = l /\ l = <<>>
            /\ phase' = IF page'.broken \/ remaining' = <<>> THEN "done" ELSE "project"
        BY <1>2, <1>3, <1>8 DEF Project, Consume, Ends
      <3> QED
        BY <3>5, <3>6
    <2>2. /\ HasNumbers(Tail(r)) /\ Head(r).value \in Nat /\ Total(Tail(r)) \in Nat
          /\ Total(r) = Total(Tail(r)) + Head(r).value
      BY <1>3, <2>1, TotalOfRest
    <2>3. Total(given') = Total(g) + Head(r).value
      BY <1>3, <2>1, <2>2, TotalOfMore
    <2>4. EntriesOf(listed)' = EntriesOf(l)
      BY <2>1 DEF EntriesOf
    <2>5. Total(given') + Total(EntriesOf(l)) + Total(remaining') = Due'
      BY <1>3, <1>4, <1>5, <2>1, <2>2, <2>3
    <2>6. CASE phase' = "project"
      BY <1>3, <2>4, <2>5, <2>6 DEF CountInv
    <2>7. CASE phase' = "done"
      <3>1. Total(given') \in Nat /\ Total(given') <= Due'
        BY <1>4, <2>1, <2>2, <2>3, <2>5
      <3>2. page'.broken \/ Total(given') = Due'
        <4>1. page'.broken \/ remaining' = <<>>
          BY <2>1, <2>7
        <4>2. Total(EntriesOf(l)) = 0
          BY <1>6, <2>1
        <4> QED
          BY <1>6, <2>5, <3>1, <4>1, <4>2
      <3> QED
        BY <2>7, <3>1, <3>2 DEF CountInv
    <2> QED
      BY <2>1, <2>6, <2>7
  <1>9. CASE ProjectSorted
    <2>1. PICK e : /\ e.value = Head(l).of.value /\ given' = Append(g, e) /\ l # <<>> /\ listed' = Tail(l)
                   /\ remaining' = r /\ r = <<>>
                   /\ phase' = IF page'.broken \/ listed' = <<>> THEN "done" ELSE "sort"
      <3>1. PICK entry : entry = Head(listed).of
        OBVIOUS
      <3>2. ProjectAndYield(entry)
        BY <1>9, <3>1 DEF ProjectSorted
      <3>3. PICK row : given' = Append(given, [row |-> row, value |-> entry.value])
        BY <3>2 DEF ProjectAndYield, Yield
      <3>4. PICK e : e = [row |-> row, value |-> entry.value]
        OBVIOUS
      <3>5. e.value = Head(l).of.value /\ given' = Append(g, e)
        BY <1>2, <3>1, <3>3, <3>4
      <3>6. /\ l # <<>> /\ listed' = Tail(l) /\ remaining' = r /\ r = <<>>
            /\ phase' = IF page'.broken \/ listed' = <<>> THEN "done" ELSE "sort"
        BY <1>2, <1>9 DEF ProjectSorted, Ends
      <3> QED
        BY <3>5, <3>6
    <2>2. /\ HasNumbers(EntriesOf(Tail(l))) /\ Head(l).of.value \in Nat
          /\ Total(EntriesOf(l)) = Total(EntriesOf(Tail(l))) + Head(l).of.value
      BY <1>3, <2>1, TotalOfRestListed
    <2>3. Total(given') = Total(g) + Head(l).of.value
      BY <1>3, <2>1, <2>2, TotalOfMore
    <2>4. EntriesOf(listed)' = EntriesOf(Tail(l)) /\ Total(EntriesOf(Tail(l))) \in Nat
      BY <2>1, <2>2, CountsAreNumbers DEF EntriesOf
    <2>5. Total(given') + Total(EntriesOf(Tail(l))) + Total(remaining') = Due'
      BY <1>3, <1>4, <1>5, <2>1, <2>2, <2>3, <2>4
    <2>6. CASE phase' = "sort"
      BY <2>2, <2>4, <2>5, <2>6 DEF CountInv
    <2>7. CASE phase' = "done"
      <3>1. Total(given') \in Nat /\ Total(given') <= Due'
        BY <1>4, <2>1, <2>2, <2>3, <2>4, <2>5
      <3>2. page'.broken \/ Total(given') = Due'
        <4>1. page'.broken \/ Tail(l) = <<>>
          BY <2>1, <2>7
        <4>2. Total(remaining') = 0
          BY <1>6, <2>1
        <4>3. CASE Tail(l) = <<>>
          <5>1. Total(EntriesOf(Tail(l))) = 0
            BY <1>6, <4>3
          <5>2. PICK m, n, o, p : m = Total(given') /\ n = Total(EntriesOf(Tail(l))) /\ o = Total(remaining') /\ p = Due'
            OBVIOUS
          <5>3. m + n + o = p /\ n = 0 /\ o = 0 /\ m \in Nat
            BY <2>5, <3>1, <4>2, <5>1, <5>2
          <5> QED
            BY <5>2, <5>3
        <4> QED
          BY <4>1, <4>3
      <3> QED
        BY <2>7, <3>1, <3>2 DEF CountInv
    <2> QED
      BY <2>1, <2>6, <2>7
  <1>10. CASE Exhausted
    <2>1. r = <<>> /\ l = <<>> /\ given' = g /\ phase' = "done"
      BY <1>2, <1>10 DEF Exhausted
    <2>2. Total(given') = Due' /\ Total(given') \in Nat
      BY <1>3, <1>4, <1>5, <1>6, <2>1
    <2> QED
      BY <2>1, <2>2 DEF CountInv
  <1> QED
    BY <1>7, <1>8, <1>9, <1>10

LEMMA AggregatesCount ==
    ASSUME QueryInv, StateInv, EvaluationInv, CountInv, Aggregating \/ YieldAggregate \/ Grouping
    PROVE  CountInv'
  <1>1. phase \in {"implicit", "explicit"} /\ given = <<>> /\ (phase = "implicit" => Operator = "implicit")
    BY DEF CountInv, QueryInv, Aggregating, YieldAggregate, Grouping
  <1>2. CASE Aggregating \/ Grouping
    <2>1. given' = <<>> /\ phase' \in {"implicit", "explicit"}
      BY <1>1, <1>2 DEF Aggregating, Grouping
    <2> QED
      BY <2>1 DEF CountInv
  <1>3. CASE YieldAggregate
    <2>1. PICK e : e.value = 1 /\ given' = Append(given, e)
      <3>1. PICK row : given' = Append(given, [row |-> row, value |-> 1])
        BY <1>3 DEF YieldAggregate, Yield
      <3>2. PICK e : e = [row |-> row, value |-> 1]
        OBVIOUS
      <3> QED
        BY <3>1, <3>2
    <2>2. phase = "implicit" /\ phase' = "done" /\ UNCHANGED <<query, groups, where>>
      BY <1>3 DEF YieldAggregate, Ends
    <2>3. Due = 1
      BY <1>1, <2>2 DEF Due
    <2>4. Due' = 1
      BY <2>2, <2>3, DueStays
    <2>5. Total(Append(<<>>, e)) = Total(<<>>) + e.value
      <3>1. e.value \in Nat
        BY <2>1
      <3> QED
        BY <3>1, NothingCounted, TotalOfMore
    <2>6. Total(Append(<<>>, e)) = 1
      BY <2>1, <2>5, NothingCounted
    <2>7. Total(given') = 1
      BY <1>1, <2>1, <2>6
    <2> QED
      BY <2>2, <2>4, <2>7 DEF CountInv
  <1> QED
    BY <1>2, <1>3

LEMMA GroupsCount ==
    ASSUME QueryInv, StateInv, EvaluationInv, CountInv, ListGroups \/ YieldGroup
    PROVE  CountInv'
  <1>1. UNCHANGED <<query, groups, where>> /\ phase \in {"explicit", "groups"} /\ Operator = "explicit"
    BY DEF ListGroups, YieldGroup, QueryInv
  <1>2. PICK g, l, d : g = given /\ l = listed /\ d = Due
    OBVIOUS
  <1>3. d = Cardinality(Passing) /\ d \in Nat
    BY <1>1, <1>2, DueIsANumber DEF Due
  <1>4. Due' = d
    BY <1>1, <1>2, DueStays
  <1>5. Sequence(l) /\ HasNumbers(g) /\ Total(g) \in Nat
    BY <1>2, CountsAreNumbers DEF StateInv, ListedInv
  <1>6. CASE ListGroups
    <2>1. PICK keys \in SetToSeqs(Passing) : listed' = InsertedAll(query.ordering_type, GroupItems(keys))
      BY <1>6 DEF ListGroups
    <2>2. PICK items, desc : items = GroupItems(keys) /\ desc = query.ordering_type
      OBVIOUS
    <2>3. Sequence(items) /\ Len(items) = d
      BY <1>3, <2>2, GroupsAreListed DEF StateInv
    <2>4. PICK S : items \in Seq(S)
      BY <2>3 DEF Sequence
    <2>5. PICK r : r = InsertedAll(desc, items)
      OBVIOUS
    <2>6. r \in Seq(S) /\ Len(r) = Len(items)
      BY <2>4, <2>5, InsertedAllSorts DEF Sorts, Permutes
    <2>7. Sequence(r) /\ Len(r) = d /\ listed' = r
      BY <2>1, <2>2, <2>3, <2>5, <2>6 DEF Sequence
    <2>8. given' = <<>> /\ phase' = IF r = <<>> THEN "done" ELSE "groups"
      BY <1>6, <2>7 DEF ListGroups, CountInv
    <2>9. Total(given') = 0
      BY <2>8, NothingCounted
    <2>10. CASE r = <<>>
      <3>1. d = 0 /\ phase' = "done"
        BY <2>7, <2>8, <2>10, SequenceShape
      <3> QED
        BY <1>4, <2>9, <3>1 DEF CountInv
    <2>11. CASE r # <<>>
      BY <1>3, <1>4, <2>7, <2>8, <2>9, <2>11 DEF CountInv
    <2> QED
      BY <2>10, <2>11
  <1>7. CASE YieldGroup
    <2>1. PICK e : e.value = 1 /\ given' = Append(g, e)
      <3>1. PICK key : Yield(Values(groups[key].solution), 1)
        BY <1>7 DEF YieldGroup
      <3>2. PICK row : given' = Append(given, [row |-> row, value |-> 1])
        BY <3>1 DEF Yield
      <3>3. PICK e : e = [row |-> row, value |-> 1]
        OBVIOUS
      <3> QED
        BY <1>2, <3>2, <3>3
    <2>2. l # <<>> /\ listed' = Tail(l) /\ phase' = (IF page'.broken \/ listed' = <<>> THEN "done" ELSE "groups") /\ phase = "groups"
      BY <1>2, <1>7 DEF YieldGroup, Ends
    <2>3. Total(g) + Len(l) = d
      BY <1>2, <2>2 DEF CountInv
    <2>4. Sequence(Tail(l)) /\ Len(l) \in Nat \ {0} /\ Len(Tail(l)) = Len(l) - 1
      BY <1>5, <2>2, TailsAreSequences
    <2>5. Total(Append(g, e)) = Total(g) + e.value
      <3>1. e.value \in Nat
        BY <2>1
      <3> QED
        BY <1>5, <3>1, TotalOfMore
    <2>6. Total(given') = Total(g) + 1
      BY <2>1, <2>5
    <2>7. Total(given') + Len(listed') = Due'
      BY <1>3, <1>4, <1>5, <2>2, <2>3, <2>4, <2>6
    <2>8. CASE phase' = "groups"
      BY <2>7, <2>8 DEF CountInv
    <2>9. CASE phase' = "done"
      <3>1. Total(given') <= Due' /\ (listed' = <<>> => Total(given') = Due')
        <4>1. Tail(l) = <<>> => Len(Tail(l)) = 0
          BY <2>4, SequenceShape
        <4>2. PICK n, m, c : n = Total(given') /\ m = Len(Tail(l)) /\ c = Total(g)
          OBVIOUS
        <4>3. c \in Nat /\ n = c + 1 /\ m \in Nat /\ n + m = d /\ d \in Nat
          BY <1>3, <1>4, <1>5, <2>2, <2>4, <2>6, <2>7, <4>2
        <4>4. n <= d /\ (m = 0 => n = d)
          BY <4>3
        <4> QED
          BY <1>4, <2>2, <4>1, <4>2, <4>4
      <3> QED
        BY <2>2, <2>9, <3>1 DEF CountInv
    <2> QED
      BY <2>2, <2>8, <2>9
  <1> QED
    BY <1>6, <1>7

LEMMA CountInvHolds == Spec => []CountInv
  <1>1. Init => CountInv
    BY DEF Init, CountInv
  <1>2. QueryInv /\ StateInv /\ EvaluationInv /\ CountInv /\ [Next]_vars => CountInv'
    <2> SUFFICES ASSUME QueryInv, StateInv, EvaluationInv, CountInv, [Next]_vars
                 PROVE  CountInv'
      OBVIOUS
    <2>1. CASE Parse
      BY <2>1 DEF Parse, CountInv
    <2>2. CASE UNCHANGED vars
      <3>1. UNCHANGED <<phase, query, groups, where, given, listed, remaining, page>>
        BY <2>2 DEF vars
      <3>2. Due' = Due /\ EntriesOf(listed)' = EntriesOf(listed)
        BY <3>1, DueStays DEF EntriesOf
      <3> QED
        BY <3>1, <3>2 DEF CountInv
    <2> QED
      BY <2>1, <2>2, EvaluateCounts, ProjectCounts, AggregatesCount, GroupsCount DEF Next
  <1> QED
    BY <1>1, <1>2, QueryInvHolds, StateInvHolds, EvaluationInvHolds, PTL DEF Spec

LEMMA PageHasNumbers ==
    ASSUME NEW q, NEW R, NEW s, NEW p, PageInv(q, R, s, p)
    PROVE  HasNumbers(p.answers)
  <1>1. PICK a : a = p.answers
    OBVIOUS
  <1>2. a \in Seq(Counts(R))
    BY <1>1 DEF PageInv, Pages
  <1>3. \A i \in 1 .. Len(a) : a[i] \in Counts(R)
    BY <1>2, ElementOfSeq
  <1>4. HasNumbers(a)
    BY <1>2, <1>3 DEF HasNumbers, Sequence, Counts
  <1> QED
    BY <1>1, <1>4

(* An evaluation that has ended has yielded every solution that was due,   *)
(* unless LIMIT was reached, and then the page is full.                    *)
EvaluationIsComplete ==
    phase = "done" =>
        \/ Total(given) = Due
        \/ syntax.limit # -1 /\ Total(page.answers) = syntax.limit
THEOREM EvaluationsAreComplete == Spec => []EvaluationIsComplete
  <1>1. QueryInv /\ EvaluationInv /\ CountInv => EvaluationIsComplete
    <2> SUFFICES ASSUME QueryInv, EvaluationInv, CountInv, phase = "done", page.broken
                 PROVE  syntax.limit # -1 /\ Total(page.answers) = syntax.limit
      BY DEF EvaluationIsComplete, CountInv
    <2>1. PICK R : PageInv(syntax, R, given, page)
      BY DEF EvaluationInv
    <2>2. HasNumbers(page.answers)
      BY <2>1, PageHasNumbers
    <2>3. PICK input : PageOf(syntax, input, page)
      BY <2>1 DEF PageInv
    <2>4. PICK g, a : RunningTotals(a, page.answers)
                      /\ CountersAgree(syntax, page, g[Len(input)], a[Len(page.answers)])
      BY <2>3 DEF PageOf
    <2>5. a[Len(page.answers)] = Total(page.answers)
      BY <2>2, <2>4, TotalsAreUnique
    <2> QED
      BY <2>4, <2>5 DEF CountersAgree
  <1> QED
    BY <1>1, QueryInvHolds, EvaluationInvHolds, CountInvHolds, PTL

(* Without DISTINCT, the reader has then got as many solutions as OFFSET   *)
(* and LIMIT leave of those that were due, no more and no less, even when  *)
(* the evaluation was cut short.                                           *)
PageIsFull == phase = "done" /\ ~syntax.distinct => Total(page.answers) = OnPage(syntax, Due)
THEOREM PagesAreFull == Spec => []PageIsFull
  <1>1. QueryInv /\ StateInv /\ EvaluationInv /\ CountInv => PageIsFull
    <2> SUFFICES ASSUME QueryInv, StateInv, EvaluationInv, CountInv, phase = "done", ~syntax.distinct
                 PROVE  Total(page.answers) = OnPage(syntax, Due)
      BY DEF PageIsFull
    <2>1. PICK R : PageInv(syntax, R, given, page)
      BY DEF EvaluationInv
    <2>2. HasNumbers(page.answers) /\ HasNumbers(given)
      BY <2>1, PageHasNumbers, CountsAreNumbers
    <2>3. PICK g, a : /\ RunningTotals(g, given) /\ RunningTotals(a, page.answers)
                      /\ CountersAgree(syntax, page, g[Len(given)], a[Len(page.answers)])
      BY <2>1 DEF PageInv, PageOf
    <2>4. PICK n, m, d : n = Total(given) /\ m = Total(page.answers) /\ d = Due
      OBVIOUS
    <2>5. g[Len(given)] = n /\ a[Len(page.answers)] = m /\ n \in Nat /\ m \in Nat
      BY <2>2, <2>3, <2>4, TotalsAreUnique
    <2>6. n <= d /\ (page.broken \/ n = d) /\ d \in Nat
      BY <2>4, DueIsANumber DEF CountInv
    <2>7. m = OnPage(syntax, n) /\ (page.broken => syntax.limit # -1 /\ m = syntax.limit)
      BY <2>3, <2>5 DEF CountersAgree
    <2>8. CASE n = d
      BY <2>4, <2>7, <2>8
    <2>9. CASE n # d
      <3>1. page.broken /\ n < d /\ m = syntax.limit /\ syntax.limit # -1 /\ m = OnPage(syntax, n)
        BY <2>5, <2>6, <2>7, <2>9
      <3>2. Skipped(syntax) \in Nat /\ syntax.limit \in Nat
        BY <3>1, InputsAssumption DEF QueryInv, Skipped
      <3>3. m = OnPage(syntax, d)
        BY <2>5, <2>6, <3>1, <3>2 DEF OnPage
      <3> QED
        BY <2>4, <3>3
    <2> QED
      BY <2>8, <2>9
  <1> QED
    BY <1>1, QueryInvHolds, StateInvHolds, EvaluationInvHolds, CountInvHolds, PTL

-----------------------------------------------------------------------------
(* ORDER BY.  What is left of a sorted list of items when n of them have   *)
(* been taken from it.                                                     *)
LeftOf(desc, items, sorted, f, list, n) ==
    /\ Sequence(sorted) /\ Sorts(desc, items, sorted, f)
    /\ n + Len(list) = Len(sorted)
    /\ \A i \in 1 .. Len(list) : list[i] = sorted[n + i]

LEMMA InsertingIsSorting ==
    ASSUME NEW desc, NEW items, Sequence(items), NEW sorted, NEW f, NEW list, Sequence(list),
           LeftOf(desc, items, sorted, f, list, 0), NEW item
    PROVE  \E g : LeftOf(desc, Append(items, item), Inserted(desc, list, item), g, Inserted(desc, list, item), 0)
  <1>1. PICK A, B : items \in Seq(A) /\ list \in Seq(B)
    BY DEF Sequence
  <1> DEFINE S == A \cup B \cup {item}
  <1>2. items \in Seq(S) /\ list \in Seq(S) /\ item \in S
    <2>1. A \subseteq S /\ B \subseteq S /\ item \in S
      OBVIOUS
    <2> HIDE DEF S
    <2> QED
      BY <1>1, <2>1, SequencesOfMore
  <1> HIDE DEF S
  <1>3. /\ Len(list) \in Nat /\ list = [i \in 1 .. Len(list) |-> list[i]]
        /\ Len(sorted) \in Nat /\ sorted = [i \in 1 .. Len(sorted) |-> sorted[i]]
    BY SequenceShape DEF LeftOf
  <1>4. Sorts(desc, items, sorted, f) /\ Len(list) = Len(sorted) /\ \A i \in 1 .. Len(list) : list[i] = sorted[i]
    BY <1>3 DEF LeftOf
  <1>5. Sorts(desc, items, list, f)
    <2>1. list = sorted
      BY <1>3, <1>4
    <2> QED
      BY <1>4, <2>1
  <1>6. PICK r : r = Inserted(desc, list, item)
    OBVIOUS
  <1>7. r \in Seq(S) /\ \E g : Sorts(desc, Append(items, item), r, g)
    BY <1>2, <1>5, <1>6, InsertionSorts
  <1>8. Sequence(r) /\ Len(r) \in Nat
    BY <1>7, LenProperties DEF Sequence
  <1>9. \E g : LeftOf(desc, Append(items, item), r, g, r, 0)
    BY <1>7, <1>8 DEF LeftOf
  <1> QED
    BY <1>6, <1>9

LEMMA RestIsLeft ==
    ASSUME NEW desc, NEW items, NEW sorted, NEW f, NEW list, Sequence(list), list # <<>>, NEW n \in Nat,
           LeftOf(desc, items, sorted, f, list, n)
    PROVE  LeftOf(desc, items, sorted, f, Tail(list), n + 1) /\ Head(list) = sorted[n + 1]
  <1>1. PICK m, t : m = Len(list) /\ t = Tail(list)
    OBVIOUS
  <1>2. /\ m \in Nat \ {0} /\ Len(t) = m - 1 /\ Head(list) = list[1] /\ \A i \in 1 .. m - 1 : t[i] = list[i + 1]
    BY <1>1, TailsAreSequences
  <1>3. n + m = Len(sorted) /\ \A i \in 1 .. m : list[i] = sorted[n + i]
    BY <1>1 DEF LeftOf
  <1>4. Head(list) = sorted[n + 1]
    <2>1. 1 \in 1 .. m
      BY <1>2
    <2> QED
      BY <1>2, <1>3, <2>1
  <1>5. ASSUME NEW i \in 1 .. m - 1
        PROVE  t[i] = sorted[n + 1 + i]
    <2>1. i + 1 \in 1 .. m /\ n + (i + 1) = n + 1 + i
      BY <1>2
    <2>2. list[i + 1] = sorted[n + (i + 1)]
      BY <1>3, <2>1
    <2> QED
      BY <1>2, <2>1, <2>2
  <1>6. n + 1 + Len(t) = Len(sorted)
    <2>1. n + 1 + Len(t) = n + m
      BY <1>2
    <2> QED
      BY <1>3, <2>1
  <1>7. LeftOf(desc, items, sorted, f, t, n + 1)
    BY <1>2, <1>5, <1>6 DEF LeftOf
  <1> QED
    BY <1>1, <1>4, <1>7

LEMMA NothingIsLeft ==
    ASSUME NEW desc, NEW items, items = [i \in 1 .. 0 |-> items[i]]
    PROVE  \E f : LeftOf(desc, items, <<>>, f, <<>>, 0)
  <1>1. Sorts(desc, items, <<>>, [i \in {} |-> i])
    BY NothingIsSorted
  <1>2. LeftOf(desc, items, <<>>, [i \in {} |-> i], <<>>, 0)
    BY <1>1, EmptyIsSequence DEF LeftOf
  <1> QED
    BY <1>2

(* The first m entries with their ranks, and what has been projected of    *)
(* them and what is left when they have been sorted.                       *)
Ranked(entry) == [ranks |-> RanksOf(entry), of |-> entry]
Arrived(m) == [i \in 1 .. m |-> Ranked(Entries[i])]
Projects(e, entry) == e.value = entry.value /\ \E exprs : e.row = Values(UpdateAll(exprs, entry.key))
ProjectedInOrder(list, s, m) ==
    \E sorted, f : /\ LeftOf(query.ordering_type, Arrived(m), sorted, f, list, Len(s))
                   /\ \A i \in 1 .. Len(s) : Projects(s[i], sorted[i].of)

LEMMA ArrivedProperties ==
    ASSUME NEW m \in Nat
    PROVE  /\ Sequence(Arrived(m)) /\ Len(Arrived(m)) = m
           /\ m > 0 => Arrived(m) = Append(Arrived(m - 1), Ranked(Entries[m]))
  <1>1. ASSUME NEW k \in Nat
        PROVE  Sequence(Arrived(k)) /\ Len(Arrived(k)) = k /\ \A i \in 1 .. k : Arrived(k)[i] = Ranked(Entries[i])
    <2>1. Arrived(k) = [i \in 1 .. k |-> Arrived(k)[i]] /\ \A i \in 1 .. k : Arrived(k)[i] = Ranked(Entries[i])
      BY DEF Arrived
    <2> QED
      BY <2>1, TuplesAreSequences
  <1>2. ASSUME m > 0
        PROVE  Arrived(m) = Append(Arrived(m - 1), Ranked(Entries[m]))
    <2>1. PICK a, b, e : a = Arrived(m) /\ b = Arrived(m - 1) /\ e = Ranked(Entries[m])
      OBVIOUS
    <2>2. m - 1 \in Nat /\ m - 1 + 1 = m /\ m \in 1 .. m /\ \A i \in 1 .. m : i = m \/ i \in 1 .. m - 1
      BY <1>2
    <2>3. Sequence(a) /\ Len(a) = m /\ a[m] = e /\ \A i \in 1 .. m : a[i] = Ranked(Entries[i])
      BY <1>1, <2>1, <2>2
    <2>4. Sequence(b) /\ Len(b) = m - 1 /\ \A i \in 1 .. m - 1 : b[i] = Ranked(Entries[i])
      BY <1>1, <2>1, <2>2
    <2>5. PICK c : c = Append(b, e)
      OBVIOUS
    <2>6. Sequence(c) /\ Len(c) = m /\ c[m] = e /\ \A i \in 1 .. m - 1 : c[i] = b[i]
      BY <2>2, <2>4, <2>5, AppendedSequences
    <2>7. \A i \in 1 .. m : a[i] = c[i]
      BY <2>2, <2>3, <2>4, <2>6
    <2>8. a = [i \in 1 .. m |-> a[i]] /\ c = [i \in 1 .. m |-> c[i]]
      BY <2>3, <2>6, SequenceShape
    <2> QED
      BY <2>1, <2>5, <2>7, <2>8
  <1> QED
    BY <1>1, <1>2

LEMMA OrderStays ==
    ASSUME UNCHANGED <<query, where>>
    PROVE  /\ Entries' = Entries /\ Operator' = Operator
           /\ \A list, s, m : ProjectedInOrder(list, s, m)' = ProjectedInOrder(list, s, m)
  BY DEF Entries, Operator, Tracking, RanksOf, ProjectedInOrder, Ranked, Arrived

(* While an evaluation sorts, its first m entries have arrived and the     *)
(* others remain; when it projects, and when it has ended, all of them     *)
(* have.                                                                   *)
HaveArrived(m) ==
    /\ Len(remaining) = Len(Entries) - m /\ \A j \in 1 .. Len(remaining) : remaining[j] = Entries[m + j]
    /\ given # <<>> => m = Len(Entries)
    /\ ProjectedInOrder(listed, given, m)
SortInv ==
    phase \in {"sort", "done"} /\ Operator = "sort" =>
        /\ \E m \in 0 .. Len(Entries) : HaveArrived(m)
        /\ phase = "done" => remaining = <<>>

LEMMA HaveArrivedNext ==
    ASSUME UNCHANGED <<query, where>>, NEW r, NEW l, NEW s, remaining' = r, listed' = l, given' = s, NEW m,
           Len(r) = Len(Entries) - m, \A j \in 1 .. Len(r) : r[j] = Entries[m + j],
           s # <<>> => m = Len(Entries), ProjectedInOrder(l, s, m)
    PROVE  HaveArrived(m)'
  <1>1. /\ Entries' = Entries
        /\ ProjectedInOrder(listed, given, m)' = ProjectedInOrder(listed', given', m)
    BY DEF Entries, Operator, Tracking, RanksOf, ProjectedInOrder, Ranked, Arrived
  <1> QED
    BY <1>1 DEF HaveArrived

LEMMA SortStarts ==
    ASSUME QueryInv, Evaluate
    PROVE  SortInv'
  <1>1. remaining' = Entries /\ listed' = <<>> /\ given' = <<>> /\ UNCHANGED <<query, where>>
    BY DEF Evaluate
  <1>2. Sequence(Entries) /\ Len(Entries) \in Nat
    BY EntriesFit, SequenceShape
  <1>3. ProjectedInOrder(<<>>, <<>>, 0)
    <2>1. Arrived(0) = [i \in 1 .. 0 |-> Arrived(0)[i]]
      BY DEF Arrived
    <2>2. PICK f : LeftOf(query.ordering_type, Arrived(0), <<>>, f, <<>>, 0)
      BY <2>1, NothingIsLeft
    <2> QED
      BY <2>2, EmptyIsSequence DEF ProjectedInOrder
  <1>4. PICK r : r = Entries
    OBVIOUS
  <1>5. Len(r) = Len(Entries) - 0 /\ \A j \in 1 .. Len(r) : r[j] = Entries[0 + j]
    BY <1>2, <1>4
  <1>6. HaveArrived(0)'
    BY <1>1, <1>3, <1>4, <1>5, HaveArrivedNext
  <1>7. Entries' = Entries /\ Operator' = Operator /\ 0 \in 0 .. Len(Entries)
    BY <1>1, <1>2, OrderStays
  <1>8. ASSUME phase' = "done", Operator = "sort"
        PROVE  remaining' = <<>>
    <2>1. where = <<>> /\ query.tracked # {}
      BY <1>8 DEF Evaluate, Operator
    <2>2. Entries = [i \in 1 .. 0 |-> Entries[i]]
      BY <2>1 DEF Entries
    <2>3. Len(Entries) = 0
      BY <2>2, TuplesAreSequences
    <2> QED
      BY <1>1, <1>2, <2>3, SequenceShape
  <1> QED
    BY <1>6, <1>7, <1>8 DEF SortInv

LEMMA SortKeeps ==
    ASSUME QueryInv, StateInv, SortInv, Sort
    PROVE  SortInv'
  <1>1. PICK r, l, e : r = remaining /\ l = listed /\ e = Head(remaining)
    OBVIOUS
  <1>2. /\ phase = "sort" /\ r # <<>> /\ remaining' = Tail(r) /\ given' = given /\ phase' = "sort"
        /\ listed' = Inserted(query.ordering_type, l, Ranked(e)) /\ UNCHANGED <<query, where>>
    BY <1>1 DEF Sort, Consume, Ranked
  <1>3. Operator = "sort"
    BY <1>2 DEF QueryInv
  <1>4. PICK k \in 0 .. Len(Entries) : HaveArrived(k)
    BY <1>2, <1>3 DEF SortInv
  <1>5. Len(Entries) \in Nat
    BY EntriesFit, SequenceShape
  <1>6. /\ Len(r) \in Nat \ {0} /\ Len(Tail(r)) = Len(r) - 1 /\ e = r[1]
        /\ \A i \in 1 .. Len(r) - 1 : Tail(r)[i] = r[i + 1]
    BY <1>1, <1>2, TailsAreSequences DEF StateInv, RemainingInv
  <1>7. /\ Len(r) = Len(Entries) - k /\ \A j \in 1 .. Len(r) : r[j] = Entries[k + j]
        /\ given # <<>> => k = Len(Entries)
        /\ ProjectedInOrder(l, given, k)
    BY <1>1, <1>4 DEF HaveArrived
  <1>8. PICK j : j = k + 1
    OBVIOUS
  <1>9. j \in 0 .. Len(Entries) /\ j \in Nat /\ j > 0 /\ j - 1 = k /\ k \in Nat /\ given = <<>> /\ e = Entries[j]
    <2>1. 1 \in 1 .. Len(r)
      BY <1>6
    <2> QED
      BY <1>5, <1>6, <1>7, <1>8, <2>1
  <1>10. /\ Len(Tail(r)) = Len(Entries) - j
         /\ \A i \in 1 .. Len(Tail(r)) : Tail(r)[i] = Entries[j + i]
    <2>1. \A i \in 1 .. Len(r) - 1 : i + 1 \in 1 .. Len(r) /\ k + (i + 1) = j + i
      BY <1>5, <1>6, <1>8
    <2>2. \A i \in 1 .. Len(r) - 1 : r[i + 1] = Entries[k + (i + 1)]
      BY <1>7, <2>1
    <2> QED
      BY <1>5, <1>6, <1>7, <1>8, <2>1, <2>2
  <1>11. PICK desc, new : desc = query.ordering_type /\ new = Inserted(query.ordering_type, l, Ranked(e))
    OBVIOUS
  <1>12. ProjectedInOrder(new, <<>>, j)
    <2>1. PICK sorted, f : LeftOf(desc, Arrived(k), sorted, f, l, 0)
      BY <1>7, <1>9, <1>11, EmptyIsSequence DEF ProjectedInOrder
    <2>2. PICK item, items : item = Ranked(e) /\ items = Arrived(k)
      OBVIOUS
    <2>3. Sequence(items) /\ Arrived(j) = Append(items, item)
      BY <1>9, <2>2, ArrivedProperties
    <2>4. Sequence(l) /\ LeftOf(desc, items, sorted, f, l, 0)
      BY <1>1, <2>1, <2>2 DEF StateInv, ListedInv
    <2>5. PICK g : LeftOf(desc, Append(items, item), new, g, new, 0)
      BY <1>11, <2>2, <2>3, <2>4, InsertingIsSorting
    <2> QED
      BY <1>11, <2>3, <2>5, EmptyIsSequence DEF ProjectedInOrder
  <1>13. HaveArrived(j)'
    <2>1. PICK t : t = Tail(r)
      OBVIOUS
    <2>2. remaining' = t /\ listed' = new /\ given' = <<>>
      BY <1>2, <1>9, <1>11, <2>1
    <2> QED
      BY <1>2, <1>10, <1>12, <2>1, <2>2, HaveArrivedNext
  <1>14. Entries' = Entries
    BY <1>2, OrderStays
  <1> QED
    BY <1>2, <1>9, <1>13, <1>14 DEF SortInv

LEMMA ProjectingSortedKeeps ==
    ASSUME QueryInv, StateInv, SortInv, ProjectSorted
    PROVE  SortInv'
  <1>1. PICK r, l, s : r = remaining /\ l = listed /\ s = given
    OBVIOUS
  <1>2. /\ phase = "sort" /\ r = <<>> /\ l # <<>> /\ listed' = Tail(l) /\ remaining' = r
        /\ ProjectAndYield(Head(l).of) /\ UNCHANGED <<query, where>>
    BY <1>1 DEF ProjectSorted
  <1>3. PICK e : given' = Append(s, e) /\ Projects(e, Head(l).of)
    <2>1. PICK exprs : Yield(Values(UpdateAll(exprs, Head(l).of.key)), Head(l).of.value)
      BY <1>2 DEF ProjectAndYield
    <2>2. PICK row, value : row = Values(UpdateAll(exprs, Head(l).of.key)) /\ value = Head(l).of.value
      OBVIOUS
    <2>3. PICK e : e = [row |-> row, value |-> value]
      OBVIOUS
    <2>4. given' = Append(s, e)
      BY <1>1, <2>1, <2>2, <2>3 DEF Yield
    <2>5. e.row = row /\ e.value = value
      BY <2>3
    <2> QED
      BY <2>2, <2>4, <2>5 DEF Projects
  <1>4. Operator = "sort"
    BY <1>2 DEF QueryInv
  <1>5. PICK m \in 0 .. Len(Entries) : HaveArrived(m)
    BY <1>2, <1>4 DEF SortInv
  <1>6. Len(Entries) \in Nat
    BY EntriesFit, SequenceShape
  <1>7. /\ Len(r) = Len(Entries) - m /\ \A j \in 1 .. Len(r) : r[j] = Entries[m + j]
        /\ ProjectedInOrder(l, s, m)
    BY <1>1, <1>5 DEF HaveArrived
  <1>8. m = Len(Entries)
    BY <1>2, <1>6, <1>7, EmptyIsSequence
  <1>9. PICK c, t : c = Append(s, e) /\ t = Tail(l)
    OBVIOUS
  <1>10. Sequence(l) /\ Len(s) \in Nat /\ Len(c) = Len(s) + 1 /\ c[Len(s) + 1] = e /\ \A i \in 1 .. Len(s) : c[i] = s[i]
    BY <1>1, <1>9, AppendedSequences DEF StateInv, ListedInv, GivenInv
  <1>11. ProjectedInOrder(t, c, m)
    <2>1. PICK sorted, f : /\ LeftOf(query.ordering_type, Arrived(m), sorted, f, l, Len(s))
                           /\ \A i \in 1 .. Len(s) : Projects(s[i], sorted[i].of)
      BY <1>7 DEF ProjectedInOrder
    <2>2. PICK desc, items : desc = query.ordering_type /\ items = Arrived(m)
      OBVIOUS
    <2>3. LeftOf(desc, items, sorted, f, t, Len(s) + 1) /\ Head(l) = sorted[Len(s) + 1]
      BY <1>2, <1>9, <1>10, <2>1, <2>2, RestIsLeft
    <2>4. \A i \in 1 .. Len(s) + 1 : i \in 1 .. Len(s) \/ i = Len(s) + 1
      BY <1>10
    <2>5. \A i \in 1 .. Len(c) : Projects(c[i], sorted[i].of)
      BY <1>3, <1>10, <2>1, <2>3, <2>4
    <2> QED
      BY <1>10, <2>2, <2>3, <2>5 DEF ProjectedInOrder
  <1>12. HaveArrived(m)'
    BY <1>2, <1>3, <1>7, <1>8, <1>9, <1>11, HaveArrivedNext
  <1>13. Entries' = Entries
    BY <1>2, OrderStays
  <1> QED
    BY <1>2, <1>12, <1>13 DEF SortInv

(* ORDER BY without aggregates: when all entries have arrived, what is     *)
(* left to project is at every moment, and when the evaluation has ended,  *)
(* the end of the list of all entries that a stable sort by the keys of    *)
(* ORDER BY in their directions gives, and what was yielded are the        *)
(* entries that list begins with, projected, of the same counts.           *)
EntriesAreProjectedInOrder ==
    Operator = "sort" /\ (phase = "done" \/ (phase = "sort" /\ remaining = <<>>)) =>
        ProjectedInOrder(listed, given, Len(Entries))
THEOREM EvaluationSortsStably == Spec => []EntriesAreProjectedInOrder
  <1>1. Init => SortInv
    BY DEF Init, SortInv
  <1>2. QueryInv /\ StateInv /\ SortInv /\ [Next]_vars => SortInv'
    <2> SUFFICES ASSUME QueryInv, StateInv, SortInv, [Next]_vars
                 PROVE  SortInv'
      OBVIOUS
    <2>1. CASE Exhausted \/ UNCHANGED vars
      <3>1. /\ UNCHANGED <<query, where, remaining, given, listed>>
            /\ phase' # phase => phase \in {"project", "sort"} /\ phase' = "done" /\ remaining = <<>>
        BY <2>1 DEF Exhausted, vars
      <3>2. /\ Entries' = Entries /\ Operator' = Operator
            /\ \A m : ProjectedInOrder(listed, given, m)' = ProjectedInOrder(listed, given, m)
        BY <3>1, OrderStays DEF ProjectedInOrder, Arrived, Ranked, Entries, Tracking, RanksOf
      <3>3. \A m : HaveArrived(m)' = HaveArrived(m)
        BY <3>1, <3>2 DEF HaveArrived
      <3>4. phase = "project" => Operator # "sort"
        BY DEF QueryInv
      <3> QED
        BY <3>1, <3>2, <3>3, <3>4 DEF SortInv
    <2>2. CASE Parse
      BY <2>2 DEF Parse, SortInv
    <2>3. CASE Project \/ Aggregating \/ YieldAggregate \/ ListGroups \/ YieldGroup
      <3>1. /\ phase \in {"project", "implicit", "explicit", "groups"} /\ UNCHANGED <<query, where>>
        BY <2>3 DEF Project, Aggregating, YieldAggregate, ListGroups, YieldGroup
      <3>2. Operator # "sort"
        BY <3>1 DEF QueryInv
      <3>3. Operator' # "sort"
        BY <3>1, <3>2, OrderStays
      <3> QED
        BY <3>3 DEF SortInv
    <2>4. CASE Grouping
      BY <2>4 DEF Grouping, SortInv
    <2> QED
      BY <2>1, <2>2, <2>3, <2>4, SortStarts, SortKeeps, ProjectingSortedKeeps DEF Next
  <1>3. QueryInv /\ SortInv => EntriesAreProjectedInOrder
    <2> SUFFICES ASSUME QueryInv, SortInv, Operator = "sort", phase = "done" \/ (phase = "sort" /\ remaining = <<>>)
                 PROVE  ProjectedInOrder(listed, given, Len(Entries))
      BY DEF EntriesAreProjectedInOrder
    <2>1. remaining = <<>>
      BY DEF SortInv
    <2>2. PICK m \in 0 .. Len(Entries) : HaveArrived(m)
      BY DEF SortInv
    <2>3. Len(remaining) = 0 /\ Len(Entries) \in Nat
      BY <2>1, EmptyIsSequence, EntriesFit, SequenceShape
    <2>4. m = Len(Entries)
      BY <2>2, <2>3 DEF HaveArrived
    <2> QED
      BY <2>2, <2>4 DEF HaveArrived
  <1> QED
    BY <1>1, <1>2, <1>3, QueryInvHolds, StateInvHolds, PTL DEF Spec

-----------------------------------------------------------------------------
(* GROUP BY.  The groups that pass the filters, in some order of the hash  *)
(* map, are sorted; what was given of them and what is left.               *)
GroupRow(key) == [row |-> Values(groups[key].solution), value |-> 1]
SortedGroups(keys, sorted, f, list, s) ==
    /\ LeftOf(query.ordering_type, GroupItems(keys), sorted, f, list, Len(s))
    /\ \A i \in 1 .. Len(s) : s[i] = GroupRow(sorted[i].of)
YieldedInOrder(list, s) == \E keys \in SetToSeqs(Passing) : \E sorted, f : SortedGroups(keys, sorted, f, list, s)
GroupInv == phase \in {"groups", "done"} /\ Operator = "explicit" => YieldedInOrder(listed, given)

LEMMA GroupsStay ==
    ASSUME UNCHANGED <<query, groups, where>>, NEW l, NEW s, listed' = l, given' = s
    PROVE  Operator' = Operator /\ (YieldedInOrder(listed, given)' <=> YieldedInOrder(l, s))
  <1>1. Passing' = Passing
    BY DEF Passing
  <1>2. \A keys, sorted, f : SortedGroups(keys, sorted, f, listed, given)' <=> SortedGroups(keys, sorted, f, l, s)
    BY DEF SortedGroups, GroupItems, GroupRow
  <1>3. YieldedInOrder(listed, given)' <=> YieldedInOrder(l, s)
    BY <1>1, <1>2 DEF YieldedInOrder
  <1> QED
    BY <1>3 DEF Operator

LEMMA GroupsArePruned ==
    ASSUME QueryInv, Evaluate, phase' = "done", Operator' = "explicit"
    PROVE  GroupInv'
  <1>1. groups' = <<>> /\ listed' = <<>> /\ given' = <<>>
    BY DEF Evaluate
  <1>2. PICK P : P = Passing'
    OBVIOUS
  <1>3. P = {}
    BY <1>1, <1>2 DEF Passing
  <1>4. <<>> \in SetToSeqs(P)
    BY <1>3, FS_EmptySet DEF SetToSeqs
  <1>5. \E f : LeftOf(query'.ordering_type, GroupItems(<<>>)', <<>>, f, <<>>, 0)
    <2>1. PICK items : items = GroupItems(<<>>)'
      OBVIOUS
    <2>2. items = [i \in 1 .. 0 |-> items[i]]
      BY <2>1 DEF GroupItems
    <2> QED
      BY <2>1, <2>2, NothingIsLeft
  <1>6. \E f : SortedGroups(<<>>, <<>>, f, listed, given)'
    BY <1>1, <1>5, EmptyIsSequence DEF SortedGroups
  <1> QED
    BY <1>2, <1>4, <1>6 DEF GroupInv, YieldedInOrder

LEMMA ListingSorts ==
    ASSUME QueryInv, StateInv, CountInv, ListGroups
    PROVE  GroupInv'
  <1>1. /\ given' = given /\ UNCHANGED <<query, groups, where>> /\ phase = "explicit"
    BY DEF ListGroups
  <1>2. given = <<>>
    BY <1>1 DEF CountInv
  <1>3. PICK keys \in SetToSeqs(Passing) : listed' = InsertedAll(query.ordering_type, GroupItems(keys))
    BY DEF ListGroups
  <1>4. PICK items, desc, r : items = GroupItems(keys) /\ desc = query.ordering_type /\ r = InsertedAll(desc, items)
    OBVIOUS
  <1>5. PICK S : items \in Seq(S)
    BY <1>4, GroupsAreListed DEF StateInv, Sequence
  <1>6. r \in Seq(S) /\ \E f : Sorts(desc, items, r, f)
    BY <1>4, <1>5, InsertedAllSorts
  <1>7. PICK f : Sorts(desc, items, r, f)
    BY <1>6
  <1>8. Sequence(r) /\ Len(r) \in Nat
    BY <1>6, LenProperties DEF Sequence
  <1>9. LeftOf(desc, items, r, f, r, 0)
    BY <1>7, <1>8 DEF LeftOf
  <1>10. SortedGroups(keys, r, f, r, <<>>)
    BY <1>4, <1>9, EmptyIsSequence DEF SortedGroups
  <1>11. YieldedInOrder(r, <<>>)
    BY <1>10 DEF YieldedInOrder
  <1>12. listed' = r /\ given' = <<>>
    BY <1>1, <1>2, <1>3, <1>4
  <1> QED
    BY <1>1, <1>11, <1>12, GroupsStay DEF GroupInv

LEMMA YieldingGroupKeeps ==
    ASSUME QueryInv, StateInv, GroupInv, YieldGroup
    PROVE  GroupInv'
  <1>1. PICK l, s : l = listed /\ s = given
    OBVIOUS
  <1>2. /\ phase = "groups" /\ l # <<>> /\ listed' = Tail(l) /\ UNCHANGED <<query, groups, where>>
        /\ Yield(Values(groups[Head(l).of].solution), 1)
    BY <1>1 DEF YieldGroup
  <1>3. PICK e : e = GroupRow(Head(l).of)
    OBVIOUS
  <1>4. given' = Append(s, e)
    BY <1>1, <1>2, <1>3 DEF Yield, GroupRow
  <1>5. YieldedInOrder(l, s)
    BY <1>1, <1>2 DEF GroupInv, QueryInv
  <1>6. PICK c, t : c = Append(s, e) /\ t = Tail(l)
    OBVIOUS
  <1>7. Sequence(l) /\ Len(s) \in Nat /\ Len(c) = Len(s) + 1 /\ c[Len(s) + 1] = e /\ \A i \in 1 .. Len(s) : c[i] = s[i]
    BY <1>1, <1>6, AppendedSequences DEF StateInv, ListedInv, GivenInv
  <1>8. YieldedInOrder(t, c)
    <2>1. PICK keys \in SetToSeqs(Passing) : \E sorted, f : SortedGroups(keys, sorted, f, l, s)
      BY <1>5 DEF YieldedInOrder
    <2>2. PICK sorted, f : SortedGroups(keys, sorted, f, l, s)
      BY <2>1
    <2>3. PICK desc, items : desc = query.ordering_type /\ items = GroupItems(keys)
      OBVIOUS
    <2>4. LeftOf(desc, items, sorted, f, l, Len(s)) /\ \A i \in 1 .. Len(s) : s[i] = GroupRow(sorted[i].of)
      BY <2>2, <2>3 DEF SortedGroups
    <2>5. LeftOf(desc, items, sorted, f, t, Len(s) + 1) /\ Head(l) = sorted[Len(s) + 1]
      BY <1>2, <1>6, <1>7, <2>4, RestIsLeft
    <2>6. \A i \in 1 .. Len(s) + 1 : i \in 1 .. Len(s) \/ i = Len(s) + 1
      BY <1>7
    <2>7. \A i \in 1 .. Len(c) : c[i] = GroupRow(sorted[i].of)
      BY <1>3, <1>7, <2>4, <2>5, <2>6
    <2>8. SortedGroups(keys, sorted, f, t, c)
      BY <1>7, <2>3, <2>5, <2>7 DEF SortedGroups
    <2> QED
      BY <2>1, <2>8 DEF YieldedInOrder
  <1>9. listed' = t /\ given' = c
    BY <1>2, <1>4, <1>6
  <1> QED
    BY <1>2, <1>8, <1>9, GroupsStay DEF GroupInv

(* GROUP BY: of the groups that pass the filters, what is left to yield is *)
(* at every moment the end of the list that a stable sort gives of them in *)
(* some order of the hash map, and what was yielded are the rows of the    *)
(* groups that list begins with, one solution each, whatever LIMIT cuts.   *)
GroupsAreYieldedInOrder ==
    Operator = "explicit" /\ phase \in {"groups", "done"} => YieldedInOrder(listed, given)
THEOREM GroupsSortStably == Spec => []GroupsAreYieldedInOrder
  <1>1. Init => GroupInv
    BY DEF Init, GroupInv
  <1>2. QueryInv /\ StateInv /\ CountInv /\ GroupInv /\ [Next]_vars => GroupInv'
    <2> SUFFICES ASSUME QueryInv, StateInv, CountInv, GroupInv, [Next]_vars
                 PROVE  GroupInv'
      OBVIOUS
    <2>1. CASE Evaluate
      <3>1. phase' # "groups"
        BY <2>1 DEF Evaluate, Operator
      <3>2. CASE phase' = "done" /\ Operator' = "explicit"
        BY <2>1, <3>2, GroupsArePruned
      <3> QED
        BY <3>1, <3>2 DEF GroupInv
    <2>2. CASE UNCHANGED vars
      <3>1. PICK l, s : l = listed /\ s = given
        OBVIOUS
      <3>2. UNCHANGED <<query, groups, where, phase>> /\ listed' = l /\ given' = s
        BY <2>2, <3>1 DEF vars
      <3> QED
        BY <3>1, <3>2, GroupsStay DEF GroupInv
    <2>3. CASE Parse
      BY <2>3 DEF Parse, GroupInv
    <2>4. CASE Project \/ Sort \/ ProjectSorted \/ Aggregating \/ YieldAggregate \/ Exhausted
      <3>1. phase \in {"project", "sort", "implicit"} /\ UNCHANGED <<query, where>>
        BY <2>4 DEF Project, Sort, ProjectSorted, Aggregating, YieldAggregate, Exhausted
      <3>2. Operator' # "explicit"
        BY <3>1 DEF QueryInv, Operator
      <3> QED
        BY <3>2 DEF GroupInv
    <2>5. CASE Grouping
      BY <2>5 DEF Grouping, GroupInv
    <2> QED
      BY <2>1, <2>2, <2>3, <2>4, <2>5, ListingSorts, YieldingGroupKeeps DEF Next
  <1>3. GroupInv => GroupsAreYieldedInOrder
    BY DEF GroupInv, GroupsAreYieldedInOrder
  <1> QED
    BY <1>1, <1>2, <1>3, QueryInvHolds, StateInvHolds, CountInvHolds, PTL DEF Spec
=============================================================================
