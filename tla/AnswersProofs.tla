--------------------------- MODULE AnswersProofs ---------------------------
(***************************************************************************)
(* Proofs about Answers.  Its operators are folds over sequences of events  *)
(* and pieces, so the first part shows, once for all of them, that a fold   *)
(* is the end of a run: a sequence of results, each the step of the one     *)
(* before it.  What a fold keeps is then shown along its run.               *)
(***************************************************************************)
EXTENDS Answers, SequenceTheorems, WellFoundedInduction, NaturalsInduction, TLAPS

(* The operators that are folded: c is what an operator closes over.        *)
Locate(cleaned, acc, link) ==
  LET at == {i \in acc.from + 1..Len(cleaned) : cleaned[i] = link}
  IN  IF at = {} THEN acc
      ELSE [from |-> Min(at),
            notes |-> Append(acc.notes, [url |-> link, start |-> Min(at) - 1, end |-> Min(at)])]

Deliver(s, e) == IF e.t = "write" /\ e.kind = "text" THEN s \o e.s ELSE s

Step(op, c, x, e) ==
  CASE op = "handle"   -> Handle(c, x, e)
    [] op = "emit"     -> Emit(x, e)
    [] op = "dispatch" -> Dispatch(x, e)
    [] op = "replace"  -> Replace(x, e)
    [] op = "locate"   -> Locate(c, x, e)
    [] op = "deliver"  -> Deliver(x, e)

(* A fold by its definition: over the subsets of the domain.                *)
Iterates(op, c, b, q, n, it) ==
  it = [s \in SUBSET (1..n) |-> IF s = {} THEN b ELSE Step(op, c, it[s \ {Max(s)}], q[Max(s)])]

(* And along the sequence.                                                  *)
Runs(op, c, b, q, r) ==
  /\ r[0] = b
  /\ \A i \in 1..Len(q) : r[i] = Step(op, c, r[i - 1], q[i])

-----------------------------------------------------------------------------
(* Induction over a set of numbers. *)
LEMMA UpTo ==
  ASSUME NEW n \in Nat, NEW S, 0 \in S, \A i \in 0..n - 1 : i \in S => i + 1 \in S
  PROVE  \A i \in 0..n : i \in S
<1> DEFINE T == {i \in 0..n : i \notin S}
<1> SUFFICES ASSUME T # {} PROVE FALSE
  OBVIOUS
<1>1. T \subseteq Nat
  OBVIOUS
<1>2. PICK m \in T : \A k \in T : ~(<<k, m>> \in OpToRel(<, Nat))
  BY <1>1, WFMin, NatLessThanWellFounded
<1>3. \A k \in T : ~(k < m)
  BY <1>1, <1>2 DEF OpToRel
<1>4. m - 1 \in 0..n - 1 /\ m - 1 \notin T
  BY <1>3
<1> QED BY <1>4

LEMMA EveryNumber ==
  ASSUME NEW S, 0 \in S, \A i \in Nat : i \in S => i + 1 \in S
  PROVE  \A i \in Nat : i \in S
<1> SUFFICES ASSUME NEW n \in Nat PROVE n \in S
  OBVIOUS
<1>1. \A i \in 0..n : i \in S
  BY UpTo
<1> QED BY <1>1

LEMMA MaxOfUpTo ==
  ASSUME NEW n \in Nat, NEW s \in SUBSET (1..n + 1), n + 1 \in s
  PROVE  Max(s) = n + 1
<1>1. \A x \in s : n + 1 >= x
  OBVIOUS
<1>2. Max(s) \in s /\ \A y \in s : Max(s) >= y
  BY <1>1 DEF Max
<1>3. Max(s) \in Nat /\ Max(s) <= n + 1
  <2>1. \A x \in s : x \in Nat /\ x <= n + 1
    OBVIOUS
  <2>2. Max(s) \in s
    BY <1>2
  <2> QED BY <2>1, <2>2
<1>4. Max(s) >= n + 1
  BY <1>2
<1> QED BY <1>3, <1>4

LEMMA IterationsExist ==
  ASSUME NEW op, NEW c, NEW b, NEW q, NEW n \in Nat
  PROVE  \E it : Iterates(op, c, b, q, n, it)
<1> DEFINE S == {m \in Nat : \E it : Iterates(op, c, b, q, m, it)}
<1>1. 0 \in S
  <2> DEFINE it == [s \in SUBSET (1..0) |-> b]
  <2>1. Iterates(op, c, b, q, 0, it)
    <3>1. \A s \in SUBSET (1..0) : s = {}
      OBVIOUS
    <3> QED BY <3>1 DEF Iterates
  <2> QED BY <2>1
<1>2. ASSUME NEW m \in Nat, m \in S PROVE m + 1 \in S
  <2>1. PICK f : Iterates(op, c, b, q, m, f)
    BY <1>2
  <2> DEFINE New(s) == Step(op, c, f[s \ {m + 1}], q[m + 1])
             g == [s \in SUBSET (1..m + 1) |-> IF m + 1 \in s THEN New(s) ELSE f[s]]
  <2>2. \A s \in SUBSET (1..m + 1) :
          g[s] = IF s = {} THEN b ELSE Step(op, c, g[s \ {Max(s)}], q[Max(s)])
    <3> SUFFICES ASSUME NEW s \in SUBSET (1..m + 1)
                 PROVE  g[s] = IF s = {} THEN b ELSE Step(op, c, g[s \ {Max(s)}], q[Max(s)])
      OBVIOUS
    <3>1. CASE m + 1 \in s
      <4>1. Max(s) = m + 1
        BY <3>1, MaxOfUpTo
      <4>2. s \ {m + 1} \in SUBSET (1..m + 1) /\ m + 1 \notin s \ {m + 1} /\ s # {}
        BY <3>1
      <4>3. g[s \ {m + 1}] = f[s \ {m + 1}]
        BY <4>2
      <4>4. g[s] = New(s)
        BY <3>1
      <4> QED BY <4>1, <4>2, <4>3, <4>4
    <3>2. CASE m + 1 \notin s
      <4>1. s \in SUBSET (1..m)
        BY <3>2
      <4>2. f[s] = IF s = {} THEN b ELSE Step(op, c, f[s \ {Max(s)}], q[Max(s)])
        BY <2>1, <4>1 DEF Iterates
      <4>3. s \ {Max(s)} \in SUBSET (1..m + 1) /\ m + 1 \notin s \ {Max(s)}
        BY <3>2
      <4>4. g[s] = f[s] /\ g[s \ {Max(s)}] = f[s \ {Max(s)}]
        BY <3>2, <4>3
      <4> HIDE DEF g
      <4> QED BY <4>2, <4>4
    <3> QED BY <3>1, <3>2
  <2>3. Iterates(op, c, b, q, m + 1, g)
    <3>1. g = [s \in SUBSET (1..m + 1) |-> g[s]]
      OBVIOUS
    <3> HIDE DEF g
    <3> QED BY <2>2, <3>1 DEF Iterates
  <2> QED BY <2>3
<1>3. n \in S
  <2> HIDE DEF S
  <2> QED BY <1>1, <1>2, EveryNumber
<1> QED BY <1>3

LEMMA IterationRuns ==
  ASSUME NEW op, NEW c, NEW b, NEW X, NEW q \in Seq(X), NEW it, Iterates(op, c, b, q, Len(q), it)
  PROVE  \E r : Runs(op, c, b, q, r) /\ it[DOMAIN q] = r[Len(q)]
<1> DEFINE r == [i \in 0..Len(q) |-> it[1..i]]
<1>0. Len(q) \in Nat /\ DOMAIN q = 1..Len(q)
  OBVIOUS
<1>1. \A s \in SUBSET (1..Len(q)) :
        it[s] = IF s = {} THEN b ELSE Step(op, c, it[s \ {Max(s)}], q[Max(s)])
  BY DEF Iterates
<1>2. r[0] = b
  <2>1. 1..0 = {} /\ 1..0 \in SUBSET (1..Len(q))
    BY <1>0
  <2> QED BY <1>0, <1>1, <2>1
<1>3. ASSUME NEW i \in 1..Len(q) PROVE r[i] = Step(op, c, r[i - 1], q[i])
  <2>1. i - 1 \in Nat /\ (i - 1) + 1 = i /\ i \in 1..i /\ 1..i \in SUBSET (1..Len(q)) /\ 1..i # {}
    BY <1>0
  <2>2. Max(1..i) = i
    <3> DEFINE n == i - 1
    <3>1. n \in Nat /\ 1..i \in SUBSET (1..n + 1) /\ n + 1 \in 1..i
      BY <1>0
    <3>2. Max(1..i) = n + 1
      BY <3>1, MaxOfUpTo
    <3> QED BY <1>0, <3>2
  <2>3. (1..i) \ {i} = 1..i - 1
    BY <1>0
  <2>4. it[1..i] = Step(op, c, it[(1..i) \ {i}], q[i])
    BY <1>1, <2>1, <2>2
  <2>5. r[i] = it[1..i] /\ r[i - 1] = it[1..i - 1]
    BY <1>0, <2>1
  <2> HIDE DEF r
  <2> QED BY <2>3, <2>4, <2>5
<1>4. it[DOMAIN q] = r[Len(q)]
  BY <1>0
<1> HIDE DEF r
<1> QED BY <1>2, <1>3, <1>4 DEF Runs

(* There is one run. *)
LEMMA OneRun ==
  ASSUME NEW op, NEW c, NEW b, NEW q, NEW p, NEW r, NEW s, Len(q) \in Nat, Len(p) \in Nat,
         Runs(op, c, b, q, r), Runs(op, c, b, p, s),
         NEW n \in Nat, n <= Len(q), n <= Len(p), \A i \in 1..n : q[i] = p[i]
  PROVE  r[n] = s[n]
<1> DEFINE S == {i \in Nat : r[i] = s[i]}
<1>1. 0 \in S
  BY DEF Runs
<1>2. \A i \in 0..n - 1 : i \in S => i + 1 \in S
  <2> SUFFICES ASSUME NEW i \in 0..n - 1, i \in S PROVE i + 1 \in S
    OBVIOUS
  <2>1. i + 1 \in 1..Len(q) /\ i + 1 \in 1..Len(p) /\ i + 1 \in 1..n /\ (i + 1) - 1 = i
    OBVIOUS
  <2>2. r[i + 1] = Step(op, c, r[i], q[i + 1]) /\ s[i + 1] = Step(op, c, s[i], p[i + 1])
    BY <2>1 DEF Runs
  <2> QED BY <2>1, <2>2
<1>3. n \in S
  <2> HIDE DEF S
  <2>1. \A i \in 0..n : i \in S
    BY <1>1, <1>2, UpTo
  <2> QED BY <2>1
<1> QED BY <1>3

(* The operators of Step. *)
LEMMA StepIs ==
  ASSUME NEW c, NEW x, NEW e
  PROVE  /\ Step("handle", c, x, e) = Handle(c, x, e)
         /\ Step("emit", c, x, e) = Emit(x, e)
         /\ Step("dispatch", c, x, e) = Dispatch(x, e)
         /\ Step("replace", c, x, e) = Replace(x, e)
         /\ Step("locate", c, x, e) = Locate(c, x, e)
         /\ Step("deliver", c, x, e) = Deliver(x, e)
BY DEF Step

LEMMA EmitRuns ==
  ASSUME NEW b, NEW X, NEW q \in Seq(X)
  PROVE  \E r : Runs("emit", 0, b, q, r) /\ FoldLeft(Emit, b, q) = r[Len(q)]
<1> DEFINE G(it) == it = [s \in SUBSET DOMAIN q |->
                            IF s = {} THEN b ELSE Emit(it[s \ {Max(s)}], q[Max(s)])]
<1>1. FoldLeft(Emit, b, q) = (CHOOSE it : G(it))[DOMAIN q]
  BY DEF FoldLeft, MapThenFoldSet
<1>2. Len(q) \in Nat /\ DOMAIN q = 1..Len(q)
  OBVIOUS
<1>3. ASSUME NEW it PROVE G(it) <=> Iterates("emit", 0, b, q, Len(q), it)
  BY <1>2 DEF Iterates, Step
<1> HIDE DEF G
<1>4. \E it : G(it)
  BY <1>2, <1>3, IterationsExist
<1>5. PICK it : G(it) /\ it = CHOOSE f : G(f)
  BY <1>4
<1>6. Iterates("emit", 0, b, q, Len(q), it)
  BY <1>3, <1>5
<1>7. \E r : Runs("emit", 0, b, q, r) /\ it[DOMAIN q] = r[Len(q)]
  BY <1>6, IterationRuns
<1> QED BY <1>1, <1>5, <1>7

LEMMA DispatchRuns ==
  ASSUME NEW b, NEW X, NEW q \in Seq(X)
  PROVE  \E r : Runs("dispatch", 0, b, q, r) /\ FoldLeft(Dispatch, b, q) = r[Len(q)]
<1> DEFINE G(it) == it = [s \in SUBSET DOMAIN q |->
                            IF s = {} THEN b ELSE Dispatch(it[s \ {Max(s)}], q[Max(s)])]
<1>1. FoldLeft(Dispatch, b, q) = (CHOOSE it : G(it))[DOMAIN q]
  BY DEF FoldLeft, MapThenFoldSet
<1>2. Len(q) \in Nat /\ DOMAIN q = 1..Len(q)
  OBVIOUS
<1>3. ASSUME NEW it PROVE G(it) <=> Iterates("dispatch", 0, b, q, Len(q), it)
  BY <1>2 DEF Iterates, Step
<1> HIDE DEF G
<1>4. \E it : G(it)
  BY <1>2, <1>3, IterationsExist
<1>5. PICK it : G(it) /\ it = CHOOSE f : G(f)
  BY <1>4
<1>6. Iterates("dispatch", 0, b, q, Len(q), it)
  BY <1>3, <1>5
<1>7. \E r : Runs("dispatch", 0, b, q, r) /\ it[DOMAIN q] = r[Len(q)]
  BY <1>6, IterationRuns
<1> QED BY <1>1, <1>5, <1>7

LEMMA ReplaceRuns ==
  ASSUME NEW b, NEW X, NEW q \in Seq(X)
  PROVE  \E r : Runs("replace", 0, b, q, r) /\ FoldLeft(Replace, b, q) = r[Len(q)]
<1> DEFINE G(it) == it = [s \in SUBSET DOMAIN q |->
                            IF s = {} THEN b ELSE Replace(it[s \ {Max(s)}], q[Max(s)])]
<1>1. FoldLeft(Replace, b, q) = (CHOOSE it : G(it))[DOMAIN q]
  BY DEF FoldLeft, MapThenFoldSet
<1>2. Len(q) \in Nat /\ DOMAIN q = 1..Len(q)
  OBVIOUS
<1>3. ASSUME NEW it PROVE G(it) <=> Iterates("replace", 0, b, q, Len(q), it)
  BY <1>2 DEF Iterates, Step
<1> HIDE DEF G
<1>4. \E it : G(it)
  BY <1>2, <1>3, IterationsExist
<1>5. PICK it : G(it) /\ it = CHOOSE f : G(f)
  BY <1>4
<1>6. Iterates("replace", 0, b, q, Len(q), it)
  BY <1>3, <1>5
<1>7. \E r : Runs("replace", 0, b, q, r) /\ it[DOMAIN q] = r[Len(q)]
  BY <1>6, IterationRuns
<1> QED BY <1>1, <1>5, <1>7

LEMMA LocateRuns ==
  ASSUME NEW cleaned, NEW X, NEW q \in Seq(X)
  PROVE  \E r : Runs("locate", cleaned, [from |-> 0, notes |-> <<>>], q, r) /\ Located(cleaned, q) = r[Len(q)].notes
<1> DEFINE b == [from |-> 0, notes |-> <<>>]
           G(it) == it = [s \in SUBSET DOMAIN q |->
                            IF s = {} THEN b ELSE Locate(cleaned, it[s \ {Max(s)}], q[Max(s)])]
<1>1. Located(cleaned, q) = (CHOOSE it : G(it))[DOMAIN q].notes
  BY DEF Located, Locate, FoldLeft, MapThenFoldSet
<1>2. Len(q) \in Nat /\ DOMAIN q = 1..Len(q)
  OBVIOUS
<1> HIDE DEF b
<1>3. ASSUME NEW it PROVE G(it) <=> Iterates("locate", cleaned, b, q, Len(q), it)
  BY <1>2 DEF Iterates, Step
<1> HIDE DEF G
<1>4. \E it : G(it)
  BY <1>2, <1>3, IterationsExist
<1>5. PICK it : G(it) /\ it = CHOOSE f : G(f)
  BY <1>4
<1>6. Iterates("locate", cleaned, b, q, Len(q), it)
  BY <1>3, <1>5
<1>7. \E r : Runs("locate", cleaned, b, q, r) /\ it[DOMAIN q] = r[Len(q)]
  BY <1>6, IterationRuns
<1>8. \E r : Runs("locate", cleaned, b, q, r) /\ Located(cleaned, q) = r[Len(q)].notes
  BY <1>1, <1>5, <1>7
<1> QED BY <1>8 DEF b

LEMMA DeliverRuns ==
  ASSUME NEW X, NEW q \in Seq(X)
  PROVE  \E r : Runs("deliver", 0, <<>>, q, r) /\ Delivered(q) = r[Len(q)]
<1> DEFINE b == <<>>
           G(it) == it = [s \in SUBSET DOMAIN q |->
                            IF s = {} THEN b ELSE Deliver(it[s \ {Max(s)}], q[Max(s)])]
<1>1. Delivered(q) = (CHOOSE it : G(it))[DOMAIN q]
  BY DEF Delivered, Deliver, FoldLeft, MapThenFoldSet
<1>2. Len(q) \in Nat /\ DOMAIN q = 1..Len(q)
  OBVIOUS
<1> HIDE DEF b
<1>3. ASSUME NEW it PROVE G(it) <=> Iterates("deliver", 0, b, q, Len(q), it)
  BY <1>2 DEF Iterates, Step
<1> HIDE DEF G
<1>4. \E it : G(it)
  BY <1>2, <1>3, IterationsExist
<1>5. PICK it : G(it) /\ it = CHOOSE f : G(f)
  BY <1>4
<1>6. Iterates("deliver", 0, b, q, Len(q), it)
  BY <1>3, <1>5
<1>7. \E r : Runs("deliver", 0, b, q, r) /\ it[DOMAIN q] = r[Len(q)]
  BY <1>6, IterationRuns
<1>8. \E r : Runs("deliver", 0, b, q, r) /\ Delivered(q) = r[Len(q)]
  BY <1>1, <1>5, <1>7
<1> QED BY <1>8 DEF b

LEMMA HandleRuns ==
  ASSUME NEW c, NEW b, NEW X, NEW q \in Seq(X)
  PROVE  \E r : Runs("handle", c, b, q, r) /\ Handled(c, b, q) = r[Len(q)]
<1> DEFINE G(it) == it = [s \in SUBSET DOMAIN q |->
                            IF s = {} THEN b ELSE Handle(c, it[s \ {Max(s)}], q[Max(s)])]
<1>1. Handled(c, b, q) = (CHOOSE it : G(it))[DOMAIN q]
  BY DEF Handled, FoldLeft, MapThenFoldSet
<1>2. Len(q) \in Nat /\ DOMAIN q = 1..Len(q)
  OBVIOUS
<1>3. ASSUME NEW it PROVE G(it) <=> Iterates("handle", c, b, q, Len(q), it)
  BY <1>2 DEF Iterates, Step
<1> HIDE DEF G
<1>4. \E it : G(it)
  BY <1>2, <1>3, IterationsExist
<1>5. PICK it : G(it) /\ it = CHOOSE f : G(f)
  BY <1>4
<1>6. Iterates("handle", c, b, q, Len(q), it)
  BY <1>3, <1>5
<1>7. \E r : Runs("handle", c, b, q, r) /\ it[DOMAIN q] = r[Len(q)]
  BY <1>6, IterationRuns
<1> QED BY <1>1, <1>5, <1>7

LEMMA MinOf ==
  ASSUME NEW s \in SUBSET Nat, s # {}
  PROVE  Min(s) \in s /\ \A x \in s : Min(s) <= x
<1>1. PICK m \in s : \A x \in s : ~(<<x, m>> \in OpToRel(<, Nat))
  BY WFMin, NatLessThanWellFounded
<1>2. \A x \in s : m <= x
  <2>1. \A x \in s : x \in Nat
    OBVIOUS
  <2>2. \A x \in s : ~(x < m)
    BY <1>1, <2>1 DEF OpToRel
  <2> QED BY <2>1, <2>2
<1>3. \E y \in s : \A x \in s : y <= x
  BY <1>2
<1> QED BY <1>3 DEF Min

-----------------------------------------------------------------------------
(* Citations *)

(* The literals are listed since the provers do not know that they are      *)
(* strings.                                                                 *)
Pieces == STRING \cup {"u1", "u2", "p", "q", "z", "g", "s"}

Notes == [url : Pieces, start : Nat, end : Nat]

(* Each annotation is at its link in the text, each behind the one before.  *)
Points(notes, text) ==
  /\ \A i \in 1..Len(notes) : /\ notes[i].end \in 1..Len(text)
                              /\ notes[i].start = notes[i].end - 1
                              /\ text[notes[i].end] = notes[i].url
  /\ \A i, j \in 1..Len(notes) : i < j => notes[i].end <= notes[j].start

Behind(notes, from) == \A i \in 1..Len(notes) : notes[i].end <= from

LEMMA PointsAppend ==
  ASSUME NEW text \in Seq(Pieces), NEW notes \in Seq(Notes), Points(notes, text),
         NEW note \in Notes, note.end \in 1..Len(text), note.start = note.end - 1,
         text[note.end] = note.url, Behind(notes, note.start)
  PROVE  /\ Append(notes, note) \in Seq(Notes)
         /\ Points(Append(notes, note), text)
         /\ Behind(Append(notes, note), note.end)
<1> DEFINE all == Append(notes, note)
<1>1. /\ all \in Seq(Notes) /\ Len(all) = Len(notes) + 1 /\ all[Len(notes) + 1] = note
      /\ \A i \in 1..Len(notes) : all[i] = notes[i] /\ all[i] \in Notes
      /\ Len(notes) \in Nat /\ Len(text) \in Nat
  BY AppendProperties
<1> HIDE DEF all
<1>2. \A i \in 1..Len(all) : i \in 1..Len(notes) \/ i = Len(notes) + 1
  BY <1>1
<1>3. Points(all, text)
  <2>1. \A i \in 1..Len(all) : /\ all[i].end \in 1..Len(text)
                              /\ all[i].start = all[i].end - 1
                              /\ text[all[i].end] = all[i].url
    BY <1>1, <1>2 DEF Points
  <2>2. ASSUME NEW i \in 1..Len(all), NEW j \in 1..Len(all), i < j
        PROVE  all[i].end <= all[j].start
    <3>1. i \in 1..Len(notes)
      BY <1>1, <2>2
    <3>2. CASE j \in 1..Len(notes)
      BY <1>1, <2>2, <3>1, <3>2 DEF Points
    <3>3. CASE j = Len(notes) + 1
      BY <1>1, <3>1, <3>3 DEF Behind
    <3> QED BY <1>2, <3>2, <3>3
  <2> QED BY <2>1, <2>2 DEF Points
<1>4. Behind(all, note.end)
  <2> SUFFICES ASSUME NEW i \in 1..Len(all) PROVE all[i].end <= note.end
    BY DEF Behind
  <2>1. CASE i \in 1..Len(notes)
    <3>1. all[i].end <= note.start /\ all[i].end \in Nat
      BY <1>1, <2>1 DEF Behind, Notes
    <3> QED BY <3>1 DEF Notes
  <2>2. CASE i = Len(notes) + 1
    BY <1>1, <2>2 DEF Notes
  <2> QED BY <1>2, <2>1, <2>2
<1> QED BY <1>1, <1>3, <1>4 DEF all

Searched(cleaned, acc) ==
  /\ acc \in [from : Nat, notes : Seq(Notes)]
  /\ Points(acc.notes, cleaned) /\ Behind(acc.notes, acc.from)

LEMMA LocateStep ==
  ASSUME NEW cleaned \in Seq(Pieces), NEW acc, Searched(cleaned, acc), NEW link \in Pieces
  PROVE  Searched(cleaned, Locate(cleaned, acc, link))
<1> DEFINE at == {i \in acc.from + 1..Len(cleaned) : cleaned[i] = link}
           note == [url |-> link, start |-> Min(at) - 1, end |-> Min(at)]
<1>1. CASE at = {}
  BY <1>1 DEF Locate
<1>2. CASE at # {}
  <2>0. acc.from \in Nat /\ acc.notes \in Seq(Notes) /\ Len(cleaned) \in Nat
    BY DEF Searched
  <2>1. at \in SUBSET Nat
    BY <2>0
  <2>2. Min(at) \in at
    BY <1>2, <2>1, MinOf
  <2>3. /\ Min(at) \in 1..Len(cleaned) /\ acc.from <= Min(at) - 1 /\ cleaned[Min(at)] = link
        /\ Min(at) - 1 \in Nat /\ Min(at) \in Nat
    BY <2>0, <2>2
  <2>4. Locate(cleaned, acc, link) = [from |-> Min(at), notes |-> Append(acc.notes, note)]
    BY <1>2 DEF Locate
  <2>5. /\ note \in Notes /\ note.end = Min(at) /\ note.start = Min(at) - 1 /\ note.url = link
    BY <2>3 DEF Notes
  <2>6. Behind(acc.notes, note.start)
    <3>1. \A i \in 1..Len(acc.notes) : acc.notes[i] \in Notes
      BY <2>0
    <3>2. \A i \in 1..Len(acc.notes) : acc.notes[i].end \in Nat
      BY <3>1 DEF Notes
    <3> HIDE DEF note
    <3> QED BY <2>0, <2>3, <2>5, <3>2 DEF Searched, Behind
  <2> HIDE DEF note, at
  <2>7. /\ Append(acc.notes, note) \in Seq(Notes)
        /\ Points(Append(acc.notes, note), cleaned)
        /\ Behind(Append(acc.notes, note), note.end)
    BY <2>0, <2>3, <2>5, <2>6, PointsAppend DEF Searched
  <2> QED BY <2>3, <2>4, <2>5, <2>7 DEF Searched
<1> QED BY <1>1, <1>2

LEMMA LocatedPoints ==
  ASSUME NEW cleaned \in Seq(Pieces), NEW pending \in Seq(Pieces)
  PROVE  Located(cleaned, pending) \in Seq(Notes) /\ Points(Located(cleaned, pending), cleaned)
<1>1. PICK r : /\ Runs("locate", cleaned, [from |-> 0, notes |-> <<>>], pending, r)
               /\ Located(cleaned, pending) = r[Len(pending)].notes
  BY LocateRuns
<1> DEFINE S == {i \in Nat : Searched(cleaned, r[i])}
<1>2. 0 \in S
  <2>1. r[0] = [from |-> 0, notes |-> <<>>]
    BY <1>1 DEF Runs
  <2>2. r[0].notes = <<>> /\ r[0] \in [from : Nat, notes : Seq(Notes)]
    BY <2>1
  <2>3. Len(<<>>) = 0 /\ 1..0 = {}
    OBVIOUS
  <2> QED BY <2>2, <2>3 DEF Searched, Points, Behind
<1>3. ASSUME NEW i \in 0..Len(pending) - 1, i \in S PROVE i + 1 \in S
  <2>1. i + 1 \in 1..Len(pending) /\ (i + 1) - 1 = i /\ i + 1 \in Nat
    OBVIOUS
  <2>2. r[i + 1] = Locate(cleaned, r[i], pending[i + 1])
    BY <1>1, <2>1, StepIs DEF Runs
  <2>3. pending[i + 1] \in Pieces
    BY <2>1
  <2> QED BY <1>3, <2>1, <2>2, <2>3, LocateStep
<1> HIDE DEF S
<1>4. \A i \in 0..Len(pending) : i \in S
  <2>1. Len(pending) \in Nat
    OBVIOUS
  <2> QED BY <1>2, <1>3, <2>1, UpTo
<1>5. Searched(cleaned, r[Len(pending)])
  BY <1>4 DEF S
<1> QED BY <1>1, <1>5 DEF Searched

LEMMA PointsConcat ==
  ASSUME NEW text \in Seq(Pieces), NEW more \in Seq(Pieces),
         NEW notes \in Seq(Notes), NEW found \in Seq(Notes),
         Points(notes, text), Points(found, more)
  PROVE  /\ Shifted(found, Len(text)) \in Seq(Notes)
         /\ notes \o Shifted(found, Len(text)) \in Seq(Notes)
         /\ Points(notes \o Shifted(found, Len(text)), text \o more)
<1> DEFINE n == Len(text)
           new == Shifted(found, n)
           all == notes \o new
           whole == text \o more
<1>1. n \in Nat /\ Len(more) \in Nat /\ Len(notes) \in Nat /\ Len(found) \in Nat
  OBVIOUS
<1>2. \A i \in 1..Len(found) :
        /\ found[i] \in Notes
        /\ found[i].end \in 1..Len(more) /\ found[i].start = found[i].end - 1
        /\ more[found[i].end] = found[i].url
  BY DEF Points
<1>3. \A i \in 1..Len(found) :
        [url |-> found[i].url, start |-> found[i].start + n, end |-> found[i].end + n] \in Notes
  BY <1>1, <1>2 DEF Notes
<1>4. /\ new \in Seq(Notes) /\ Len(new) = Len(found)
      /\ \A i \in 1..Len(found) : /\ new[i].end = found[i].end + n
                                  /\ new[i].start = found[i].start + n
                                  /\ new[i].url = found[i].url
  <2>0. DOMAIN found = 1..Len(found)
    OBVIOUS
  <2>1. new = [i \in 1..Len(found) |->
                 [url |-> found[i].url, start |-> found[i].start + n, end |-> found[i].end + n]]
    BY <2>0 DEF Shifted
  <2>2. \A i \in 1..Len(found) :
          new[i] = [url |-> found[i].url, start |-> found[i].start + n, end |-> found[i].end + n]
    BY <2>1
  <2>3. new \in Seq(Notes)
    BY <1>1, <1>3, <2>1
  <2>4. Len(new) = Len(found)
    BY <1>1, <2>1
  <2>5. ASSUME NEW i \in 1..Len(found)
        PROVE  /\ new[i].end = found[i].end + n
               /\ new[i].start = found[i].start + n
               /\ new[i].url = found[i].url
    <3>1. PICK url, start, end : /\ url = found[i].url /\ start = found[i].start + n
                                 /\ end = found[i].end + n
      OBVIOUS
    <3>2. new[i] = [url |-> url, start |-> start, end |-> end]
      BY <2>2, <3>1
    <3> HIDE DEF new
    <3> QED BY <3>1, <3>2
  <2> HIDE DEF new
  <2> QED BY <2>3, <2>4, <2>5
<1>5. /\ whole \in Seq(Pieces) /\ Len(whole) = n + Len(more)
      /\ \A i \in 1..n : whole[i] = text[i]
      /\ \A i \in 1..Len(more) : whole[n + i] = more[i]
  BY <1>1
<1> HIDE DEF new
<1>6. /\ all \in Seq(Notes) /\ Len(all) = Len(notes) + Len(found)
      /\ \A i \in 1..Len(notes) : all[i] = notes[i]
      /\ \A i \in 1..Len(found) : all[Len(notes) + i] = new[i]
  <2>1. new \in Seq(Notes) /\ Len(new) = Len(found)
    BY <1>4
  <2>2. /\ all \in Seq(Notes) /\ Len(all) = Len(notes) + Len(new)
        /\ \A i \in 1..Len(notes) + Len(new) :
             all[i] = IF i <= Len(notes) THEN notes[i] ELSE new[i - Len(notes)]
    BY <2>1, ConcatProperties
  <2>3. ASSUME NEW i \in 1..Len(found) PROVE all[Len(notes) + i] = new[i]
    <3>1. Len(notes) + i \in 1..Len(notes) + Len(new) /\ ~(Len(notes) + i <= Len(notes))
          /\ (Len(notes) + i) - Len(notes) = i
      BY <1>1, <2>1
    <3> HIDE DEF all
    <3> QED BY <2>2, <3>1
  <2> HIDE DEF all
  <2> QED BY <1>1, <2>1, <2>2, <2>3
<1> HIDE DEF all, whole
<1>7. \A i \in 1..Len(all) : i \in 1..Len(notes) \/ \E k \in 1..Len(found) : i = Len(notes) + k
  <2> SUFFICES ASSUME NEW i \in 1..Len(all), i \notin 1..Len(notes)
               PROVE  \E k \in 1..Len(found) : i = Len(notes) + k
    OBVIOUS
  <2>1. i - Len(notes) \in 1..Len(found) /\ i = Len(notes) + (i - Len(notes))
    BY <1>1, <1>6
  <2> QED BY <2>1
<1>8. ASSUME NEW i \in 1..Len(all)
      PROVE  /\ all[i].end \in 1..Len(whole) /\ all[i].start = all[i].end - 1
             /\ whole[all[i].end] = all[i].url
  <2>1. CASE i \in 1..Len(notes)
    <3>1. /\ all[i].end \in 1..n /\ all[i].start = all[i].end - 1
          /\ text[all[i].end] = all[i].url
      BY <1>6, <2>1 DEF Points
    <3> QED BY <1>1, <1>5, <3>1
  <2>2. ASSUME NEW k \in 1..Len(found), i = Len(notes) + k
        PROVE  /\ all[i].end \in 1..Len(whole) /\ all[i].start = all[i].end - 1
               /\ whole[all[i].end] = all[i].url
    <3>1. all[i] = new[k]
      BY <1>6, <2>2
    <3>2. /\ all[i].end = n + found[k].end /\ all[i].start = found[k].start + n
          /\ all[i].url = found[k].url
      BY <1>1, <1>2, <1>4, <3>1
    <3>3. found[k].end \in 1..Len(more) /\ found[k].start = found[k].end - 1
      BY <1>2
    <3>4. whole[n + found[k].end] = found[k].url
      BY <1>2, <1>5
    <3> QED BY <1>1, <1>5, <3>2, <3>3, <3>4
  <2> QED BY <1>7, <2>1, <2>2
<1>9. ASSUME NEW i \in 1..Len(all), NEW j \in 1..Len(all), i < j
      PROVE  all[i].end <= all[j].start
  <2>1. CASE j \in 1..Len(notes)
    <3>1. i \in 1..Len(notes)
      BY <1>1, <1>9, <2>1
    <3> QED BY <1>6, <1>9, <2>1, <3>1 DEF Points
  <2>2. ASSUME NEW k \in 1..Len(found), j = Len(notes) + k
        PROVE  all[i].end <= all[j].start
    <3>1. all[j].start = found[k].start + n /\ found[k].start \in Nat
      <4>1. all[j] = new[k]
        BY <1>6, <2>2
      <4>2. found[k].start \in Nat
        BY <1>2 DEF Notes
      <4> QED BY <1>4, <4>1, <4>2
    <3>2. CASE i \in 1..Len(notes)
      <4>1. all[i].end \in 1..n
        BY <1>6, <3>2 DEF Points
      <4> QED BY <1>1, <3>1, <4>1
    <3>3. ASSUME NEW l \in 1..Len(found), i = Len(notes) + l
          PROVE  all[i].end <= all[j].start
      <4>1. l < k
        BY <1>1, <1>9, <2>2, <3>3
      <4>2. found[l].end <= found[k].start /\ found[l].end \in Nat
        <5>1. \A x, y \in 1..Len(found) : x < y => found[x].end <= found[y].start
          BY DEF Points
        <5> QED BY <1>1, <1>2, <4>1, <5>1
      <4>3. all[i].end = found[l].end + n
        BY <1>4, <1>6, <3>3
      <4> QED BY <1>1, <3>1, <4>2, <4>3
    <3> QED BY <1>7, <3>2, <3>3
  <2> QED BY <1>7, <2>1, <2>2
<1>10. Points(all, whole)
  BY <1>8, <1>9 DEF Points
<1> QED BY <1>4, <1>6, <1>10 DEF all, whole, new

(* What Replace makes of a token. *)
IsClean(acc) ==
  /\ acc = [text |-> acc.text, last |-> acc.last, order |-> acc.order,
            pending |-> acc.pending, cards |-> acc.cards]
  /\ acc.text \in Seq(Pieces) /\ acc.pending \in Seq(Pieces)

LEMMA ReplaceStep ==
  ASSUME NEW acc, IsClean(acc), NEW piece \in Pieces
  PROVE  IsClean(Replace(acc, piece))
<1>1. CASE piece \notin DOMAIN Link
  <2>1. Replace(acc, piece) = [acc EXCEPT !.text = Append(@, piece)]
    BY <1>1 DEF Replace
  <2>2. Append(acc.text, piece) \in Seq(Pieces)
    BY DEF IsClean
  <2> QED BY <2>1, <2>2 DEF IsClean
<1>2. CASE piece \in DOMAIN Link /\ (piece \notin acc.cards \/ acc.last = Link[piece])
  BY <1>2 DEF Replace
<1>3. CASE piece \in DOMAIN Link /\ ~(piece \notin acc.cards \/ acc.last = Link[piece])
  <2> DEFINE order == IF Link[piece] \in Range(acc.order) THEN acc.order
                      ELSE Append(acc.order, Link[piece])
  <2>1. Replace(acc, piece) =
          [acc EXCEPT !.text = Append(@, Link[piece]), !.last = Link[piece],
                      !.pending = Append(@, Link[piece]), !.order = order]
    BY <1>3 DEF Replace
  <2>2. Link[piece] \in Pieces
    <3>1. DOMAIN Link = {"R1", "R2"}
      BY DEF Link
    <3>2. \A x \in Pieces : x = "R1" => Link[x] = "u1"
      BY DEF Link
    <3>3. \A x \in Pieces : x = "R2" => Link[x] = "u2"
      BY DEF Link
    <3>4. piece \in DOMAIN Link
      BY <1>3
    <3>5. piece \in {"R1", "R2"}
      BY <3>1, <3>4
    <3>6. "u1" \in Pieces /\ "u2" \in Pieces
      BY DEF Pieces
    <3> QED BY <3>2, <3>3, <3>5, <3>6, Zenon
  <2>3. Append(acc.text, Link[piece]) \in Seq(Pieces) /\ Append(acc.pending, Link[piece]) \in Seq(Pieces)
    BY <2>2 DEF IsClean
  <2> HIDE DEF order
  <2>4. PICK text, pending, url :
          /\ text = Append(acc.text, Link[piece]) /\ pending = Append(acc.pending, Link[piece])
          /\ url = Link[piece]
    OBVIOUS
  <2>5. Replace(acc, piece) =
          [acc EXCEPT !.text = text, !.last = url, !.pending = pending, !.order = order]
    BY <2>1, <2>4
  <2>6. acc = [text |-> acc.text, last |-> acc.last, order |-> acc.order,
               pending |-> acc.pending, cards |-> acc.cards]
    BY DEF IsClean
  <2>7. Replace(acc, piece) = [text |-> text, last |-> url, order |-> order,
                               pending |-> pending, cards |-> acc.cards]
    BY <2>5, <2>6
  <2> QED BY <2>3, <2>4, <2>7 DEF IsClean
<1> QED BY <1>1, <1>2, <1>3

LEMMA CleanTokenPoints ==
  ASSUME NEW a, NEW token \in Seq(Pieces)
  PROVE  LET c == CleanToken(a, token)
         IN  /\ c.text \in Seq(Pieces) /\ c.notes \in Seq(Notes)
             /\ Points(c.notes, c.text)
<1> DEFINE b == [text |-> <<>>, last |-> a.last, order |-> a.order,
                 pending |-> <<>>, cards |-> a.cards]
           f == FoldLeft(Replace, b, token)
<1>1. PICK r : Runs("replace", 0, b, token, r) /\ f = r[Len(token)]
  BY ReplaceRuns
<1> DEFINE S == {i \in Nat : IsClean(r[i])}
<1>2. 0 \in S
  <2>1. r[0] = b
    BY <1>1 DEF Runs
  <2>2. <<>> \in Seq(Pieces)
    OBVIOUS
  <2>3. IsClean(b)
    BY <2>2 DEF IsClean
  <2> HIDE DEF b
  <2> QED BY <2>1, <2>3
<1>3. ASSUME NEW i \in 0..Len(token) - 1, i \in S PROVE i + 1 \in S
  <2>1. i + 1 \in 1..Len(token) /\ (i + 1) - 1 = i /\ i + 1 \in Nat /\ token[i + 1] \in Pieces
    OBVIOUS
  <2>2. r[i + 1] = Replace(r[i], token[i + 1])
    BY <1>1, <2>1, StepIs DEF Runs
  <2> QED BY <1>3, <2>1, <2>2, ReplaceStep
<1> HIDE DEF S
<1>4. \A i \in 0..Len(token) : i \in S
  <2>1. Len(token) \in Nat
    OBVIOUS
  <2> QED BY <1>2, <1>3, <2>1, UpTo
<1>5. IsClean(f)
  BY <1>1, <1>4 DEF S
<1> DEFINE cleaned == DropBreak(f.text)
<1>6. cleaned \in Seq(Pieces)
  <2>1. f.text \in Seq(Pieces)
    BY <1>5 DEF IsClean
  <2> HIDE DEF f
  <2>2. f.text # <<>> => Tail(f.text) \in Seq(Pieces)
    BY <2>1, HeadTailProperties
  <2>3. cleaned = f.text \/ (f.text # <<>> /\ cleaned = Tail(f.text))
    BY DEF DropBreak
  <2> QED BY <2>1, <2>2, <2>3
<1>7. CleanToken(a, token) = [text |-> cleaned, last |-> f.last, order |-> f.order,
                              notes |-> Located(cleaned, f.pending)]
  BY DEF CleanToken
<1> HIDE DEF cleaned, f
<1>8. f.pending \in Seq(Pieces)
  BY <1>5 DEF IsClean
<1> QED BY <1>6, <1>7, <1>8, LocatedPoints

-----------------------------------------------------------------------------
(* The report of the thinking *)
Section == {"understanding", "scope", "evidence", "finding"}
Lines == [section : Section, title : BOOLEAN]

IsEvent(e) ==
  /\ e = [section |-> e.section, track |-> e.track, level |-> e.level,
          key |-> e.key, promoted |-> e.promoted]
  /\ e.section \in Section

(* A sequence of events, whatever their tracks and keys are. *)
EventsIn(q) == q \in Seq(Range(q)) /\ \A e \in Range(q) : IsEvent(e)

Headed(lines) == {lines[i].section : i \in 1..Len(lines)}

IsAggregator(g) ==
  /\ g = [lang |-> g.lang, en |-> g.en, agents |-> g.agents,
          pending |-> g.pending, emitted |-> g.emitted]
  /\ EventsIn(g.pending)

(* The report so far, and the events it was made of. *)
Reported(g, lines) ==
  IsAggregator(g) /\ lines \in Seq(Lines) /\ InOrder(lines) /\ Sections(g) = Headed(lines)

(* A handler at work: its lines are added to those that went before.        *)
Reporting(before, r) ==
  /\ r = [g |-> r.g, lines |-> r.lines] /\ r.lines \in Seq(Lines)
  /\ Reported(r.g, before \o r.lines)

LEMMA EventsInSeq ==
  ASSUME NEW X, NEW q \in Seq(X), \A x \in X : IsEvent(x)
  PROVE  EventsIn(q)
<1>1. Len(q) \in Nat /\ DOMAIN q = 1..Len(q) /\ \A i \in 1..Len(q) : q[i] \in X
  OBVIOUS
<1>2. \A i \in 1..Len(q) : q[i] \in Range(q)
  BY <1>1 DEF Range
<1>3. q \in Seq(Range(q))
  BY <1>1, <1>2, SeqDef
<1>4. Range(q) \subseteq X
  BY <1>1 DEF Range
<1> QED BY <1>3, <1>4 DEF EventsIn

LEMMA EventsInAppend ==
  ASSUME NEW q, EventsIn(q), NEW e, IsEvent(e)
  PROVE  EventsIn(Append(q, e))
<1> DEFINE X == Range(q) \cup {e}
<1>1. q \in Seq(X)
  BY DEF EventsIn
<1>2. Append(q, e) \in Seq(X)
  BY <1>1
<1>3. \A x \in X : IsEvent(x)
  BY DEF EventsIn
<1> HIDE DEF X
<1> QED BY <1>2, <1>3, EventsInSeq

LEMMA EventsInNone ==
  ASSUME NEW q, q = <<>>
  PROVE  EventsIn(q)
<1>1. PICK X : X = {}
  OBVIOUS
<1>2. q \in Seq(X) /\ \A x \in X : IsEvent(x)
  BY <1>1
<1> QED BY <1>2, EventsInSeq

LEMMA EventsInOne ==
  ASSUME NEW e, IsEvent(e)
  PROVE  EventsIn(<<e>>)
<1> DEFINE X == {e}
<1>1. <<e>> \in Seq(X)
  OBVIOUS
<1>2. \A x \in X : IsEvent(x)
  OBVIOUS
<1> HIDE DEF X
<1> QED BY <1>1, <1>2, EventsInSeq

LEMMA EventsInTwo ==
  ASSUME NEW e, IsEvent(e), NEW f, IsEvent(f)
  PROVE  EventsIn(<<e, f>>)
<1> DEFINE X == {e, f}
<1>1. <<e, f>> \in Seq(X)
  OBVIOUS
<1>2. \A x \in X : IsEvent(x)
  OBVIOUS
<1> HIDE DEF X
<1> QED BY <1>1, <1>2, EventsInSeq

LEMMA EventsInConcat ==
  ASSUME NEW q, EventsIn(q), NEW p, EventsIn(p)
  PROVE  EventsIn(q \o p)
<1> DEFINE X == Range(q) \cup Range(p)
<1>1. q \in Seq(X) /\ p \in Seq(X)
  BY DEF EventsIn
<1>2. q \o p \in Seq(X)
  BY <1>1
<1>3. \A x \in X : IsEvent(x)
  BY DEF EventsIn
<1> HIDE DEF X
<1> QED BY <1>2, <1>3, EventsInSeq

LEMMA EventsInMember ==
  ASSUME NEW q, EventsIn(q)
  PROVE  Len(q) \in Nat /\ q \in Seq(Range(q)) /\ \A i \in 1..Len(q) : IsEvent(q[i])
<1>1. q \in Seq(Range(q))
  BY DEF EventsIn
<1>2. Len(q) \in Nat /\ \A i \in 1..Len(q) : q[i] \in Range(q)
  BY <1>1
<1> QED BY <1>1, <1>2 DEF EventsIn

(* A line under the last section of the report, or a later one. *)
LEMMA InOrderAppend ==
  ASSUME NEW lines \in Seq(Lines), InOrder(lines), NEW line \in Lines,
         \A i \in 1..Len(lines) :
           "understanding" \notin {lines[i].section, line.section}
             => Rank(lines[i].section) <= Rank(line.section),
         line.title <=> \A i \in 1..Len(lines) : lines[i].section # line.section
  PROVE  /\ Append(lines, line) \in Seq(Lines) /\ InOrder(Append(lines, line))
         /\ Headed(Append(lines, line)) = Headed(lines) \cup {line.section}
<1> DEFINE all == Append(lines, line)
           n == Len(lines)
<1>1. /\ all \in Seq(Lines) /\ Len(all) = n + 1 /\ all[n + 1] = line /\ n \in Nat
      /\ \A i \in 1..n : all[i] = lines[i]
      /\ DOMAIN all = 1..Len(all) /\ DOMAIN lines = 1..n
  BY AppendProperties
<1> HIDE DEF all
<1>2. \A i \in 1..n + 1 : i \in 1..n \/ i = n + 1
  BY <1>1
<1>3. ASSUME NEW i \in 1..n + 1, NEW j \in 1..n + 1, i < j,
             "understanding" \notin {all[i].section, all[j].section}
      PROVE  Rank(all[i].section) <= Rank(all[j].section)
  <2>1. i \in 1..n
    BY <1>1, <1>3
  <2>2. CASE j \in 1..n
    BY <1>1, <1>3, <2>1, <2>2 DEF InOrder
  <2>3. CASE j = n + 1
    BY <1>1, <1>3, <2>1, <2>3
  <2> QED BY <1>2, <2>2, <2>3
<1>4. ASSUME NEW i \in 1..n + 1
      PROVE  all[i].title <=> \A j \in 1..i - 1 : all[j].section # all[i].section
  <2>1. CASE i \in 1..n
    <3>1. \A j \in 1..i - 1 : j \in 1..n /\ all[j] = lines[j]
      BY <1>1, <2>1
    <3>2. lines[i].title <=> \A j \in 1..i - 1 : lines[j].section # lines[i].section
      BY <1>1, <2>1 DEF InOrder
    <3> QED BY <1>1, <2>1, <3>1, <3>2
  <2>2. CASE i = n + 1
    <3>1. i - 1 = n /\ all[i] = line
      BY <1>1, <2>2
    <3> QED BY <1>1, <3>1
  <2> QED BY <1>2, <2>1, <2>2
<1>5. InOrder(all)
  BY <1>1, <1>3, <1>4 DEF InOrder
<1>6. Headed(all) = Headed(lines) \cup {line.section}
  BY <1>1, <1>2 DEF Headed
<1> QED BY <1>1, <1>5, <1>6 DEF all

LEMMA SectionAppend ==
  ASSUME NEW lines \in Seq(Lines), InOrder(lines), NEW e, e.section \in Section,
         e.section = "scope" => Headed(lines) \cap {"evidence", "finding"} = {},
         e.section = "evidence" => "finding" \notin Headed(lines)
  PROVE  LET more == (IF e.section \in Headed(lines) THEN <<>> ELSE <<Title(e.section)>>)
                     \o <<Line(e)>>
         IN  /\ more \in Seq(Lines) /\ lines \o more \in Seq(Lines)
             /\ InOrder(lines \o more)
             /\ Headed(lines \o more) = Headed(lines) \cup {e.section}
<1> DEFINE title == Title(e.section)
           line == Line(e)
<1>1. /\ title \in Lines /\ title.section = e.section /\ title.title
      /\ line \in Lines /\ line.section = e.section /\ ~line.title
  BY DEF Title, Line, Lines
<1>2. \A i \in 1..Len(lines) :
        /\ lines[i].section \in Section /\ lines[i].section \in Headed(lines)
        /\ "understanding" \notin {lines[i].section, e.section}
             => Rank(lines[i].section) <= Rank(e.section)
  <2> SUFFICES ASSUME NEW i \in 1..Len(lines)
               PROVE  /\ lines[i].section \in Section /\ lines[i].section \in Headed(lines)
                      /\ "understanding" \notin {lines[i].section, e.section}
                           => Rank(lines[i].section) <= Rank(e.section)
    OBVIOUS
  <2>1. lines[i] \in Lines
    OBVIOUS
  <2>2. lines[i].section \in Section /\ lines[i].section \in Headed(lines)
    BY <2>1 DEF Lines, Headed
  <2> QED BY <2>2 DEF Section, Rank
<1>3. CASE e.section \in Headed(lines)
  <2>1. /\ Append(lines, line) \in Seq(Lines) /\ InOrder(Append(lines, line))
        /\ Headed(Append(lines, line)) = Headed(lines) \cup {e.section}
    <3>1. PICK i \in 1..Len(lines) : lines[i].section = e.section
      BY <1>3 DEF Headed
    <3> HIDE DEF line
    <3> QED BY <1>1, <1>2, <3>1, InOrderAppend
  <2>2. lines \o (<<>> \o <<line>>) = Append(lines, line) /\ <<>> \o <<line>> \in Seq(Lines)
    BY <1>1
  <2> QED BY <1>3, <2>1, <2>2
<1>4. CASE e.section \notin Headed(lines)
  <2> DEFINE one == Append(lines, title)
  <2>1. /\ one \in Seq(Lines) /\ InOrder(one)
        /\ Headed(one) = Headed(lines) \cup {e.section}
    <3>1. \A i \in 1..Len(lines) : lines[i].section # e.section
      BY <1>4 DEF Headed
    <3> HIDE DEF title
    <3> QED BY <1>1, <1>2, <3>1, InOrderAppend
  <2>2. /\ Len(one) = Len(lines) + 1 /\ one[Len(one)].section = e.section /\ Len(one) \in 1..Len(one)
        /\ \A i \in 1..Len(one) : (i \in 1..Len(lines) /\ one[i] = lines[i]) \/ one[i] = title
    <3> HIDE DEF title
    <3> QED BY <1>1
  <2>3. \A i \in 1..Len(one) :
          "understanding" \notin {one[i].section, e.section}
            => Rank(one[i].section) <= Rank(e.section)
    <3>1. "understanding" \notin {e.section} => Rank(e.section) <= Rank(e.section)
      BY DEF Rank, Section
    <3> HIDE DEF title, one
    <3> QED BY <1>1, <1>2, <2>2, <3>1
  <2>4. /\ Append(one, line) \in Seq(Lines) /\ InOrder(Append(one, line))
        /\ Headed(Append(one, line)) = Headed(one) \cup {e.section}
    <3> HIDE DEF line, one
    <3> QED BY <1>1, <2>1, <2>2, <2>3, InOrderAppend
  <2>5. lines \o (<<title>> \o <<line>>) = Append(one, line) /\ <<title>> \o <<line>> \in Seq(Lines)
    <3> HIDE DEF title, line
    <3> QED BY <1>1
  <2> HIDE DEF title, line, one
  <2> QED BY <1>4, <2>1, <2>4, <2>5 DEF title, line
<1> QED BY <1>3, <1>4

LEMMA LinesAssociate ==
  ASSUME NEW p \in Seq(Lines), NEW q \in Seq(Lines), NEW r \in Seq(Lines)
  PROVE  (p \o q) \o r = p \o (q \o r)
BY ConcatAssociative

(* _emit keeps the order: what comes too late for its section is dropped,   *)
(* or goes under the findings.                                              *)
LEMMA EmitOrder ==
  ASSUME NEW before \in Seq(Lines), NEW r, Reporting(before, r), NEW e, IsEvent(e)
  PROVE  Reporting(before, Emit(r, e))
<1> DEFINE f == Promote(r.g, e)
           lines == before \o r.lines
           more == (IF f.section \in Headed(lines) THEN <<>> ELSE <<Title(f.section)>>)
                   \o <<Line(f)>>
           title == IF f.section \in Sections(r.g) THEN <<>> ELSE <<Title(f.section)>>
           g == [r.g EXCEPT !.emitted = @ \cup {f}]
<1>1. CASE TooLate(r.g, e) \/ Repeats(r.g, f)
  BY <1>1 DEF Emit
<1>2. CASE ~(TooLate(r.g, e) \/ Repeats(r.g, f))
  <2>1. Emit(r, e) = [g |-> g, lines |-> r.lines \o title \o <<Line(f)>>]
    BY <1>2 DEF Emit
  <2>2. /\ IsAggregator(r.g) /\ lines \in Seq(Lines) /\ InOrder(lines)
        /\ Sections(r.g) = Headed(lines) /\ r.lines \in Seq(Lines)
    BY DEF Reporting, Reported
  <2>3. /\ f.section \in Section
        /\ f.section = "scope" => Sections(r.g) \cap {"evidence", "finding"} = {}
        /\ f.section = "evidence" => "finding" \notin Sections(r.g)
    <3>1. CASE e.section = "evidence" /\ "finding" \in Sections(r.g)
                 /\ (e.level >= 4 \/ e.track \in Promotable)
      <4>1. f = [e EXCEPT !.section = "finding", !.promoted = TRUE]
        BY <3>1 DEF Promote
      <4>2. f.section = "finding"
        BY <4>1 DEF IsEvent
      <4> QED BY <4>2 DEF Section
    <3>2. CASE ~(e.section = "evidence" /\ "finding" \in Sections(r.g)
                   /\ (e.level >= 4 \/ e.track \in Promotable))
      <4>1. f = e
        BY <3>2 DEF Promote
      <4>2. ~TooLate(r.g, e)
        BY <1>2
      <4> QED BY <3>2, <4>1, <4>2 DEF TooLate, IsEvent
    <3> QED BY <3>1, <3>2
  <2>4. /\ more \in Seq(Lines) /\ lines \o more \in Seq(Lines)
        /\ InOrder(lines \o more)
        /\ Headed(lines \o more) = Headed(lines) \cup {f.section}
    <3> HIDE DEF f, lines
    <3> QED BY <2>2, <2>3, SectionAppend
  <2>5. /\ r.lines \o title \o <<Line(f)>> = r.lines \o more
        /\ r.lines \o more \in Seq(Lines)
        /\ before \o (r.lines \o more) = lines \o more
    <3> DEFINE line == <<Line(f)>>
    <3>1. title \in Seq(Lines) /\ line \in Seq(Lines)
      <4> HIDE DEF f
      <4>1. Title(f.section) \in Lines /\ Line(f) \in Lines
        BY <2>3 DEF Line, Title, Lines
      <4> QED BY <4>1
    <3>2. more = title \o line
      BY <2>2
    <3> HIDE DEF title, more, f, line
    <3>3. PICK was \in Seq(Lines), head \in Seq(Lines), body \in Seq(Lines) :
            was = r.lines /\ head = title /\ body = line
      BY <2>2, <3>1
    <3>4. (was \o head) \o body = was \o (head \o body)
      BY LinesAssociate
    <3>5. PICK m : m = head \o body
      OBVIOUS
    <3>6. m \in Seq(Lines)
      BY <3>5
    <3>7. /\ was \o m \in Seq(Lines)
          /\ (before \o was) \o m = before \o (was \o m)
      <4>1. was \o m \in Seq(Lines)
        BY <3>6
      <4>2. (before \o was) \o m = before \o (was \o m)
        BY <3>6, LinesAssociate, Zenon
      <4> QED BY <4>1, <4>2
    <3>8. /\ r.lines \o title \o <<Line(f)>> = (was \o head) \o body /\ more = head \o body
          /\ lines = before \o was
      BY <3>2, <3>3 DEF line
    <3>9. r.lines \o title \o <<Line(f)>> = was \o m /\ more = m
      BY <3>4, <3>5, <3>8
    <3> QED BY <3>3, <3>7, <3>8, <3>9
  <2>6. /\ IsAggregator(g) /\ Sections(g) = Sections(r.g) \cup {f.section}
    <3>1. r.g = [lang |-> r.g.lang, en |-> r.g.en, agents |-> r.g.agents,
                 pending |-> r.g.pending, emitted |-> r.g.emitted]
      BY <2>2 DEF IsAggregator
    <3> HIDE DEF f
    <3>2. PICK all : all = r.g.emitted \cup {f}
      OBVIOUS
    <3>3. g = [lang |-> r.g.lang, en |-> r.g.en, agents |-> r.g.agents,
               pending |-> r.g.pending, emitted |-> all]
      <4>1. g = [r.g EXCEPT !.emitted = all]
        BY <3>2
      <4> HIDE DEF g
      <4> QED BY <3>1, <4>1
    <3> HIDE DEF g
    <3>4. IsAggregator(g)
      BY <2>2, <3>3 DEF IsAggregator
    <3>5. Sections(g) = Sections(r.g) \cup {f.section}
      BY <3>2, <3>3 DEF Sections
    <3> QED BY <3>4, <3>5
  <2> HIDE DEF more, g, title, f, lines
  <2>7. Emit(r, e) = [g |-> g, lines |-> r.lines \o more]
    BY <2>1, <2>5
  <2>8. Reported(g, before \o (r.lines \o more))
    BY <2>2, <2>4, <2>5, <2>6 DEF Reported
  <2>9. PICK new : new = r.lines \o more
    OBVIOUS
  <2>10. new \in Seq(Lines) /\ Emit(r, e) = [g |-> g, lines |-> new] /\ Reported(g, before \o new)
    BY <2>5, <2>7, <2>8, <2>9
  <2> QED BY <2>10 DEF Reporting
<1> QED BY <1>1, <1>2

LEMMA NoPending ==
  ASSUME NEW before, NEW r, Reporting(before, r)
  PROVE  Reporting(before, [r EXCEPT !.g.pending = <<>>])
<1> DEFINE g == [r.g EXCEPT !.pending = <<>>]
<1>1. [r EXCEPT !.g.pending = <<>>] = [g |-> g, lines |-> r.lines]
  <2>1. PICK old, lines : r = [g |-> old, lines |-> lines]
    BY DEF Reporting
  <2> QED BY <2>1
<1>2. g = [lang |-> r.g.lang, en |-> r.g.en, agents |-> r.g.agents,
           pending |-> <<>>, emitted |-> r.g.emitted]
  BY DEF Reporting, Reported, IsAggregator
<1> HIDE DEF g
<1>3. IsAggregator(g) /\ Sections(g) = Sections(r.g)
  BY <1>2, EventsInNone DEF IsAggregator, Sections
<1> QED BY <1>1, <1>3 DEF Reporting, Reported

LEMMA FlushPendingOrder ==
  ASSUME NEW before \in Seq(Lines), NEW r, Reporting(before, r)
  PROVE  Reporting(before, FlushPending(r))
<1> DEFINE q == r.g.pending
           b == [r EXCEPT !.g.pending = <<>>]
<1>1. EventsIn(q)
  BY DEF Reporting, Reported, IsAggregator
<1>2. FlushPending(r) = FoldLeft(Emit, b, q)
  BY DEF FlushPending
<1>3. Reporting(before, b)
  BY NoPending
<1> HIDE DEF q, b
<1>4. Len(q) \in Nat /\ q \in Seq(Range(q)) /\ \A i \in 1..Len(q) : IsEvent(q[i])
  BY <1>1, EventsInMember
<1>5. PICK s : Runs("emit", 0, b, q, s) /\ FoldLeft(Emit, b, q) = s[Len(q)]
  BY <1>4, EmitRuns
<1> DEFINE S == {i \in Nat : Reporting(before, s[i])}
<1>6. 0 \in S
  BY <1>3, <1>5 DEF Runs
<1>7. ASSUME NEW i \in 0..Len(q) - 1, i \in S PROVE i + 1 \in S
  <2>1. i + 1 \in 1..Len(q) /\ (i + 1) - 1 = i /\ i + 1 \in Nat
    BY <1>4
  <2>2. s[i + 1] = Emit(s[i], q[i + 1])
    BY <1>5, <2>1, StepIs DEF Runs
  <2> QED BY <1>4, <1>7, <2>1, <2>2, EmitOrder
<1> HIDE DEF S
<1>8. \A i \in 0..Len(q) : i \in S
  BY <1>4, <1>6, <1>7, UpTo
<1>9. Len(q) \in S
  BY <1>4, <1>8
<1> QED BY <1>2, <1>5, <1>9 DEF S

(* The events that wait; the language may be settled. *)
LEMMA AggregatorPart ==
  ASSUME NEW before, NEW r, Reporting(before, r), NEW lang, NEW en, NEW agents, NEW pending,
         EventsIn(pending)
  PROVE  Reporting(before, [g |-> [lang |-> lang, en |-> en, agents |-> agents,
                                   pending |-> pending, emitted |-> r.g.emitted],
                            lines |-> r.lines])
<1> DEFINE g == [lang |-> lang, en |-> en, agents |-> agents,
                 pending |-> pending, emitted |-> r.g.emitted]
<1>1. IsAggregator(g) /\ Sections(g) = Sections(r.g)
  BY DEF IsAggregator, Sections
<1> HIDE DEF g
<1>2. Reporting(before, [g |-> g, lines |-> r.lines])
  BY <1>1 DEF Reporting, Reported
<1> QED BY <1>2 DEF g

LEMMA DispatchOrder ==
  ASSUME NEW before \in Seq(Lines), NEW r, Reporting(before, r), NEW e, IsEvent(e)
  PROVE  Reporting(before, Dispatch(r, e))
<1>1. CASE r.g.lang # ""
  BY <1>1, FlushPendingOrder, EmitOrder DEF Dispatch
<1>2. CASE ~(r.g.lang # "")
  <2> DEFINE pending == Append(r.g.pending, e)
             waiting == [r EXCEPT !.g.pending = Append(@, e)]
             settled == [waiting EXCEPT !.g.lang = "en"]
             Part(lang) == [g |-> [lang |-> lang, en |-> r.g.en, agents |-> r.g.agents,
                                   pending |-> pending, emitted |-> r.g.emitted],
                            lines |-> r.lines]
  <2>1. EventsIn(pending)
    BY EventsInAppend DEF Reporting, Reported, IsAggregator
  <2>2. /\ r = [g |-> r.g, lines |-> r.lines]
        /\ r.g = [lang |-> r.g.lang, en |-> r.g.en, agents |-> r.g.agents,
                  pending |-> r.g.pending, emitted |-> r.g.emitted]
    BY DEF Reporting, Reported, IsAggregator
  <2>3. waiting = Part(r.g.lang)
    <3> HIDE DEF pending
    <3>1. [r.g EXCEPT !.pending = pending] =
            [lang |-> r.g.lang, en |-> r.g.en, agents |-> r.g.agents,
             pending |-> pending, emitted |-> r.g.emitted]
      BY <2>2
    <3>2. waiting = [r EXCEPT !.g.pending = pending]
      BY DEF pending
    <3> HIDE DEF waiting
    <3> QED BY <2>2, <3>1, <3>2
  <2>4. settled = Part("en")
    <3> HIDE DEF waiting, pending
    <3> QED BY <2>3
  <2> HIDE DEF pending, waiting, settled
  <2>5. Reporting(before, waiting) /\ Reporting(before, settled)
    BY <2>1, <2>3, <2>4, AggregatorPart
  <2>6. Dispatch(r, e) = waiting \/ Dispatch(r, e) = FlushPending(settled)
    BY <1>2 DEF Dispatch, waiting, settled
  <2> QED BY <2>5, <2>6, FlushPendingOrder
<1> QED BY <1>1, <1>2

LEMMA DispatchAllOrder ==
  ASSUME NEW before \in Seq(Lines), NEW b, Reporting(before, b), NEW q, EventsIn(q)
  PROVE  Reporting(before, FoldLeft(Dispatch, b, q))
<1>4. Len(q) \in Nat /\ q \in Seq(Range(q)) /\ \A i \in 1..Len(q) : IsEvent(q[i])
  BY EventsInMember
<1>5. PICK s : Runs("dispatch", 0, b, q, s) /\ FoldLeft(Dispatch, b, q) = s[Len(q)]
  BY <1>4, DispatchRuns
<1> DEFINE S == {i \in Nat : Reporting(before, s[i])}
<1>6. 0 \in S
  BY <1>5 DEF Runs
<1>7. ASSUME NEW i \in 0..Len(q) - 1, i \in S PROVE i + 1 \in S
  <2>1. i + 1 \in 1..Len(q) /\ (i + 1) - 1 = i /\ i + 1 \in Nat
    BY <1>4
  <2>2. s[i + 1] = Dispatch(s[i], q[i + 1])
    BY <1>5, <2>1, StepIs DEF Runs
  <2> QED BY <1>4, <1>7, <2>1, <2>2, DispatchOrder
<1> HIDE DEF S
<1>8. \A i \in 0..Len(q) : i \in S
  BY <1>4, <1>6, <1>7, UpTo
<1>9. Len(q) \in S
  BY <1>4, <1>8
<1> QED BY <1>5, <1>9 DEF S

LEMMA EventIs ==
  ASSUME NEW section \in Section, NEW track, NEW level, NEW key
  PROVE  IsEvent(Event(section, track, level, key))
<1> DEFINE e == Event(section, track, level, key)
<1>1. e = [section |-> section, track |-> track, level |-> level, key |-> key, promoted |-> FALSE]
  BY DEF Event
<1> HIDE DEF e
<1>2. IsEvent(e)
  BY <1>1 DEF IsEvent
<1> QED BY <1>2 DEF e

LEMMA FragmentEvents ==
  ASSUME NEW x, NEW agents, x.class \in FragmentClasses
  PROVE  EventsIn(IF x.class \in HeaderClasses THEN HeaderEvents(x) ELSE SummaryEvents(x, agents))
<1>0. /\ "understanding" \in Section /\ "scope" \in Section
      /\ "evidence" \in Section /\ "finding" \in Section
  BY DEF Section
<1>1. CASE x.class \in HeaderClasses
  <2>1. HeaderEvents(x) = <<>>
        \/ \E section \in Section : HeaderEvents(x) = <<Event(section, "", 0, x.key)>>
    BY <1>0, <1>1 DEF HeaderEvents, HeaderClasses
  <2> QED BY <1>1, <2>1, EventsInNone, EventsInOne, EventIs
<1>2. CASE x.class \notin HeaderClasses
  <2>1. SummaryEvents(x, agents) = <<>>
        \/ \E section \in Section, level \in 0..4 :
             SummaryEvents(x, agents) = <<Event(section, x.track, level, x.key)>>
    BY <1>0, <1>2 DEF SummaryEvents, HeaderClasses, FragmentClasses
  <2> QED BY <1>2, <2>1, EventsInNone, EventsInOne, EventIs
<1> QED BY <1>1, <1>2

LEMMA UsageEvents ==
  ASSUME NEW x, NEW g, x.class \in ToolClasses
  PROVE  EventsIn(ToolEvents(g, x))
<1>0. /\ "understanding" \in Section /\ "scope" \in Section
      /\ "evidence" \in Section /\ "finding" \in Section
  BY DEF Section
<1>1. CASE x.class = "web_search"
  <2> DEFINE started == IF x.agent /\ ~g.agents THEN <<Event("scope", "", 0, "agents_started")>> ELSE <<>>
             search == IF x.track = "" THEN <<>> ELSE <<Event("scope", x.track, 1, x.key)>>
             e == Event("scope", "", 0, "agents_started")
             f == Event("scope", x.track, 1, x.key)
  <2>1. ToolEvents(g, x) = started \o search
    BY <1>1 DEF ToolEvents
  <2>2. IsEvent(e) /\ IsEvent(f)
    BY <1>0, EventIs
  <2>3. (started = <<>> \/ started = <<e>>) /\ (search = <<>> \/ search = <<f>>)
    OBVIOUS
  <2> HIDE DEF started, search, e, f
  <2>4. EventsIn(started) /\ EventsIn(search)
    BY <2>2, <2>3, EventsInNone, EventsInOne
  <2> QED BY <2>1, <2>4, EventsInConcat
<1>2. CASE x.class = "chatroom_send"
  <2> DEFINE e == Event("evidence", x.track, 2, x.key)
             f == Event("finding", x.track, 3, x.key \o "+")
  <2>1. ToolEvents(g, x) = <<e, f>>
    BY <1>2 DEF ToolEvents, ReportEvents
  <2>2. IsEvent(e) /\ IsEvent(f)
    BY <1>0, EventIs
  <2> HIDE DEF e, f
  <2> QED BY <2>1, <2>2, EventsInTwo
<1>3. CASE x.class \in ToolClasses \ {"web_search", "chatroom_send"}
  <2>1. ToolEvents(g, x) = <<>>
        \/ \E section \in Section : \E track, level, key :
             ToolEvents(g, x) = <<Event(section, track, level, key)>>
    BY <1>0, <1>3 DEF ToolEvents, ToolClasses
  <2> QED BY <2>1, EventsInNone, EventsInOne, EventIs
<1> QED BY <1>1, <1>2, <1>3

LEMMA LanguageObserved ==
  ASSUME NEW before \in Seq(Lines), NEW g, Reported(g, before), NEW lang, NEW agents
  PROVE  /\ Reporting(before, [g |-> ObserveLanguage(g, lang), lines |-> <<>>])
         /\ Reporting(before, [g |-> [ObserveLanguage(g, lang) EXCEPT !.agents = agents],
                               lines |-> <<>>])
<1> DEFINE none == [g |-> g, lines |-> <<>>]
           Part(l, en, ag) == [lang |-> l, en |-> en, agents |-> ag,
                               pending |-> g.pending, emitted |-> g.emitted]
<1>1. Reporting(before, none)
  <2>1. before \o <<>> = before /\ <<>> \in Seq(Lines)
    OBVIOUS
  <2> QED BY <2>1 DEF Reporting
<1>2. g = Part(g.lang, g.en, g.agents) /\ EventsIn(g.pending)
  BY DEF Reported, IsAggregator
<1>3. \E l, en : /\ ObserveLanguage(g, lang) = Part(l, en, g.agents)
                 /\ [ObserveLanguage(g, lang) EXCEPT !.agents = agents] = Part(l, en, agents)
  <2>1. PICK l, en : ObserveLanguage(g, lang) = Part(l, en, g.agents)
    <3>1. CASE lang = "zh"
      <4> DEFINE l == IF g.lang = "" THEN "zh" ELSE g.lang
      <4>1. ObserveLanguage(g, lang) = [g EXCEPT !.lang = l]
        BY <3>1 DEF ObserveLanguage
      <4> HIDE DEF l
      <4>2. [g EXCEPT !.lang = l] = Part(l, g.en, g.agents)
        BY <1>2
      <4> QED BY <4>1, <4>2
    <3>2. CASE lang = "en"
      <4> DEFINE en == IF g.en < 3 THEN g.en + 1 ELSE g.en
      <4>1. ObserveLanguage(g, lang) = [g EXCEPT !.en = en]
        BY <3>2 DEF ObserveLanguage
      <4> HIDE DEF en
      <4>2. [g EXCEPT !.en = en] = Part(g.lang, en, g.agents)
        BY <1>2
      <4> QED BY <4>1, <4>2
    <3>3. CASE lang # "zh" /\ lang # "en"
      <4>1. ObserveLanguage(g, lang) = g
        BY <3>3 DEF ObserveLanguage
      <4> QED BY <1>2, <4>1
    <3> QED BY <3>1, <3>2, <3>3
  <2>2. [Part(l, en, g.agents) EXCEPT !.agents = agents] = Part(l, en, agents)
    OBVIOUS
  <2> QED BY <2>1, <2>2
<1>4. PICK l, en : /\ ObserveLanguage(g, lang) = Part(l, en, g.agents)
                   /\ [ObserveLanguage(g, lang) EXCEPT !.agents = agents] = Part(l, en, agents)
  BY <1>3
<1>5. none.g = g /\ none.lines = <<>>
  OBVIOUS
<1> HIDE DEF none
<1>6. \A ag : Reporting(before, [g |-> Part(l, en, ag), lines |-> <<>>])
  BY <1>1, <1>2, <1>5, AggregatorPart
<1> HIDE DEF Part
<1> QED BY <1>4, <1>6

LEMMA OnThinkingOrder ==
  ASSUME NEW before \in Seq(Lines), NEW g, Reported(g, before), NEW x, x.class \in FragmentClasses
  PROVE  Reporting(before, OnThinking(g, x))
<1> DEFINE seen == [g |-> ObserveLanguage(g, x.lang), lines |-> <<>>]
           q == IF x.class \in HeaderClasses THEN HeaderEvents(x) ELSE SummaryEvents(x, g.agents)
<1>1. EventsIn(q)
  BY FragmentEvents
<1>2. Reporting(before, seen)
  BY LanguageObserved
<1>3. OnThinking(g, x) = FoldLeft(Dispatch, seen, q)
  BY DEF OnThinking
<1> HIDE DEF seen, q
<1> QED BY <1>1, <1>2, <1>3, DispatchAllOrder

LEMMA OnToolUsageOrder ==
  ASSUME NEW before \in Seq(Lines), NEW g, Reported(g, before), NEW x, x.class \in ToolClasses
  PROVE  Reporting(before, OnToolUsage(g, x))
<1> DEFINE started == g.agents \/ (x.class = "web_search" /\ x.agent)
           seen == [g |-> [ObserveLanguage(g, x.lang) EXCEPT !.agents = started], lines |-> <<>>]
           q == ToolEvents(g, x)
<1>1. EventsIn(q)
  BY UsageEvents
<1>2. OnToolUsage(g, x) = FoldLeft(Dispatch, seen, q)
  BY DEF OnToolUsage
<1>3. Reporting(before, seen)
  <2> HIDE DEF started
  <2> QED BY LanguageObserved
<1> HIDE DEF seen, q
<1> QED BY <1>1, <1>2, <1>3, DispatchAllOrder

LEMMA FinalizeOrder ==
  ASSUME NEW before \in Seq(Lines), NEW g, Reported(g, before)
  PROVE  Reporting(before, Finalize(g))
<1> DEFINE none == [g |-> g, lines |-> <<>>]
           lang == IF g.lang # "" THEN g.lang ELSE IF g.en > 0 THEN "en" ELSE "zh"
           part == [lang |-> lang, en |-> g.en, agents |-> g.agents,
                    pending |-> g.pending, emitted |-> g.emitted]
           settled == [g |-> part, lines |-> <<>>]
<1>1. Reporting(before, none)
  <2>1. before \o <<>> = before /\ <<>> \in Seq(Lines)
    OBVIOUS
  <2> QED BY <2>1 DEF Reporting
<1>2. g = [lang |-> g.lang, en |-> g.en, agents |-> g.agents,
           pending |-> g.pending, emitted |-> g.emitted] /\ EventsIn(g.pending)
  BY DEF Reported, IsAggregator
<1>3. CASE g.pending = <<>>
  BY <1>1, <1>3 DEF Finalize
<1>4. CASE g.pending # <<>>
  <2>1. Finalize(g) = FlushPending([g |-> [g EXCEPT !.lang = lang], lines |-> <<>>])
    BY <1>4 DEF Finalize
  <2>2. [g EXCEPT !.lang = lang] = part
    <3> HIDE DEF lang
    <3> QED BY <1>2
  <2>3. Reporting(before, settled)
    <3>1. none.g = g /\ none.lines = <<>>
      OBVIOUS
    <3> HIDE DEF lang, none
    <3> QED BY <1>1, <1>2, <3>1, AggregatorPart
  <2> HIDE DEF part
  <2> QED BY <2>1, <2>2, <2>3, FlushPendingOrder
<1> QED BY <1>3, <1>4

-----------------------------------------------------------------------------
(* The adapter: its annotations are in place, its report is in order, and   *)
(* what a frame adds to its text is the text event of the frame.            *)
AdapterEvents == [kind : {"text", "thinking", "annotation", "soft_stop", "image"}, s : Seq(Pieces)]

Fields(text, notes, order, last, started, rollout, keys, cards, card, images, sources, agg, report) ==
  [text |-> text, notes |-> notes, order |-> order, last |-> last, started |-> started,
   rollout |-> rollout, keys |-> keys, cards |-> cards, card |-> card, images |-> images,
   sources |-> sources, agg |-> agg, report |-> report]

HasFields(a) ==
  a = Fields(a.text, a.notes, a.order, a.last, a.started, a.rollout, a.keys, a.cards, a.card,
             a.images, a.sources, a.agg, a.report)

IsAdapter(a) ==
  /\ HasFields(a)
  /\ a.text \in Seq(Pieces) /\ a.notes \in Seq(Notes) /\ Points(a.notes, a.text)
  /\ a.report \in Seq(Lines) /\ Reported(a.agg, a.report)
  /\ a.images \in Nat /\ a.started \in BOOLEAN /\ a.sources \in BOOLEAN

TextOf(events) == IF events # <<>> /\ events[1].kind = "text" THEN events[1].s ELSE <<>>

(* Whether a frame is the one that stops, with what was held back before.   *)
Stops(events) == Len(events) > 0 /\ events[Len(events)].kind = "soft_stop"

(* Text comes first in a frame that talks and nowhere in another, and       *)
(* thinking only before any text, or in the frame that stops.               *)
Feeds(a, fed, talks) ==
  /\ IsAdapter(fed.a)
  /\ fed.events \in Seq(AdapterEvents)
  /\ \A i \in 1..Len(fed.events) :
        fed.events[i].kind = "text" => i = 1 /\ talks /\ fed.a.started
  /\ fed.a.text = a.text \o TextOf(fed.events)
  /\ a.started => fed.a.started
  /\ \A i \in 1..Len(fed.events) :
        fed.events[i].kind = "thinking" => ~fed.a.started \/ Stops(fed.events)

IsFrame(f, summary) ==
  /\ f.k = "token" => f.s \in Seq(Pieces)
  /\ f.k = "thinking" /\ summary => f.x.class \in FragmentClasses
  /\ f.k = "tool_card" /\ summary => f.x.class \in ToolClasses

LEMMA FieldsAre ==
  ASSUME NEW t, NEW n, NEW o, NEW l, NEW st, NEW ro, NEW ke, NEW ca, NEW cd, NEW im, NEW so,
         NEW ag, NEW re, NEW f, f = Fields(t, n, o, l, st, ro, ke, ca, cd, im, so, ag, re)
  PROVE  /\ HasFields(f)
         /\ f.text = t /\ f.notes = n /\ f.order = o /\ f.last = l /\ f.started = st /\ f.rollout = ro /\ f.keys = ke /\ f.cards = ca /\ f.card = cd /\ f.images = im /\ f.sources = so /\ f.agg = ag /\ f.report = re
BY DEF Fields, HasFields

LEMMA NewAdapterIs == IsAdapter(NewAdapter)
<1> DEFINE none == <<>>
<1>1. none \in Seq(Pieces) /\ none \in Seq(Notes) /\ none \in Seq(Lines) /\ Len(none) = 0
  OBVIOUS
<1>2. Points(none, none) /\ InOrder(none) /\ Headed(none) = {}
  BY <1>1 DEF Points, InOrder, Headed
<1>3. EventsIn(none)
  BY EventsInNone
<1>4. NewAdapter = Fields(none, none, none, "", FALSE, "", {}, {},
                          [progress |-> 0, url |-> FALSE, moderated |-> FALSE],
                          0, FALSE, NewAggregator, none)
  BY DEF NewAdapter, Fields
<1>5. NewAggregator = [lang |-> "", en |-> 0, agents |-> FALSE, pending |-> none, emitted |-> {}]
  BY DEF NewAggregator
<1> HIDE DEF none
<1>6. Sections(NewAggregator) = {}
  BY <1>5 DEF Sections
<1>7. Reported(NewAggregator, none)
  BY <1>1, <1>2, <1>3, <1>5, <1>6 DEF Reported, IsAggregator
<1>9. /\ HasFields(NewAdapter) /\ NewAdapter.text = none /\ NewAdapter.notes = none
      /\ NewAdapter.started = FALSE /\ NewAdapter.images = 0 /\ NewAdapter.sources = FALSE
      /\ NewAdapter.agg = NewAggregator /\ NewAdapter.report = none
  <2>1. PICK t, no, text, keys, card, zero, agg :
          t = none /\ no = FALSE /\ text = "" /\ keys = {} /\ zero = 0 /\ agg = NewAggregator
          /\ card = [progress |-> 0, url |-> FALSE, moderated |-> FALSE]
    OBVIOUS
  <2>2. PICK f : f = Fields(t, t, t, text, no, text, keys, keys, card, zero, no, agg, t)
    OBVIOUS
  <2>3. f = NewAdapter
    BY <1>4, <2>1, <2>2
  <2>4. /\ HasFields(f) /\ f.text = t /\ f.notes = t /\ f.started = no /\ f.images = zero
        /\ f.sources = no /\ f.agg = agg /\ f.report = t
    BY <2>2, FieldsAre
  <2> HIDE DEF none
  <2> QED BY <2>1, <2>3, <2>4
<1>10. /\ NewAdapter.text \in Seq(Pieces) /\ NewAdapter.notes \in Seq(Notes)
       /\ Points(NewAdapter.notes, NewAdapter.text) /\ NewAdapter.report \in Seq(Lines)
       /\ NewAdapter.images \in Nat
  BY <1>1, <1>2, <1>9
<1>12. NewAdapter.started \in BOOLEAN /\ NewAdapter.sources \in BOOLEAN
  BY <1>9, Zenon
<1>11. Reported(NewAdapter.agg, NewAdapter.report)
  BY <1>7, <1>9
<1> QED BY <1>9, <1>10, <1>11, <1>12 DEF IsAdapter

LEMMA FeedTextFeeds ==
  ASSUME NEW a, IsAdapter(a), NEW token \in Seq(Pieces)
  PROVE  /\ Feeds(a, FeedText(a, token), TRUE)
         /\ TextOf(FeedText(a, token).events) = CleanToken(a, token).text
<1> DEFINE c == CleanToken(a, token)
           n == Len(a.text)
           notes == Shifted(c.notes, n)
           b == [a EXCEPT !.started = TRUE, !.last = c.last, !.order = c.order]
<1>1. PICK text, found, last, order :
        text = c.text /\ found = c.notes /\ last = c.last /\ order = c.order
  OBVIOUS
<1>2. text \in Seq(Pieces) /\ found \in Seq(Notes) /\ Points(found, text)
  BY <1>1, CleanTokenPoints
<1>3. PICK old, before : old = a.text /\ before = a.notes
  OBVIOUS
<1>4. old \in Seq(Pieces) /\ before \in Seq(Notes) /\ Points(before, old)
  BY <1>3 DEF IsAdapter
<1>5. PICK new : new = Shifted(found, Len(old))
  OBVIOUS
<1>6. new \in Seq(Notes) /\ before \o new \in Seq(Notes) /\ Points(before \o new, old \o text)
  BY <1>2, <1>4, <1>5, PointsConcat
<1>7. PICK whole, all : whole = old \o text /\ all = before \o new
  OBVIOUS
<1>8. whole \in Seq(Pieces) /\ all \in Seq(Notes) /\ Points(all, whole)
  BY <1>2, <1>4, <1>6, <1>7
<1>9. PICK ro, ke, ca, cd, im, so, ag, re, yes :
        yes = TRUE /\ ro = a.rollout /\ ke = a.keys /\ ca = a.cards /\ cd = a.card /\ im = a.images
        /\ so = a.sources /\ ag = a.agg /\ re = a.report
  OBVIOUS
<1> DEFINE With(t, ns) == Fields(t, ns, order, last, yes, ro, ke, ca, cd, im, so, ag, re)
           bb == [a EXCEPT !.started = TRUE, !.last = last, !.order = order]
<1>10. bb = With(old, before) /\ [With(old, before) EXCEPT !.text = whole, !.notes = all] = With(whole, all)
  <2>1. PICK o, l, st : o = a.order /\ l = a.last /\ st = a.started
    OBVIOUS
  <2> DEFINE a0 == Fields(old, before, o, l, st, ro, ke, ca, cd, im, so, ag, re)
             a1 == Fields(old, before, o, l, yes, ro, ke, ca, cd, im, so, ag, re)
             a2 == Fields(old, before, o, last, yes, ro, ke, ca, cd, im, so, ag, re)
             a3 == Fields(whole, before, order, last, yes, ro, ke, ca, cd, im, so, ag, re)
  <2>2. a = a0
    BY <1>3, <1>9, <2>1 DEF IsAdapter, HasFields
  <2>3. [a0 EXCEPT !.started = yes] = a1
    BY DEF Fields
  <2>4. [a1 EXCEPT !.last = last] = a2
    BY DEF Fields
  <2>5. [a2 EXCEPT !.order = order] = With(old, before)
    BY DEF Fields
  <2>6. [With(old, before) EXCEPT !.text = whole] = a3
    BY DEF Fields
  <2>7. [a3 EXCEPT !.notes = all] = With(whole, all)
    BY DEF Fields
  <2> HIDE DEF a0, a1, a2, a3, With
  <2>8. bb = [[[a EXCEPT !.started = yes] EXCEPT !.last = last] EXCEPT !.order = order]
    BY <1>9
  <2>9. [With(old, before) EXCEPT !.text = whole, !.notes = all]
          = [[With(old, before) EXCEPT !.text = whole] EXCEPT !.notes = all]
    OBVIOUS
  <2> HIDE DEF bb
  <2> QED BY <2>2, <2>3, <2>4, <2>5, <2>6, <2>7, <2>8, <2>9, Zenon
<1>11. /\ IsAdapter(With(old, before)) /\ With(old, before).text = old /\ With(old, before).started
       /\ With(old, before).notes = before
       /\ IsAdapter(With(whole, all)) /\ With(whole, all).text = whole /\ With(whole, all).started
  <2>1. PICK f, g : f = With(old, before) /\ g = With(whole, all)
    OBVIOUS
  <2>3. /\ HasFields(f) /\ f.text = old /\ f.notes = before /\ f.started = yes /\ f.agg = ag
        /\ f.report = re /\ f.images = im /\ f.sources = so
    BY <2>1, FieldsAre
  <2>4. /\ HasFields(g) /\ g.text = whole /\ g.notes = all /\ g.started = yes /\ g.agg = ag
        /\ g.report = re /\ g.images = im /\ g.sources = so
    BY <2>1, FieldsAre
  <2>2. Reported(ag, re) /\ re \in Seq(Lines) /\ im \in Nat /\ so \in BOOLEAN
    BY <1>9 DEF IsAdapter
  <2> HIDE DEF With
  <2>5. IsAdapter(f) /\ IsAdapter(g)
    BY <1>4, <1>8, <1>9, <2>2, <2>3, <2>4 DEF IsAdapter
  <2> QED BY <1>9, <2>1, <2>3, <2>4, <2>5
<1> HIDE DEF With
<1>12. CASE text = <<>>
  <2>1. FeedText(a, token) = Fed(bb, <<>>)
    BY <1>1, <1>12 DEF FeedText
  <2>2. PICK none : none = <<>>
    OBVIOUS
  <2> HIDE DEF bb
  <2>3. /\ TextOf(none) = <<>> /\ none \in Seq(AdapterEvents)
        /\ \A i : i \notin 1..Len(none)
    <3>1. TextOf(none) = <<>>
      BY <2>2 DEF TextOf
    <3>2. Len(none) = 0 /\ none \in Seq(AdapterEvents)
      BY <2>2
    <3> QED BY <3>1, <3>2
  <2>4. PICK fed : fed = FeedText(a, token)
    OBVIOUS
  <2>5. fed.a = With(old, before) /\ fed.events = none
    BY <1>10, <2>1, <2>2, <2>4 DEF Fed
  <2>6. IsAdapter(fed.a) /\ fed.a.text = old /\ fed.a.started
    BY <1>11, <2>5
  <2>7. fed.a.text = a.text \o TextOf(fed.events)
    BY <1>3, <1>4, <2>3, <2>5, <2>6
  <2>8. fed.events \in Seq(AdapterEvents) /\ \A i : i \notin 1..Len(fed.events)
    BY <2>3, <2>5
  <2>9. Feeds(a, fed, TRUE)
    BY <2>6, <2>7, <2>8 DEF Feeds
  <2>10. TextOf(fed.events) = CleanToken(a, token).text
    BY <1>1, <1>12, <2>2, <2>3, <2>5
  <2> QED BY <2>4, <2>9, <2>10
<1>13. CASE text # <<>>
  <2> DEFINE first == Ev("text", text)
             rest == [i \in DOMAIN new |-> Ev("annotation", <<new[i].url>>)]
             events == <<first>> \o rest
  <2>1. FeedText(a, token) = Fed(With(whole, all), events)
    <3>1. [b EXCEPT !.text = @ \o c.text, !.notes = @ \o notes] = With(whole, all)
      <4>1. b = With(old, before)
        BY <1>1, <1>10
      <4>2. With(old, before).text = old /\ With(old, before).notes = before
        BY <1>11
      <4>3. c.text = text /\ notes = new
        BY <1>1, <1>3, <1>5
      <4> HIDE DEF b, c, notes
      <4>4. [b EXCEPT !.text = @ \o c.text, !.notes = @ \o notes]
              = [With(old, before) EXCEPT !.text = whole, !.notes = all]
        BY <1>7, <4>1, <4>2, <4>3
      <4> QED BY <1>10, <4>4
    <3>2. events = <<Ev("text", c.text)>> \o [i \in DOMAIN notes |-> Ev("annotation", <<notes[i].url>>)]
      <4>1. c.text = text /\ notes = new
        BY <1>1, <1>3, <1>5
      <4> HIDE DEF c, notes
      <4> QED BY <4>1
    <3>3. FeedText(a, token)
            = Fed([b EXCEPT !.text = @ \o c.text, !.notes = @ \o notes],
                  <<Ev("text", c.text)>> \o [i \in DOMAIN notes |-> Ev("annotation", <<notes[i].url>>)])
      BY <1>1, <1>13 DEF FeedText
    <3> HIDE DEF events, b, c, notes
    <3> QED BY <3>1, <3>2, <3>3
  <2>2. first \in AdapterEvents /\ first.kind = "text" /\ first.s = text
    BY <1>2 DEF Ev, AdapterEvents
  <2>3. Len(new) \in Nat /\ DOMAIN new = 1..Len(new) /\ \A i \in 1..Len(new) : new[i].url \in Pieces
    <3>1. \A i \in 1..Len(new) : new[i] \in Notes
      BY <1>6
    <3> QED BY <1>6, <3>1 DEF Notes
  <2>4. \A i \in 1..Len(new) : Ev("annotation", <<new[i].url>>) \in AdapterEvents
                               /\ Ev("annotation", <<new[i].url>>).kind = "annotation"
    BY <2>3 DEF Ev, AdapterEvents
  <2>5. /\ rest \in Seq(AdapterEvents) /\ Len(rest) = Len(new)
        /\ \A i \in 1..Len(new) : rest[i].kind = "annotation"
    BY <2>3, <2>4
  <2> HIDE DEF first, rest
  <2>6. /\ events \in Seq(AdapterEvents) /\ Len(events) = 1 + Len(new)
        /\ events[1] = first /\ events # <<>>
        /\ \A i \in 1..Len(events) : i > 1 => events[i].kind = "annotation"
    <3>1. <<first>> \in Seq(AdapterEvents) /\ Len(<<first>>) = 1 /\ <<first>>[1] = first
      BY <2>2
    <3>2. PICK one : one = <<first>>
      OBVIOUS
    <3>3. /\ events \in Seq(AdapterEvents) /\ Len(events) = 1 + Len(rest)
          /\ \A i \in 1..1 + Len(rest) : events[i] = IF i <= 1 THEN one[i] ELSE rest[i - 1]
      BY <2>5, <3>1, <3>2, ConcatProperties
    <3>4. events[1] = first
      BY <2>3, <2>5, <3>1, <3>2, <3>3
    <3>5. \A i \in 1..Len(events) : i > 1 => events[i].kind = "annotation"
      BY <2>3, <2>5, <3>3
    <3> HIDE DEF events
    <3> QED BY <2>3, <2>5, <3>3, <3>4, <3>5
  <2> HIDE DEF events
  <2>7. FeedText(a, token).a = With(whole, all) /\ FeedText(a, token).events = events
    BY <2>1 DEF Fed
  <2>8. TextOf(events) = text
    BY <2>2, <2>6 DEF TextOf
  <2>9. \A i \in 1..Len(events) : events[i].kind \notin {"thinking"} /\ (i > 1 => events[i].kind # "text")
    <3>1. \A i \in 1..Len(events) : i = 1 \/ i > 1
      BY <2>3, <2>6
    <3> QED BY <2>2, <2>6, <3>1
  <2>10. Feeds(a, FeedText(a, token), TRUE)
    BY <1>3, <1>7, <1>11, <2>6, <2>7, <2>8, <2>9 DEF Feeds
  <2> QED BY <1>1, <2>7, <2>8, <2>10
<1> QED BY <1>12, <1>13

(* A frame that says nothing. *)
LEMMA Wordless ==
  ASSUME NEW a, IsAdapter(a), NEW fed, IsAdapter(fed.a), fed.a.text = a.text,
         fed.a.started = a.started, fed.events \in Seq(AdapterEvents),
         \A i \in 1..Len(fed.events) :
           /\ fed.events[i].kind # "text"
           /\ fed.events[i].kind = "thinking" => ~a.started \/ Stops(fed.events)
  PROVE  Feeds(a, fed, FALSE)
<1>1. PICK events : events = fed.events
  OBVIOUS
<1>2. TextOf(events) = <<>>
  <2>1. Len(events) \in Nat /\ (events # <<>> => 1 \in 1..Len(events))
    BY <1>1
  <2> QED BY <1>1, <2>1 DEF TextOf
<1>3. a.text \o <<>> = a.text /\ a.started \in BOOLEAN
  BY DEF IsAdapter
<1> QED BY <1>1, <1>2, <1>3 DEF Feeds

(* What changes neither the text nor the report. *)
LEMMA OtherChanges ==
  ASSUME NEW a, IsAdapter(a), NEW w, NEW sources \in BOOLEAN
  PROVE  \A b \in {[a EXCEPT !.rollout = w], [a EXCEPT !.keys = w], [a EXCEPT !.cards = w],
                   [a EXCEPT !.sources = sources]} :
           IsAdapter(b) /\ b.text = a.text /\ b.started = a.started
<1>1. PICK t, n, o, l, st, ro, ke, ca, cd, im, so, ag, re :
        t = a.text /\ n = a.notes /\ o = a.order /\ l = a.last /\ st = a.started
        /\ ro = a.rollout /\ ke = a.keys /\ ca = a.cards /\ cd = a.card /\ im = a.images
        /\ so = a.sources /\ ag = a.agg /\ re = a.report
  OBVIOUS
<1> DEFINE a0 == Fields(t, n, o, l, st, ro, ke, ca, cd, im, so, ag, re)
           b1 == Fields(t, n, o, l, st, w, ke, ca, cd, im, so, ag, re)
           b2 == Fields(t, n, o, l, st, ro, w, ca, cd, im, so, ag, re)
           b3 == Fields(t, n, o, l, st, ro, ke, w, cd, im, so, ag, re)
           b4 == Fields(t, n, o, l, st, ro, ke, ca, cd, im, sources, ag, re)
<1>2. a = a0
  BY <1>1 DEF IsAdapter, HasFields
<1>3. [a0 EXCEPT !.rollout = w] = b1
  BY DEF Fields
<1>4. [a0 EXCEPT !.keys = w] = b2
  BY DEF Fields
<1>5. [a0 EXCEPT !.cards = w] = b3
  BY DEF Fields
<1>6. [a0 EXCEPT !.sources = sources] = b4
  BY DEF Fields
<1>9. PICK c1, c2, c3, c4 : c1 = b1 /\ c2 = b2 /\ c3 = b3 /\ c4 = b4
  OBVIOUS
<1>10. IsAdapter(c1) /\ c1.text = a.text /\ c1.started = a.started
  <2>1. HasFields(c1) /\ c1.text = t /\ c1.notes = n /\ c1.started = st /\ c1.agg = ag
        /\ c1.report = re /\ c1.images = im /\ c1.sources = so
    BY <1>9, FieldsAre
  <2> QED BY <1>1, <2>1 DEF IsAdapter
<1>11. IsAdapter(c2) /\ c2.text = a.text /\ c2.started = a.started
  <2>1. HasFields(c2) /\ c2.text = t /\ c2.notes = n /\ c2.started = st /\ c2.agg = ag
        /\ c2.report = re /\ c2.images = im /\ c2.sources = so
    BY <1>9, FieldsAre
  <2> QED BY <1>1, <2>1 DEF IsAdapter
<1>12. IsAdapter(c3) /\ c3.text = a.text /\ c3.started = a.started
  <2>1. HasFields(c3) /\ c3.text = t /\ c3.notes = n /\ c3.started = st /\ c3.agg = ag
        /\ c3.report = re /\ c3.images = im /\ c3.sources = so
    BY <1>9, FieldsAre
  <2> QED BY <1>1, <2>1 DEF IsAdapter
<1>13. IsAdapter(c4) /\ c4.text = a.text /\ c4.started = a.started
  <2>1. HasFields(c4) /\ c4.text = t /\ c4.notes = n /\ c4.started = st /\ c4.agg = ag
        /\ c4.report = re /\ c4.images = im /\ c4.sources = sources
    BY <1>9, FieldsAre
  <2> QED BY <1>1, <2>1 DEF IsAdapter
<1> HIDE DEF a0, b1, b2, b3, b4
<1>16. /\ c1 = [a EXCEPT !.rollout = w] /\ c2 = [a EXCEPT !.keys = w] /\ c3 = [a EXCEPT !.cards = w]
       /\ c4 = [a EXCEPT !.sources = sources]
  BY <1>2, <1>3, <1>4, <1>5, <1>6, <1>9, Zenon
<1> QED BY <1>10, <1>11, <1>12, <1>13, <1>16, Zenon

LEMMA ImageChange ==
  ASSUME NEW a, IsAdapter(a), NEW w, NEW images \in Nat
  PROVE  /\ IsAdapter([a EXCEPT !.card = w, !.images = images])
         /\ [a EXCEPT !.card = w, !.images = images].text = a.text
         /\ [a EXCEPT !.card = w, !.images = images].started = a.started
<1>1. PICK t, n, o, l, st, ro, ke, ca, cd, im, so, ag, re :
        t = a.text /\ n = a.notes /\ o = a.order /\ l = a.last /\ st = a.started
        /\ ro = a.rollout /\ ke = a.keys /\ ca = a.cards /\ cd = a.card /\ im = a.images
        /\ so = a.sources /\ ag = a.agg /\ re = a.report
  OBVIOUS
<1> DEFINE a0 == Fields(t, n, o, l, st, ro, ke, ca, cd, im, so, ag, re)
           b1 == Fields(t, n, o, l, st, ro, ke, ca, w, im, so, ag, re)
           b2 == Fields(t, n, o, l, st, ro, ke, ca, w, images, so, ag, re)
<1>2. a = a0
  BY <1>1 DEF IsAdapter, HasFields
<1>3. [a0 EXCEPT !.card = w] = b1
  BY DEF Fields
<1>4. [b1 EXCEPT !.images = images] = b2
  BY DEF Fields
<1>5. PICK c : c = b2
  OBVIOUS
<1>6. HasFields(c) /\ c.text = t /\ c.notes = n /\ c.started = st /\ c.agg = ag
      /\ c.report = re /\ c.images = images /\ c.sources = so
  BY <1>5, FieldsAre
<1>7. IsAdapter(c) /\ c.text = a.text /\ c.started = a.started
  BY <1>1, <1>6 DEF IsAdapter
<1>8. [a EXCEPT !.card = w, !.images = images] = [[a EXCEPT !.card = w] EXCEPT !.images = images]
  OBVIOUS
<1> HIDE DEF a0, b1, b2
<1>9. c = [a EXCEPT !.card = w, !.images = images]
  BY <1>2, <1>3, <1>4, <1>5, <1>8, Zenon
<1> QED BY <1>7, <1>9, Zenon

(* What a frame adds when it says no text. *)
Says(a, fed, kinds) ==
  /\ fed = [a |-> fed.a, events |-> fed.events]
  /\ IsAdapter(fed.a) /\ fed.a.text = a.text /\ fed.a.started = a.started
  /\ fed.events \in Seq(AdapterEvents)
  /\ \A i \in 1..Len(fed.events) : fed.events[i].kind \in kinds

LEMMA SaysFeeds ==
  ASSUME NEW a, IsAdapter(a), NEW kinds, "text" \notin kinds, NEW fed, Says(a, fed, kinds),
         "thinking" \in kinds => ~a.started \/ Stops(fed.events)
  PROVE  Feeds(a, fed, FALSE)
<1>1. \A i \in 1..Len(fed.events) :
        /\ fed.events[i].kind # "text"
        /\ fed.events[i].kind = "thinking" => ~a.started \/ Stops(fed.events)
  BY DEF Says
<1>2. /\ IsAdapter(fed.a) /\ fed.a.text = a.text /\ fed.a.started = a.started
      /\ fed.events \in Seq(AdapterEvents)
  BY DEF Says
<1> QED BY <1>1, <1>2, Wordless

LEMMA SaysSilence ==
  ASSUME NEW a, IsAdapter(a), NEW fed, Says(a, fed, {})
  PROVE  Feeds(a, fed, FALSE)
<1>1. PICK none : none = {}
  OBVIOUS
<1>2. "text" \notin none /\ "thinking" \notin none
  BY <1>1
<1>3. Says(a, fed, none)
  BY <1>1
<1> QED BY <1>2, <1>3, SaysFeeds, Zenon

LEMMA SaysNothing ==
  ASSUME NEW a, NEW b, IsAdapter(b), b.text = a.text, b.started = a.started, NEW kinds
  PROVE  Says(a, Fed(b, <<>>), kinds)
<1>1. PICK none : none = <<>>
  OBVIOUS
<1>2. none \in Seq(AdapterEvents) /\ Len(none) = 0
  BY <1>1
<1>3. PICK fed : fed = Fed(b, <<>>)
  OBVIOUS
<1>4. fed.a = b /\ fed.events = none /\ fed = [a |-> fed.a, events |-> fed.events]
  BY <1>1, <1>3 DEF Fed
<1>5. /\ IsAdapter(fed.a) /\ fed.a.text = a.text /\ fed.a.started = a.started
      /\ fed.events \in Seq(AdapterEvents) /\ \A i \in 1..Len(fed.events) : FALSE
  BY <1>2, <1>4
<1>6. Says(a, fed, kinds)
  BY <1>4, <1>5 DEF Says
<1> QED BY <1>3, <1>6

LEMMA SaysMore ==
  ASSUME NEW a, NEW fed, NEW kinds, Says(a, fed, kinds), NEW b, IsAdapter(b), b.text = a.text,
         b.started = a.started, NEW kind \in {"thinking", "soft_stop", "image"}, kind \in kinds
  PROVE  Says(a, [a |-> b, events |-> Append(fed.events, Ev(kind, <<>>))], kinds)
<1>1. PICK e, events : e = Ev(kind, <<>>) /\ events = fed.events
  OBVIOUS
<1>2. e \in AdapterEvents /\ e.kind = kind
  BY <1>1 DEF Ev, AdapterEvents
<1>3. events \in Seq(AdapterEvents) /\ \A i \in 1..Len(events) : events[i].kind \in kinds
  BY <1>1 DEF Says
<1>4. PICK more : more = Append(events, e)
  OBVIOUS
<1>5. more \in Seq(AdapterEvents) /\ \A i \in 1..Len(more) : more[i].kind \in kinds
  BY <1>2, <1>3, <1>4, AppendProperties
<1>6. PICK new : new = [a |-> b, events |-> more]
  OBVIOUS
<1>7. new.a = b /\ new.events = more /\ new = [a |-> new.a, events |-> new.events]
  BY <1>6
<1>8. Says(a, new, kinds)
  BY <1>5, <1>7 DEF Says
<1> QED BY <1>1, <1>4, <1>6, <1>8

LEMMA SaysOne ==
  ASSUME NEW a, NEW b, IsAdapter(b), b.text = a.text, b.started = a.started,
         NEW kind \in {"thinking", "soft_stop", "image"}
  PROVE  Says(a, Fed(b, <<Ev(kind, <<>>)>>), {kind})
<1>1. Says(a, Fed(b, <<>>), {kind})
  BY SaysNothing
<1>2. Fed(b, <<>>).events = <<>>
  BY DEF Fed
<1>3. Says(a, [a |-> b, events |-> Append(<<>>, Ev(kind, <<>>))], {kind})
  BY <1>1, <1>2, SaysMore
<1>4. Append(<<>>, Ev(kind, <<>>)) = <<Ev(kind, <<>>)>>
  OBVIOUS
<1> QED BY <1>3, <1>4 DEF Fed

(* Lines of the aggregator. *)
LEMMA ReportSays ==
  ASSUME NEW a, IsAdapter(a), NEW r, Reporting(a.report, r)
  PROVE  Says(a, Report(a, r), {"thinking"})
<1>1. PICK t, n, o, l, st, ro, ke, ca, cd, im, so, ag, re :
        t = a.text /\ n = a.notes /\ o = a.order /\ l = a.last /\ st = a.started
        /\ ro = a.rollout /\ ke = a.keys /\ ca = a.cards /\ cd = a.card /\ im = a.images
        /\ so = a.sources /\ ag = a.agg /\ re = a.report
  OBVIOUS
<1>2. PICK g, lines, all : g = r.g /\ lines = r.lines /\ all = re \o lines
  OBVIOUS
<1> DEFINE a0 == Fields(t, n, o, l, st, ro, ke, ca, cd, im, so, ag, re)
           a1 == Fields(t, n, o, l, st, ro, ke, ca, cd, im, so, g, re)
           a2 == Fields(t, n, o, l, st, ro, ke, ca, cd, im, so, g, all)
<1>3. [a EXCEPT !.agg = r.g, !.report = @ \o r.lines] = a2
  <2>1. a = a0
    BY <1>1 DEF IsAdapter, HasFields
  <2>2. [a0 EXCEPT !.agg = g] = a1
    BY DEF Fields
  <2>3. [a1 EXCEPT !.report = all] = a2
    BY DEF Fields
  <2> HIDE DEF a0, a1, a2
  <2>4. [a EXCEPT !.agg = r.g, !.report = @ \o r.lines] = [[a EXCEPT !.agg = g] EXCEPT !.report = all]
    BY <1>1, <1>2
  <2> QED BY <2>1, <2>2, <2>3, <2>4, Zenon
<1>4. PICK b : b = a2
  OBVIOUS
<1>5. /\ HasFields(b) /\ b.text = t /\ b.notes = n /\ b.started = st /\ b.agg = g
      /\ b.report = all /\ b.images = im /\ b.sources = so
  BY <1>4, FieldsAre
<1> HIDE DEF a2
<1>6. Reported(g, all) /\ all \in Seq(Lines) /\ lines \in Seq(Lines)
  <2>1. Reported(r.g, a.report \o r.lines) /\ r.lines \in Seq(Lines)
    BY DEF Reporting
  <2>2. Reported(g, all) /\ lines \in Seq(Lines)
    BY <1>1, <1>2, <2>1
  <2> QED BY <2>2 DEF Reported
<1>7. IsAdapter(b) /\ b.text = a.text /\ b.started = a.started
  BY <1>1, <1>5, <1>6 DEF IsAdapter
<1>8. PICK e : e = Ev("thinking", <<>>)
  OBVIOUS
<1>9. e \in AdapterEvents /\ e.kind = "thinking"
  BY <1>8 DEF Ev, AdapterEvents
<1>10. PICK events : events = [i \in DOMAIN lines |-> e]
  OBVIOUS
<1>11. Len(lines) \in Nat /\ DOMAIN lines = 1..Len(lines)
  BY <1>6
<1>12. events \in Seq(AdapterEvents) /\ Len(events) = Len(lines) /\ \A i \in 1..Len(events) : events[i] = e
  BY <1>9, <1>10, <1>11
<1>13. Report(a, r) = Fed(b, events)
  <2>1. Report(a, r) = Fed([a EXCEPT !.agg = r.g, !.report = @ \o r.lines],
                           [i \in DOMAIN lines |-> Ev("thinking", <<>>)])
    BY <1>2 DEF Report
  <2> QED BY <1>3, <1>4, <1>8, <1>10, <2>1
<1>14. \A i \in 1..Len(events) : events[i].kind \in {"thinking"}
  BY <1>9, <1>12
<1>15. PICK fed : fed = Fed(b, events)
  OBVIOUS
<1>16. fed = [a |-> fed.a, events |-> fed.events] /\ fed.a = b /\ fed.events = events
  BY <1>15 DEF Fed
<1>17. Says(a, fed, {"thinking"})
  BY <1>7, <1>12, <1>14, <1>16 DEF Says
<1> QED BY <1>13, <1>15, <1>17

LEMMA AppendReasoningSays ==
  ASSUME NEW a, NEW fed, Says(a, fed, {"thinking"}), NEW key
  PROVE  Says(a, AppendReasoning(fed, key), {"thinking"})
<1>1. CASE key \in fed.a.keys
  BY <1>1 DEF AppendReasoning
<1>2. CASE key \notin fed.a.keys
  <2>1. PICK b : b = [fed.a EXCEPT !.keys = @ \cup {key}]
    OBVIOUS
  <2>2. IsAdapter(fed.a) /\ fed.a.text = a.text /\ fed.a.started = a.started
    BY DEF Says
  <2>3. PICK old, keys : old = fed.a /\ keys = old.keys \cup {key}
    OBVIOUS
  <2>4. b = [old EXCEPT !.keys = keys]
    BY <2>1, <2>3
  <2>5. IsAdapter(old) /\ 0 \in Nat /\ TRUE \in BOOLEAN
    BY <2>2, <2>3
  <2>6. IsAdapter(b) /\ b.text = old.text /\ b.started = old.started
    BY <2>4, <2>5, OtherChanges, Zenon
  <2>7. Says(a, [a |-> b, events |-> Append(fed.events, Ev("thinking", <<>>))], {"thinking"})
    BY <2>2, <2>3, <2>6, SaysMore
  <2> QED BY <1>2, <2>1, <2>7 DEF AppendReasoning
<1> QED BY <1>1, <1>2

LEMMA SwitchSays ==
  ASSUME NEW a, IsAdapter(a), NEW rollout
  PROVE  Says(a, Switch(a, rollout), {"thinking"})
<1>1. CASE rollout = "" \/ rollout = a.rollout
  BY <1>1, SaysNothing DEF Switch
<1>2. CASE ~(rollout = "" \/ rollout = a.rollout)
  <2>1. PICK b : b = [a EXCEPT !.rollout = rollout]
    OBVIOUS
  <2>2. 0 \in Nat /\ TRUE \in BOOLEAN
    OBVIOUS
  <2>3. IsAdapter(b) /\ b.text = a.text /\ b.started = a.started
    BY <2>1, <2>2, OtherChanges, Zenon
  <2>4. Says(a, Fed(b, <<Ev("thinking", <<>>)>>), {"thinking"})
    BY <2>3, SaysOne
  <2> QED BY <1>2, <2>1, <2>4 DEF Switch
<1> QED BY <1>1, <1>2

LEMMA FeedThinkingFeeds ==
  ASSUME NEW a, IsAdapter(a), NEW f, NEW summary, summary => f.x.class \in FragmentClasses
  PROVE  Feeds(a, FeedThinking(a, f, summary), FALSE)
<1>1. CASE a.started
  <2>1. Says(a, Fed(a, <<>>), {})
    BY SaysNothing
  <2> QED BY <1>1, <2>1, SaysSilence DEF FeedThinking
<1>2. CASE ~a.started /\ summary
  <2>1. a.report \in Seq(Lines) /\ Reported(a.agg, a.report)
    BY DEF IsAdapter
  <2>2. Reporting(a.report, OnThinking(a.agg, f.x))
    BY <1>2, <2>1, OnThinkingOrder
  <2>3. FeedThinking(a, f, summary) = Report(a, OnThinking(a.agg, f.x))
    BY <1>2 DEF FeedThinking
  <2>4. Says(a, FeedThinking(a, f, summary), {"thinking"})
    BY <2>2, <2>3, ReportSays
  <2> QED BY <1>2, <2>4, SaysFeeds
<1>3. CASE ~a.started /\ ~summary
  <2>1. FeedThinking(a, f, summary) = AppendReasoning(Switch(a, f.rollout), <<f.rollout, f.x.key>>)
    BY <1>3 DEF FeedThinking
  <2>2. Says(a, FeedThinking(a, f, summary), {"thinking"})
    BY <2>1, SwitchSays, AppendReasoningSays
  <2> QED BY <1>3, <2>2, SaysFeeds
<1> QED BY <1>1, <1>2, <1>3

LEMMA FeedToolCardFeeds ==
  ASSUME NEW a, IsAdapter(a), NEW f, NEW summary, summary => f.x.class \in ToolClasses
  PROVE  Feeds(a, FeedToolCard(a, f, summary), FALSE)
<1>1. CASE a.started
  <2>1. Says(a, Fed(a, <<>>), {})
    BY SaysNothing
  <2> QED BY <1>1, <2>1, SaysSilence DEF FeedToolCard
<1>2. CASE ~a.started /\ summary
  <2>1. a.report \in Seq(Lines) /\ Reported(a.agg, a.report)
    BY DEF IsAdapter
  <2>2. Reporting(a.report, OnToolUsage(a.agg, f.x))
    BY <1>2, <2>1, OnToolUsageOrder
  <2>3. FeedToolCard(a, f, summary) = Report(a, OnToolUsage(a.agg, f.x))
    BY <1>2 DEF FeedToolCard
  <2>4. Says(a, FeedToolCard(a, f, summary), {"thinking"})
    BY <2>2, <2>3, ReportSays
  <2> QED BY <1>2, <2>4, SaysFeeds
<1>3. CASE ~a.started /\ ~summary
  <2>1. PICK rollout : rollout = IF f.rollout = "" THEN a.rollout ELSE f.rollout
    OBVIOUS
  <2>2. PICK b : b = [a EXCEPT !.rollout = rollout]
    OBVIOUS
  <2>3. 0 \in Nat /\ TRUE \in BOOLEAN
    OBVIOUS
  <2>4. IsAdapter(b) /\ b.text = a.text /\ b.started = a.started
    BY <2>2, <2>3, OtherChanges, Zenon
  <2>5. FeedToolCard(a, f, summary)
          = AppendReasoning(Fed([a EXCEPT !.rollout = IF f.rollout = "" THEN @ ELSE f.rollout], <<>>),
                            <<f.rollout, f.x.class>>)
    BY <1>3 DEF FeedToolCard
  <2>6. FeedToolCard(a, f, summary) = AppendReasoning(Fed(b, <<>>), <<f.rollout, f.x.class>>)
    BY <2>1, <2>2, <2>5
  <2>7. Says(a, Fed(b, <<>>), {"thinking"})
    BY <2>4, SaysNothing
  <2>8. Says(a, FeedToolCard(a, f, summary), {"thinking"})
    BY <2>6, <2>7, AppendReasoningSays
  <2> QED BY <1>3, <2>8, SaysFeeds
<1> QED BY <1>1, <1>2, <1>3

LEMMA FeedStopFeeds ==
  ASSUME NEW a, IsAdapter(a), NEW summary
  PROVE  Feeds(a, FeedStop(a, summary), FALSE)
<1>1. CASE ~summary
  <2>1. Says(a, Fed(a, <<Ev("soft_stop", <<>>)>>), {"soft_stop"})
    BY SaysOne
  <2>2. FeedStop(a, summary) = Fed(a, <<Ev("soft_stop", <<>>)>>)
    BY <1>1 DEF FeedStop
  <2>3. "text" \notin {"soft_stop"} /\ "thinking" \notin {"soft_stop"}
    OBVIOUS
  <2>4. Says(a, FeedStop(a, summary), {"soft_stop"})
    BY <2>1, <2>2
  <2> QED BY <2>3, <2>4, SaysFeeds
<1>2. CASE summary
  <2>1. PICK fed : fed = Report(a, Finalize(a.agg))
    OBVIOUS
  <2>2. a.report \in Seq(Lines) /\ Reported(a.agg, a.report)
    BY DEF IsAdapter
  <2>3. Says(a, fed, {"thinking"})
    BY <2>1, <2>2, FinalizeOrder, ReportSays
  <2>4. Says(a, fed, {"thinking", "soft_stop"}) /\ IsAdapter(fed.a) /\ fed.a.text = a.text
        /\ fed.a.started = a.started
    BY <2>3 DEF Says
  <2>5. Says(a, [a |-> fed.a, events |-> Append(fed.events, Ev("soft_stop", <<>>))],
             {"thinking", "soft_stop"})
    BY <2>4, SaysMore
  <2>6. FeedStop(a, summary) = Fed(fed.a, Append(fed.events, Ev("soft_stop", <<>>)))
    BY <1>2, <2>1 DEF FeedStop
  <2>7. Says(a, FeedStop(a, summary), {"thinking", "soft_stop"})
    BY <2>5, <2>6 DEF Fed
  <2>8. PICK stopped : stopped = FeedStop(a, summary)
    OBVIOUS
  <2>9. Stops(stopped.events)
    <3>1. PICK e, events : e = Ev("soft_stop", <<>>) /\ events = fed.events
      OBVIOUS
    <3>2. e.kind = "soft_stop" /\ e \in AdapterEvents
      BY <3>1 DEF Ev, AdapterEvents
    <3>3. events \in Seq(AdapterEvents)
      BY <2>3, <3>1 DEF Says
    <3>4. stopped.events = Append(events, e)
      BY <2>6, <2>8, <3>1 DEF Fed
    <3>5. PICK more : more = Append(events, e)
      OBVIOUS
    <3>6. Len(more) = Len(events) + 1 /\ more[Len(events) + 1] = e /\ Len(events) \in Nat
      BY <3>2, <3>3, <3>5, AppendProperties
    <3> QED BY <3>2, <3>4, <3>5, <3>6 DEF Stops
  <2>10. Says(a, stopped, {"thinking", "soft_stop"}) /\ "text" \notin {"thinking", "soft_stop"}
    BY <2>7, <2>8
  <2> QED BY <2>8, <2>9, <2>10, SaysFeeds
<1> QED BY <1>1, <1>2

LEMMA FeedImageCardFeeds ==
  ASSUME NEW a, IsAdapter(a), NEW f
  PROVE  Feeds(a, FeedImageCard(a, f), FALSE)
<1> DEFINE card == [progress |-> IF f.progress = 0 THEN a.card.progress ELSE f.progress,
                    url |-> a.card.url \/ f.url,
                    moderated |-> a.card.moderated \/ f.moderated]
           new == card.progress = 100 /\ card.url /\ ~card.moderated /\ a.images = 0
<1>1. FeedImageCard(a, f) = Fed([a EXCEPT !.card = card, !.images = IF new THEN 1 ELSE @],
                                IF new THEN <<Ev("image", <<>>)>> ELSE <<>>)
  BY DEF FeedImageCard
<1> HIDE DEF card, new
<1>2. PICK images : images = IF new THEN 1 ELSE a.images
  OBVIOUS
<1>3. images \in Nat /\ TRUE \in BOOLEAN
  <2>1. a.images \in Nat
    BY DEF IsAdapter
  <2> QED BY <1>2, <2>1
<1>4. PICK b, w : w = card /\ b = [a EXCEPT !.card = w, !.images = images]
  OBVIOUS
<1>5. IsAdapter(b) /\ b.text = a.text /\ b.started = a.started
  <2>1. b = [a EXCEPT !.card = w, !.images = images]
    BY <1>4
  <2> QED BY <1>3, <2>1, ImageChange, Zenon
<1>6. FeedImageCard(a, f) = Fed(b, IF new THEN <<Ev("image", <<>>)>> ELSE <<>>)
  BY <1>1, <1>2, <1>4
<1>7. Says(a, Fed(b, <<>>), {"image"}) /\ Says(a, Fed(b, <<Ev("image", <<>>)>>), {"image"})
  BY <1>5, SaysNothing, SaysOne
<1>8. Says(a, FeedImageCard(a, f), {"image"})
  <2>1. CASE new
    BY <1>6, <1>7, <2>1
  <2>2. CASE ~new
    BY <1>6, <1>7, <2>2
  <2> QED BY <2>1, <2>2
<1>9. "text" \notin {"image"} /\ "thinking" \notin {"image"}
  OBVIOUS
<1> QED BY <1>8, <1>9, SaysFeeds

LEMMA FeedCitationCardFeeds ==
  ASSUME NEW a, IsAdapter(a), NEW f
  PROVE  Feeds(a, FeedCitationCard(a, f), FALSE)
<1>1. PICK cards : cards = a.cards \cup {f.id}
  OBVIOUS
<1>2. PICK b : b = [a EXCEPT !.cards = cards]
  OBVIOUS
<1>3. 0 \in Nat /\ TRUE \in BOOLEAN
  OBVIOUS
<1>4. IsAdapter(b) /\ b.text = a.text /\ b.started = a.started
  BY <1>2, <1>3, OtherChanges, Zenon
<1>5. FeedCitationCard(a, f) = Fed(b, <<>>)
  BY <1>1, <1>2 DEF FeedCitationCard
<1>6. Says(a, Fed(b, <<>>), {})
  BY <1>4, SaysNothing
<1>7. PICK fed : fed = Fed(b, <<>>)
  OBVIOUS
<1>8. Says(a, fed, {})
  BY <1>6, <1>7
<1>9. Feeds(a, fed, FALSE)
  BY <1>8, SaysSilence
<1> QED BY <1>5, <1>7, <1>9

LEMMA FeedSearchFeeds ==
  ASSUME NEW a, IsAdapter(a)
  PROVE  Feeds(a, FeedSearch(a), FALSE)
<1>1. PICK sources \in BOOLEAN : sources = TRUE
  OBVIOUS
<1>2. PICK b : b = [a EXCEPT !.sources = sources]
  OBVIOUS
<1>3. 0 \in Nat
  OBVIOUS
<1>4. IsAdapter(b) /\ b.text = a.text /\ b.started = a.started
  BY <1>2, <1>3, OtherChanges, Zenon
<1>5. FeedSearch(a) = Fed(b, <<>>)
  BY <1>1, <1>2 DEF FeedSearch
<1>6. Says(a, Fed(b, <<>>), {})
  BY <1>4, SaysNothing
<1>7. PICK fed : fed = Fed(b, <<>>)
  OBVIOUS
<1>8. Says(a, fed, {})
  BY <1>6, <1>7
<1>9. Feeds(a, fed, FALSE)
  BY <1>8, SaysSilence
<1> QED BY <1>5, <1>7, <1>9

(* Every frame. *)
LEMMA FeedFrameFeeds ==
  ASSUME NEW a, IsAdapter(a), NEW f, NEW summary, IsFrame(f, summary)
  PROVE  Feeds(a, FeedFrame(a, f, summary), f.k = "token")
<1>1. CASE f.k = "token"
  BY <1>1, FeedTextFeeds DEF IsFrame, FeedFrame
<1>2. CASE f.k = "thinking"
  BY <1>2, FeedThinkingFeeds DEF IsFrame, FeedFrame
<1>3. CASE f.k = "tool_card"
  BY <1>3, FeedToolCardFeeds DEF IsFrame, FeedFrame
<1>4. CASE f.k = "image_card"
  BY <1>4, FeedImageCardFeeds DEF FeedFrame
<1>5. CASE f.k = "citation_card"
  BY <1>5, FeedCitationCardFeeds DEF FeedFrame
<1>6. CASE f.k = "search"
  BY <1>6, FeedSearchFeeds DEF FeedFrame
<1>7. CASE f.k = "stop"
  BY <1>7, FeedStopFeeds DEF FeedFrame
<1>8. CASE f.k \notin {"token", "thinking", "tool_card", "image_card", "citation_card", "search", "stop"}
  <2>1. Says(a, Fed(a, <<>>), {})
    BY SaysNothing
  <2>2. FeedFrame(a, f, summary) = Fed(a, <<>>)
    BY <1>8 DEF FeedFrame
  <2>3. Feeds(a, Fed(a, <<>>), FALSE)
    BY <2>1, SaysSilence
  <2>4. (f.k = "token") = FALSE
    BY <1>8
  <2> QED BY <2>2, <2>3, <2>4
<1> QED BY <1>1, <1>2, <1>3, <1>4, <1>5, <1>6, <1>7, <1>8

(* The adapter of the console, which has text only. *)
IsConsole(a) ==
  /\ a = [text |-> a.text, done |-> a.done, usage |-> a.usage]
  /\ a.text \in Seq(Pieces)

Tells(a, fed) ==
  /\ IsConsole(fed.a)
  /\ fed.events \in Seq(AdapterEvents)
  /\ \A i \in 1..Len(fed.events) : i = 1 /\ fed.events[i].kind = "text"
  /\ fed.a.text = a.text \o TextOf(fed.events)

LEMMA NewConsoleIs == IsConsole(NewConsole)
<1>1. PICK none, no : none = <<>> /\ no = FALSE
  OBVIOUS
<1>2. NewConsole = [text |-> none, done |-> no, usage |-> no]
  BY <1>1 DEF NewConsole
<1>3. none \in Seq(Pieces)
  BY <1>1
<1> QED BY <1>2, <1>3 DEF IsConsole

LEMMA FeedConsoleTells ==
  ASSUME NEW a, IsConsole(a), NEW f, f.k = "token" => f.s \in Seq(Pieces)
  PROVE  Tells(a, FeedConsole(a, f))
<1>1. PICK none, fed : none = <<>> /\ fed = FeedConsole(a, f)
  OBVIOUS
<1>2. none \in Seq(AdapterEvents) /\ TextOf(none) = <<>>
  <2>1. TextOf(none) = <<>>
    BY <1>1 DEF TextOf
  <2> QED BY <1>1, <2>1
<1>3. a.text \o <<>> = a.text /\ \A i : i \notin 1..Len(none)
  <2>1. Len(none) = 0
    BY <1>1
  <2> QED BY <2>1 DEF IsConsole
<1>4. PICK text, done, usage, yes : text = a.text /\ done = a.done /\ usage = a.usage /\ yes = TRUE
  OBVIOUS
<1>5. a = [text |-> text, done |-> done, usage |-> usage] /\ text \in Seq(Pieces)
  BY <1>4 DEF IsConsole
<1>6. CASE ~a.done /\ f.k = "token"
  <2>1. PICK s, whole : s = f.s /\ whole = text \o s
    OBVIOUS
  <2>2. s \in Seq(Pieces) /\ whole \in Seq(Pieces)
    BY <1>5, <1>6, <2>1
  <2>3. PICK b : b = [text |-> whole, done |-> done, usage |-> usage]
    OBVIOUS
  <2>4. b = [a EXCEPT !.text = @ \o f.s]
    <3>1. [[text |-> text, done |-> done, usage |-> usage] EXCEPT !.text = whole]
            = [text |-> whole, done |-> done, usage |-> usage]
      OBVIOUS
    <3>2. [a EXCEPT !.text = @ \o f.s] = [a EXCEPT !.text = whole]
      BY <1>4, <2>1
    <3> QED BY <1>5, <2>3, <3>1, <3>2, Zenon
  <2>5. IsConsole(b) /\ b.text = whole
    BY <2>2, <2>3 DEF IsConsole
  <2>6. PICK e, events : e = Ev("text", s) /\ events = <<e>>
    OBVIOUS
  <2>7. e \in AdapterEvents /\ e.kind = "text" /\ e.s = s
    BY <2>2, <2>6 DEF Ev, AdapterEvents
  <2>8. /\ events \in Seq(AdapterEvents) /\ events # <<>> /\ events[1] = e
        /\ \A i \in 1..Len(events) : i = 1
    BY <2>6, <2>7
  <2>9. TextOf(events) = s
    BY <2>7, <2>8 DEF TextOf
  <2>10. fed = Fed([a EXCEPT !.text = @ \o f.s], <<Ev("text", f.s)>>)
    BY <1>1, <1>6 DEF FeedConsole
  <2>11. fed = Fed(b, events)
    BY <2>1, <2>4, <2>6, <2>10
  <2>12. fed.a = b /\ fed.events = events
    BY <2>11 DEF Fed
  <2>13. fed.a.text = a.text \o TextOf(fed.events)
    BY <1>4, <2>1, <2>5, <2>9, <2>12
  <2>14. \A i \in 1..Len(events) : i = 1 /\ events[i].kind = "text"
    BY <2>7, <2>8
  <2>15. IsConsole(fed.a) /\ fed.events \in Seq(AdapterEvents)
    BY <2>5, <2>8, <2>12
  <2>16. Tells(a, fed)
    BY <2>12, <2>13, <2>14, <2>15 DEF Tells
  <2> QED BY <1>1, <2>16
<1>7. CASE ~a.done /\ f.k = "stop"
  <2>1. PICK b : b = [text |-> text, done |-> yes, usage |-> yes]
    OBVIOUS
  <2>2. b = [a EXCEPT !.done = TRUE, !.usage = TRUE]
    <3>1. /\ [[text |-> text, done |-> done, usage |-> usage] EXCEPT !.done = yes]
               = [text |-> text, done |-> yes, usage |-> usage]
          /\ [[text |-> text, done |-> yes, usage |-> usage] EXCEPT !.usage = yes]
               = [text |-> text, done |-> yes, usage |-> yes]
      OBVIOUS
    <3>2. [a EXCEPT !.done = TRUE, !.usage = TRUE] = [[a EXCEPT !.done = yes] EXCEPT !.usage = yes]
      BY <1>4
    <3> QED BY <1>5, <2>1, <3>1, <3>2, Zenon
  <2>3. IsConsole(b) /\ b.text = text
    BY <1>5, <2>1 DEF IsConsole
  <2>4. fed = Fed([a EXCEPT !.done = TRUE, !.usage = TRUE], <<>>)
    BY <1>1, <1>7 DEF FeedConsole
  <2>5. fed = Fed(b, none)
    BY <1>1, <2>2, <2>4
  <2>6. fed.a = b /\ fed.events = none
    BY <2>5 DEF Fed
  <2>7. fed.a.text = a.text \o TextOf(fed.events)
    BY <1>2, <1>3, <1>4, <2>3, <2>6
  <2>8. Tells(a, fed)
    BY <1>2, <1>3, <2>3, <2>6, <2>7 DEF Tells
  <2> QED BY <1>1, <2>8
<1>8. CASE a.done \/ f.k \notin {"token", "stop"}
  <2>1. fed = Fed(a, none)
    BY <1>1, <1>8 DEF FeedConsole
  <2>2. fed.a = a /\ fed.events = none
    BY <2>1 DEF Fed
  <2>3. fed.a.text = a.text \o TextOf(fed.events)
    BY <1>2, <1>3, <2>2
  <2>4. Tells(a, fed)
    BY <1>2, <1>3, <2>2, <2>3 DEF Tells
  <2> QED BY <1>1, <2>4
<1> QED BY <1>6, <1>7, <1>8

-----------------------------------------------------------------------------
(* The adapter along the request *)
AdapterInv ==
  /\ cfg \in Configs
  /\ attempt \in Nat /\ (pc = "read" => attempt > 0)
  /\ cfg.api \in Grok \/ attempt = 0 => IsAdapter(adapter)
  /\ cfg.api \notin Grok /\ attempt > 0 => IsConsole(adapter)

LEMMA FramesAre ==
  ASSUME NEW c \in Configs, NEW f \in Frames(c)
  PROVE  IsFrame(f, c.summary)
<1>1. ASSUME NEW s \in Seq(STRING) PROVE s \in Seq(Pieces)
  <2>1. Len(s) \in Nat /\ DOMAIN s = 1..Len(s) /\ \A i \in 1..Len(s) : s[i] \in STRING
    OBVIOUS
  <2>2. \A i \in 1..Len(s) : s[i] \in Pieces
    BY <2>1 DEF Pieces
  <2>3. s = [i \in 1..Len(s) |-> s[i]]
    BY <2>1
  <2> QED BY <2>1, <2>2, <2>3, SeqDef
<1> QED BY <1>1, FramesAssumption DEF IsFrame

(* What a frame that is read adds. *)
LEMMA ReadFeeds ==
  ASSUME AdapterInv, pc = "read", NEW f \in Frames(cfg)
  PROVE  /\ cfg.api \in Grok => Feeds(adapter, FedBy(f), f.k = "token")
         /\ cfg.api \notin Grok => Tells(adapter, FedBy(f))
<1>1. cfg \in Configs /\ attempt > 0 /\ attempt # 0
  BY DEF AdapterInv
<1>2. IsFrame(f, cfg.summary)
  BY <1>1, FramesAre
<1>3. CASE cfg.api \in Grok
  <2>1. IsAdapter(adapter)
    BY <1>3 DEF AdapterInv
  <2> QED BY <1>2, <1>3, <2>1, FeedFrameFeeds DEF FedBy
<1>4. CASE cfg.api \notin Grok
  <2>1. IsConsole(adapter)
    BY <1>1, <1>4 DEF AdapterInv
  <2>2. f.k = "token" => f.s \in Seq(Pieces)
    BY <1>2 DEF IsFrame
  <2> QED BY <1>4, <2>1, <2>2, FeedConsoleTells DEF FedBy
<1> QED BY <1>3, <1>4

LEMMA AdapterInit == Init => AdapterInv
<1> SUFFICES ASSUME Init PROVE AdapterInv
  OBVIOUS
<1>1. cfg \in Configs /\ attempt = 0 /\ pc = "reserve" /\ adapter = NewAdapter
  BY DEF Init
<1> QED BY <1>1, NewAdapterIs DEF AdapterInv

LEMMA AdapterRead ==
  ASSUME AdapterInv, NEW f \in Frames(cfg), Read(f)
  PROVE  AdapterInv'
<1>1. /\ cfg' = cfg /\ attempt' = attempt /\ pc = "read" /\ adapter' = FedBy(f).a
  BY DEF Read, loop
<1>2. cfg.api \in Grok => IsAdapter(FedBy(f).a)
  BY <1>1, ReadFeeds DEF Feeds
<1>3. cfg.api \notin Grok => IsConsole(FedBy(f).a)
  BY <1>1, ReadFeeds DEF Tells
<1>4. cfg \in Configs /\ attempt \in Nat /\ attempt > 0 /\ attempt # 0
  BY <1>1 DEF AdapterInv
<1> QED BY <1>1, <1>2, <1>3, <1>4 DEF AdapterInv

LEMMA AdapterStep == AdapterInv /\ [Next]_vars => AdapterInv'
<1> SUFFICES ASSUME AdapterInv, [Next]_vars PROVE AdapterInv'
  OBVIOUS
<1>1. CASE Reserve
  <2>1. /\ cfg' = cfg /\ attempt' = attempt + 1
        /\ adapter' = IF cfg.api \in Grok THEN NewAdapter ELSE NewConsole
    BY <1>1 DEF Reserve
  <2>2. cfg \in Configs /\ attempt \in Nat
    BY DEF AdapterInv
  <2>3. attempt' \in Nat /\ attempt' > 0 /\ attempt' # 0
    BY <2>1, <2>2
  <2> QED BY <2>1, <2>2, <2>3, NewAdapterIs, NewConsoleIs DEF AdapterInv
<1>2. ASSUME NEW f \in Frames(cfg), Read(f) PROVE AdapterInv'
  BY <1>2, AdapterRead
<1>3. ASSUME UNCHANGED <<cfg, attempt, adapter>>, pc' = "read" => pc = "read" PROVE AdapterInv'
  BY <1>3 DEF AdapterInv
<1>4. CASE NoAccount
  BY <1>3, <1>4 DEF NoAccount, Raise, loop, reader
<1>5. CASE Yield
  BY <1>3, <1>5 DEF Yield, loop, reader
<1>6. CASE EndOfStream
  BY <1>3, <1>6 DEF EndOfStream, loop, reader
<1>7. CASE Finishes
  BY <1>3, <1>7 DEF Finishes, loop
<1>8. CASE FinishRaises
  BY <1>3, <1>8 DEF FinishRaises, loop, reader
<1>9. CASE Succeeds
  BY <1>3, <1>9 DEF Succeeds, reader
<1>10. CASE Leave
  BY <1>3, <1>10 DEF Leave, reader
<1>11. CASE Finally
  BY <1>3, <1>11 DEF Finally, Raise, reader
<1>12. CASE Answer
  BY <1>3, <1>12 DEF Answer, loop, reader
<1>13. CASE Closed
  BY <1>3, <1>13 DEF Closed, loop, reader
<1>14. ASSUME NEW status, Fails(status) PROVE AdapterInv'
  BY <1>3, <1>14 DEF Fails, reader
<1>15. ASSUME NEW cause, ErrorFrame(cause) PROVE AdapterInv'
  BY <1>14, <1>15 DEF ErrorFrame
<1>16. CASE UNCHANGED vars
  BY <1>3, <1>16 DEF vars, loop, reader
<1> QED BY <1>1, <1>2, <1>4, <1>5, <1>6, <1>7, <1>8, <1>9, <1>10, <1>11, <1>12, <1>13, <1>14,
           <1>15, <1>16 DEF Next

LEMMA AdapterHolds == Spec => []AdapterInv
<1>1. Init => AdapterInv
  BY AdapterInit
<1>2. AdapterInv /\ [Next]_vars => AdapterInv'
  BY AdapterStep
<1> QED BY <1>1, <1>2, PTL DEF Spec

(* Every annotation names the place of its own citation in the text, and no *)
(* two name the same place: the text is cleaned piece by piece, each link   *)
(* that takes the place of a tag is looked for behind the one before it,    *)
(* and what has been shifted by the length of the text stays where it is    *)
(* when more text comes.                                                    *)
THEOREM AnnotationsInPlace == Spec => []AnnotationsPointAtCitations
<1>1. ASSUME AdapterInv PROVE AnnotationsPointAtCitations
  <2> SUFFICES ASSUME cfg.api \in Grok, attempt > 0 PROVE
                 /\ \A i \in DOMAIN adapter.notes :
                      SubSeq(adapter.text, adapter.notes[i].start + 1, adapter.notes[i].end)
                        = <<adapter.notes[i].url>>
                 /\ \A i, j \in DOMAIN adapter.notes :
                      i < j => adapter.notes[i].end <= adapter.notes[j].start
    BY DEF AnnotationsPointAtCitations
  <2>1. IsAdapter(adapter)
    BY <1>1 DEF AdapterInv
  <2>2. PICK text, notes : text = adapter.text /\ notes = adapter.notes
    OBVIOUS
  <2>3. text \in Seq(Pieces) /\ notes \in Seq(Notes) /\ Points(notes, text)
    BY <2>1, <2>2 DEF IsAdapter
  <2>4. DOMAIN notes = 1..Len(notes) /\ Len(text) \in Nat
    BY <2>3
  <2>5. ASSUME NEW i \in 1..Len(notes)
        PROVE  SubSeq(text, notes[i].start + 1, notes[i].end) = <<notes[i].url>>
    <3>1. PICK n : n = notes[i].end
      OBVIOUS
    <3>2. n \in 1..Len(text) /\ notes[i].start + 1 = n /\ text[n] = notes[i].url
      BY <2>3, <2>4, <3>1 DEF Points
    <3>3. PICK one, url : url = text[n] /\ one = SubSeq(text, n, n)
      OBVIOUS
    <3>4. Len(one) = 1 /\ one[1] = url /\ one \in Seq(Pieces)
      BY <2>3, <2>4, <3>2, <3>3
    <3>5. one = <<url>>
      BY <3>4
    <3> QED BY <3>1, <3>2, <3>3, <3>5
  <2>6. \A i, j \in 1..Len(notes) : i < j => notes[i].end <= notes[j].start
    BY <2>3 DEF Points
  <2> QED BY <2>2, <2>4, <2>5, <2>6
<1> QED BY <1>1, AdapterHolds, PTL

(* The report of the thinking keeps its order, whatever is read, and in     *)
(* whatever language it waits: nothing under scope once there is evidence   *)
(* or a finding, nothing under evidence once there is a finding, each title *)
(* once and before its lines.                                               *)
THEOREM ReportInOrder == Spec => []SummaryInOrder
<1>1. ASSUME AdapterInv PROVE SummaryInOrder
  BY <1>1 DEF AdapterInv, SummaryInOrder, IsAdapter, Reported
<1> QED BY <1>1, AdapterHolds, PTL

-----------------------------------------------------------------------------
(* What goes to the client *)
Happenings == {"begin", "open", "write", "close", "finish", "error", "end", "result"}
Kinds == {"", "thinking", "reasoning", "text", "call", "annotation",
          "tool_calls", "stop", "tool_use", "end_turn", "completed"}
Chunks == [t : Happenings, kind : Kinds, i : Nat, s : Seq(Pieces)]

LEMMA ChunkIs ==
  ASSUME NEW t \in Happenings, NEW kind \in Kinds, NEW i \in Nat, NEW s \in Seq(Pieces),
         NEW e, e = E(t, kind, i, s)
  PROVE  e \in Chunks /\ e.t = t /\ e.kind = kind /\ e.i = i /\ e.s = s
<1>1. e = [t |-> t, kind |-> kind, i |-> i, s |-> s]
  BY DEF E
<1> QED BY <1>1 DEF Chunks

LEMMA NoText == <<>> \in Seq(Pieces)
OBVIOUS

LEMMA DeliveredNone == Delivered(<<>>) = <<>>
<1>1. PICK q : q = <<>>
  OBVIOUS
<1>2. q \in Seq(Chunks) /\ Len(q) = 0
  BY <1>1
<1>3. PICK r : Runs("deliver", 0, <<>>, q, r) /\ Delivered(q) = r[Len(q)]
  BY <1>2, DeliverRuns
<1> QED BY <1>1, <1>2, <1>3 DEF Runs

LEMMA DeliveredType ==
  ASSUME NEW q \in Seq(Chunks), NEW r, Runs("deliver", 0, <<>>, q, r)
  PROVE  \A i \in 0..Len(q) : r[i] \in Seq(Pieces)
<1> DEFINE S == {i \in Nat : r[i] \in Seq(Pieces)}
<1>1. 0 \in S
  <2>1. r[0] = <<>>
    BY DEF Runs
  <2> QED BY <2>1, NoText
<1>2. ASSUME NEW i \in 0..Len(q) - 1, i \in S PROVE i + 1 \in S
  <2>1. i + 1 \in 1..Len(q) /\ (i + 1) - 1 = i
    OBVIOUS
  <2>2. r[i + 1] = Deliver(r[i], q[i + 1])
    BY <2>1, StepIs DEF Runs
  <2>3. q[i + 1].s \in Seq(Pieces)
    <3>1. q[i + 1] \in Chunks
      BY <2>1
    <3> QED BY <3>1 DEF Chunks
  <2>4. r[i + 1] \in Seq(Pieces)
    BY <1>2, <2>2, <2>3 DEF Deliver
  <2> QED BY <2>1, <2>4
<1> HIDE DEF S
<1>3. \A i \in 0..Len(q) : i \in S
  <2>1. Len(q) \in Nat
    OBVIOUS
  <2> QED BY <1>1, <1>2, <2>1, UpTo
<1> QED BY <1>3 DEF S

LEMMA DeliveredConcat ==
  ASSUME NEW p \in Seq(Chunks), NEW q \in Seq(Chunks)
  PROVE  /\ Delivered(p) \in Seq(Pieces) /\ Delivered(q) \in Seq(Pieces)
         /\ Delivered(p \o q) = Delivered(p) \o Delivered(q)
<1>1. PICK r : Runs("deliver", 0, <<>>, p, r) /\ Delivered(p) = r[Len(p)]
  BY DeliverRuns
<1>2. PICK s : Runs("deliver", 0, <<>>, q, s) /\ Delivered(q) = s[Len(q)]
  BY DeliverRuns
<1>3. PICK pq : pq = p \o q
  OBVIOUS
<1>4. /\ pq \in Seq(Chunks) /\ Len(pq) = Len(p) + Len(q) /\ Len(p) \in Nat /\ Len(q) \in Nat
      /\ \A i \in 1..Len(p) : pq[i] = p[i]
      /\ \A i \in 1..Len(q) : pq[Len(p) + i] = q[i]
  BY <1>3, ConcatProperties
<1>5. PICK u : Runs("deliver", 0, <<>>, pq, u) /\ Delivered(pq) = u[Len(pq)]
  BY <1>4, DeliverRuns
<1>6. u[Len(p)] = r[Len(p)]
  <2>1. /\ Len(p) <= Len(pq) /\ Len(p) <= Len(p) /\ Len(p) \in Nat /\ pq \in Seq(Chunks)
        /\ \A i \in 1..Len(p) : pq[i] = p[i]
    BY <1>4
  <2>2. PICK none : none = <<>>
    OBVIOUS
  <2>3. Runs("deliver", 0, none, pq, u) /\ Runs("deliver", 0, none, p, r)
    BY <1>1, <1>5, <2>2
  <2>4. PICK n \in Nat : n = Len(p)
    BY <2>1
  <2>5. n <= Len(pq) /\ n <= Len(p) /\ \A i \in 1..n : pq[i] = p[i]
    BY <2>1, <2>4
  <2>6. u[n] = r[n]
    <3>1. Len(pq) \in Nat /\ Len(p) \in Nat
      BY <1>4
    <3> QED BY <2>3, <2>5, <3>1, OneRun
  <2> QED BY <2>4, <2>6
<1>7. PICK text : text = Delivered(p)
  OBVIOUS
<1>8. text \in Seq(Pieces) /\ Delivered(q) \in Seq(Pieces) /\ \A i \in 0..Len(q) : s[i] \in Seq(Pieces)
  BY <1>1, <1>2, <1>4, <1>7, DeliveredType
<1> DEFINE S == {i \in Nat : u[Len(p) + i] = text \o s[i]}
<1>9. 0 \in S
  <2>1. s[0] = <<>> /\ text \o <<>> = text /\ Len(p) + 0 = Len(p)
    BY <1>2, <1>4, <1>8 DEF Runs
  <2> QED BY <1>1, <1>6, <1>7, <2>1
<1>10. ASSUME NEW i \in 0..Len(q) - 1, i \in S PROVE i + 1 \in S
  <2>1. /\ i + 1 \in 1..Len(q) /\ (i + 1) - 1 = i /\ i + 1 \in Nat /\ i \in 0..Len(q)
        /\ Len(p) + (i + 1) \in 1..Len(pq) /\ (Len(p) + (i + 1)) - 1 = Len(p) + i
    BY <1>4
  <2>2. u[Len(p) + (i + 1)] = Deliver(u[Len(p) + i], pq[Len(p) + (i + 1)])
    BY <1>5, <2>1, StepIs DEF Runs
  <2>3. s[i + 1] = Deliver(s[i], q[i + 1])
    BY <1>2, <2>1, StepIs DEF Runs
  <2>4. PICK e, x, y : e = q[i + 1] /\ x = s[i] /\ y = e.s
    OBVIOUS
  <2>5. x \in Seq(Pieces) /\ y \in Seq(Pieces)
    <3>1. e \in Chunks
      BY <2>1, <2>4
    <3> QED BY <1>8, <2>1, <2>4, <3>1 DEF Chunks
  <2>6. (text \o x) \o y = text \o (x \o y)
    <3>1. text \in Seq(Pieces)
      BY <1>8
    <3> QED BY <2>5, <3>1, ConcatAssociative
  <2>7. Deliver(text \o x, e) = text \o Deliver(x, e)
    BY <2>4, <2>6 DEF Deliver
  <2>8. u[Len(p) + (i + 1)] = Deliver(text \o x, e)
    BY <1>4, <1>10, <2>1, <2>2, <2>4
  <2> QED BY <2>1, <2>3, <2>4, <2>7, <2>8
<1> HIDE DEF S
<1>11. Len(q) \in S
  <2>1. \A i \in 0..Len(q) : i \in S
    BY <1>4, <1>9, <1>10, UpTo
  <2> QED BY <1>4, <2>1
<1>12. u[Len(pq)] = text \o s[Len(q)]
  BY <1>4, <1>11 DEF S
<1> QED BY <1>2, <1>3, <1>5, <1>7, <1>8, <1>12

LEMMA DeliveredOne ==
  ASSUME NEW e \in Chunks
  PROVE  /\ <<e>> \in Seq(Chunks) /\ Len(<<e>>) = 1 /\ <<e>>[1] = e
         /\ Delivered(<<e>>) = IF e.t = "write" /\ e.kind = "text" THEN e.s ELSE <<>>
<1>1. PICK q : q = <<e>>
  OBVIOUS
<1>2. q \in Seq(Chunks) /\ Len(q) = 1 /\ q[1] = e
  BY <1>1
<1>3. PICK r : Runs("deliver", 0, <<>>, q, r) /\ Delivered(q) = r[Len(q)]
  BY <1>2, DeliverRuns
<1>4. PICK none : none = <<>>
  OBVIOUS
<1>5. r[1] = Deliver(none, e)
  <2>1. 1 \in 1..Len(q) /\ 1 - 1 = 0
    BY <1>2
  <2> QED BY <1>2, <1>3, <1>4, <2>1, StepIs DEF Runs
<1>6. none \o e.s = e.s
  <2>1. e.s \in Seq(Pieces)
    BY DEF Chunks
  <2> QED BY <1>4, <2>1
<1> QED BY <1>1, <1>2, <1>3, <1>4, <1>5, <1>6 DEF Deliver

LEMMA DeliveredSilent ==
  ASSUME NEW q \in Seq(Chunks), \A i \in 1..Len(q) : ~(q[i].t = "write" /\ q[i].kind = "text")
  PROVE  Delivered(q) = <<>>
<1>1. PICK r : Runs("deliver", 0, <<>>, q, r) /\ Delivered(q) = r[Len(q)]
  BY DeliverRuns
<1> DEFINE S == {i \in Nat : r[i] = <<>>}
<1>2. 0 \in S
  BY <1>1 DEF Runs
<1>3. ASSUME NEW i \in 0..Len(q) - 1, i \in S PROVE i + 1 \in S
  <2>1. i + 1 \in 1..Len(q) /\ (i + 1) - 1 = i /\ i + 1 \in Nat
    OBVIOUS
  <2>2. r[i + 1] = Deliver(r[i], q[i + 1])
    BY <1>1, <2>1, StepIs DEF Runs
  <2> QED BY <1>3, <2>1, <2>2 DEF Deliver
<1> HIDE DEF S
<1>4. Len(q) \in S
  <2>1. Len(q) \in Nat
    OBVIOUS
  <2>2. \A i \in 0..Len(q) : i \in S
    BY <1>2, <1>3, <2>1, UpTo
  <2> QED BY <2>1, <2>2
<1> QED BY <1>1, <1>4 DEF S

-----------------------------------------------------------------------------
(* The formats *)
Locals == [thinking : BOOLEAN, closed : BOOLEAN, text : BOOLEAN, index : Nat, notes : Nat]

(* What an operation sends, and which text that is. *)
Sending(r, s) == r.h \in Locals /\ r.out \in Seq(Chunks) /\ Delivered(r.out) = s

LEMMA SendsIs ==
  ASSUME NEW l \in Locals, NEW all \in Seq(Chunks), NEW s, Delivered(all) = s
  PROVE  Sending(Sends(l, all), s) /\ Sends(l, all).h = l /\ Sends(l, all).out = all
<1>1. Sends(l, all).h = l /\ Sends(l, all).out = all
  BY DEF Sends
<1> QED BY <1>1 DEF Sending

LEMMA SendsNothing ==
  ASSUME NEW l \in Locals
  PROVE  Sending(Sends(l, <<>>), <<>>)
<1>1. PICK none : none = <<>>
  OBVIOUS
<1>2. none \in Seq(Chunks)
  BY <1>1
<1>3. Delivered(none) = <<>>
  BY <1>1, DeliveredNone
<1> QED BY <1>1, <1>2, <1>3, SendsIs

LEMMA SendsOne ==
  ASSUME NEW l \in Locals, NEW e \in Chunks
  PROVE  Sending(Sends(l, <<e>>), IF e.t = "write" /\ e.kind = "text" THEN e.s ELSE <<>>)
<1>1. PICK all : all = <<e>>
  OBVIOUS
<1>2. /\ all \in Seq(Chunks)
      /\ Delivered(all) = IF e.t = "write" /\ e.kind = "text" THEN e.s ELSE <<>>
  BY <1>1, DeliveredOne
<1> QED BY <1>1, <1>2, SendsIs

(* A part is opened, if it is not open, before it is written. *)
LEMMA SendsOpened ==
  ASSUME NEW l \in Locals, NEW open \in BOOLEAN, NEW d \in Chunks, NEW e \in Chunks, d.t = "open"
  PROVE  Sending(Sends(l, (IF open THEN <<>> ELSE <<d>>) \o <<e>>),
                 IF e.t = "write" /\ e.kind = "text" THEN e.s ELSE <<>>)
<1>1. PICK first, second : first = (IF open THEN <<>> ELSE <<d>>) /\ second = <<e>>
  OBVIOUS
<1>2. /\ second \in Seq(Chunks)
      /\ Delivered(second) = IF e.t = "write" /\ e.kind = "text" THEN e.s ELSE <<>>
  BY <1>1, DeliveredOne
<1>3. first \in Seq(Chunks) /\ Delivered(first) = <<>>
  <2>1. CASE open
    <3>1. first = <<>>
      BY <1>1, <2>1
    <3>2. first \in Seq(Chunks)
      BY <3>1
    <3> QED BY <3>1, <3>2, DeliveredNone
  <2>2. CASE ~open
    BY <1>1, <2>2, DeliveredOne
  <2> QED BY <2>1, <2>2
<1>4. PICK all : all = first \o second
  OBVIOUS
<1>5. all \in Seq(Chunks)
  BY <1>2, <1>3, <1>4
<1>6. Delivered(all) = Delivered(first) \o Delivered(second) /\ Delivered(second) \in Seq(Pieces)
  BY <1>2, <1>3, <1>4, DeliveredConcat
<1>7. PICK none, text : none = <<>> /\ text = Delivered(second)
  OBVIOUS
<1>8. none \o text = text
  <2>1. text \in Seq(Pieces)
    BY <1>6, <1>7
  <2> QED BY <1>7, <2>1
<1>9. Delivered(all) = Delivered(second)
  BY <1>3, <1>6, <1>7, <1>8
<1>10. PICK said : said = IF e.t = "write" /\ e.kind = "text" THEN e.s ELSE <<>>
  OBVIOUS
<1>11. Delivered(all) = said
  BY <1>2, <1>9, <1>10
<1>12. Sending(Sends(l, all), said)
  BY <1>5, <1>11, SendsIs
<1> QED BY <1>1, <1>4, <1>10, <1>12

LEMMA OpenIs ==
  ASSUME NEW kind \in {"thinking", "reasoning", "text", "call"}, NEW i \in Nat
  PROVE  /\ Open(kind, i) \in Chunks /\ Open(kind, i).t = "open" /\ Open(kind, i).kind = kind
         /\ Open(kind, i).i = i
<1>1. PICK none, t : none = <<>> /\ t = "open"
  OBVIOUS
<1>2. PICK e : e = E(t, kind, i, none)
  OBVIOUS
<1>3. none \in Seq(Pieces)
  BY <1>1, NoText
<1>4. t \in Happenings /\ kind \in Kinds
  BY <1>1 DEF Happenings, Kinds
<1>5. e \in Chunks /\ e.t = t /\ e.kind = kind /\ e.i = i
  BY <1>2, <1>3, <1>4, ChunkIs
<1> QED BY <1>1, <1>2, <1>5 DEF Open

LEMMA CloseIs ==
  ASSUME NEW kind \in {"thinking", "reasoning", "text", "call"}, NEW i \in Nat
  PROVE  /\ Close(kind, i) \in Chunks /\ Close(kind, i).t = "close" /\ Close(kind, i).kind = kind
         /\ Close(kind, i).i = i
<1>1. PICK none, t : none = <<>> /\ t = "close"
  OBVIOUS
<1>2. PICK e : e = E(t, kind, i, none)
  OBVIOUS
<1>3. none \in Seq(Pieces)
  BY <1>1, NoText
<1>4. t \in Happenings /\ kind \in Kinds
  BY <1>1 DEF Happenings, Kinds
<1>5. e \in Chunks /\ e.t = t /\ e.kind = kind /\ e.i = i
  BY <1>2, <1>3, <1>4, ChunkIs
<1> QED BY <1>1, <1>2, <1>5 DEF Close

LEMMA WriteIs ==
  ASSUME NEW kind \in {"thinking", "reasoning", "text", "call", "annotation"}, NEW i \in Nat,
         NEW s \in Seq(Pieces)
  PROVE  /\ Write(kind, i, s) \in Chunks /\ Write(kind, i, s).t = "write"
         /\ Write(kind, i, s).kind = kind /\ Write(kind, i, s).i = i /\ Write(kind, i, s).s = s
<1>1. PICK e, t : t = "write" /\ e = E(t, kind, i, s)
  OBVIOUS
<1>2. t \in Happenings /\ kind \in Kinds
  BY <1>1 DEF Happenings, Kinds
<1>3. e \in Chunks /\ e.t = t /\ e.kind = kind /\ e.i = i /\ e.s = s
  BY <1>1, <1>2, ChunkIs
<1> QED BY <1>1, <1>3 DEF Write

LEMMA FinishIs ==
  ASSUME NEW reason \in {"tool_calls", "stop", "tool_use", "end_turn", "completed"}
  PROVE  Finish(reason) \in Chunks /\ Finish(reason).t = "finish"
<1>1. PICK none, t, i : none = <<>> /\ t = "finish" /\ i = 0
  OBVIOUS
<1>2. PICK e : e = E(t, reason, i, none)
  OBVIOUS
<1>3. none \in Seq(Pieces)
  BY <1>1, NoText
<1>4. t \in Happenings /\ reason \in Kinds /\ i \in Nat
  BY <1>1 DEF Happenings, Kinds
<1>5. e \in Chunks /\ e.t = t
  BY <1>2, <1>3, <1>4, ChunkIs
<1> QED BY <1>1, <1>2, <1>5 DEF Finish

LEMMA OtherChunks ==
  /\ Begin \in Chunks /\ Begin.t = "begin"
  /\ End \in Chunks /\ End.t = "end"
  /\ Error \in Chunks /\ Error.t = "error"
<1>1. ASSUME NEW t \in {"begin", "end", "error"}
      PROVE  E(t, "", 0, <<>>) \in Chunks /\ E(t, "", 0, <<>>).t = t
  <2>1. PICK none, kind, i : none = <<>> /\ kind = "" /\ i = 0
    OBVIOUS
  <2>2. PICK e : e = E(t, kind, i, none)
    OBVIOUS
  <2>3. none \in Seq(Pieces)
    BY <2>1, NoText
  <2>4. t \in Happenings /\ kind \in Kinds /\ i \in Nat
    BY <2>1 DEF Happenings, Kinds
  <2>5. e \in Chunks /\ e.t = t
    BY <2>2, <2>3, <2>4, ChunkIs
  <2> QED BY <2>1, <2>2, <2>5
<1> QED BY <1>1 DEF Begin, End, Error

LEMMA WritesText ==
  ASSUME NEW l \in Locals, NEW i \in Nat, NEW s \in Seq(Pieces)
  PROVE  Sending(Sends(l, <<Write("text", i, s)>>), s)
<1>1. PICK e : e = Write("text", i, s)
  OBVIOUS
<1>2. e \in Chunks /\ e.t = "write" /\ e.kind = "text" /\ e.s = s
  BY <1>1, WriteIs
<1>3. Sending(Sends(l, <<e>>), IF e.t = "write" /\ e.kind = "text" THEN e.s ELSE <<>>)
  BY <1>2, SendsOne
<1> QED BY <1>1, <1>2, <1>3

LEMMA WritesOpenedText ==
  ASSUME NEW l \in Locals, NEW open \in BOOLEAN, NEW i \in Nat, NEW s \in Seq(Pieces)
  PROVE  Sending(Sends(l, (IF open THEN <<>> ELSE <<Open("text", i)>>) \o <<Write("text", i, s)>>), s)
<1>1. PICK d, e : d = Open("text", i) /\ e = Write("text", i, s)
  OBVIOUS
<1>2. d \in Chunks /\ d.t = "open" /\ e \in Chunks /\ e.t = "write" /\ e.kind = "text" /\ e.s = s
  BY <1>1, WriteIs, OpenIs
<1>3. Sending(Sends(l, (IF open THEN <<>> ELSE <<d>>) \o <<e>>),
              IF e.t = "write" /\ e.kind = "text" THEN e.s ELSE <<>>)
  BY <1>2, SendsOpened
<1> QED BY <1>1, <1>2, <1>3

(* The text that an API is given is the text it sends. *)
LEMMA TextSends ==
  ASSUME NEW api \in Grok \cup Console \cup Build, NEW l \in Locals, NEW s \in Seq(Pieces)
  PROVE  Sending(Text(api, l, s), s)
<1>1. CASE api = "chat"
  <2>1. Text(api, l, s) = Sends(l, IF s = <<>> THEN <<>> ELSE <<Write("text", 0, s)>>)
    BY <1>1 DEF Text, ChatText
  <2>2. CASE s = <<>>
    BY <2>1, <2>2, SendsNothing
  <2>3. CASE s # <<>>
    <3>1. 0 \in Nat
      OBVIOUS
    <3> QED BY <2>1, <2>3, <3>1, WritesText
  <2> QED BY <2>2, <2>3
<1>2. CASE api \in {"messages", "responses"}
  <2>1. CASE s = <<>>
    <3>1. Text(api, l, s) = Sends(l, <<>>)
      BY <1>2, <2>1 DEF Text, MessagesText, ResponsesText
    <3> QED BY <2>1, <3>1, SendsNothing
  <2>2. CASE s # <<>>
    <3>1. PICK i, open, k : /\ i = (IF api = "messages" THEN l.index ELSE NextItem(l))
                            /\ open = l.text /\ k = [l EXCEPT !.text = TRUE]
      OBVIOUS
    <3>2. i \in Nat /\ open \in BOOLEAN /\ k \in Locals
      BY <3>1 DEF Locals, NextItem
    <3>3. Text(api, l, s) = Sends(k, (IF open THEN <<>> ELSE <<Open("text", i)>>) \o <<Write("text", i, s)>>)
      BY <1>2, <2>2, <3>1 DEF Text, MessagesText, ResponsesText
    <3> QED BY <3>2, <3>3, WritesOpenedText
  <2> QED BY <2>1, <2>2
<1>3. CASE api \in Console \cup Build
  <2>1. Text(api, l, s) = Sends(l, <<Write("text", 0, s)>>) /\ 0 \in Nat
    BY <1>3 DEF Text, Console, Build, ConsoleChatText, ConsoleMessagesText, ConsoleResponsesText,
                BuildChatText, BuildMessagesText
  <2> QED BY <2>1, WritesText
<1> QED BY <1>1, <1>2, <1>3 DEF Grok

LEMMA CloseThinkingSends ==
  ASSUME NEW api \in Grok \cup Console \cup Build, NEW l \in Locals
  PROVE  Sending(CloseThinking(api, l), <<>>)
<1>1. CASE CloseThinking(api, l) = Sends(l, <<>>)
  BY <1>1, SendsNothing
<1>2. CASE api \in {"messages", "responses"} /\ l.thinking /\ ~l.closed
  <2>1. PICK e, k : /\ e = IF api = "messages" THEN Close("thinking", l.index) ELSE Close("reasoning", 0)
                    /\ k = IF api = "messages" THEN [l EXCEPT !.closed = TRUE, !.index = @ + 1]
                           ELSE [l EXCEPT !.closed = TRUE]
    OBVIOUS
  <2>2. k \in Locals
    <3>1. [l EXCEPT !.closed = TRUE, !.index = @ + 1] \in Locals
      <4>1. PICK g, n : g = [l EXCEPT !.closed = TRUE] /\ n = l.index + 1
        OBVIOUS
      <4>2. g \in Locals /\ n \in Nat
        <5>1. l.index \in Nat
          BY DEF Locals
        <5>2. n \in Nat
          BY <4>1, <5>1
        <5>3. g \in Locals
          BY <4>1 DEF Locals
        <5> QED BY <5>2, <5>3
      <4>3. [g EXCEPT !.index = n] \in Locals
        BY <4>2 DEF Locals
      <4>4. [l EXCEPT !.closed = TRUE, !.index = @ + 1] = [[l EXCEPT !.closed = TRUE] EXCEPT !.index = l.index + 1]
        OBVIOUS
      <4> QED BY <4>1, <4>3, <4>4
    <3>2. [l EXCEPT !.closed = TRUE] \in Locals
      BY DEF Locals
    <3> QED BY <2>1, <3>1, <3>2
  <2>3. e \in Chunks /\ e.t = "close"
    <3>1. l.index \in Nat /\ 0 \in Nat
      BY DEF Locals
    <3> QED BY <2>1, <3>1, CloseIs
  <2>4. CloseThinking(api, l) = Sends(k, <<e>>)
    BY <1>2, <2>1 DEF CloseThinking, MessagesCloseThinking, ResponsesCloseThinking
  <2>5. Sending(Sends(k, <<e>>), IF e.t = "write" /\ e.kind = "text" THEN e.s ELSE <<>>)
    BY <2>2, <2>3, SendsOne
  <2> QED BY <2>3, <2>4, <2>5
<1>3. CASE ~(api \in {"messages", "responses"} /\ l.thinking /\ ~l.closed)
  <2>1. CloseThinking(api, l) = Sends(l, <<>>)
    BY <1>3 DEF CloseThinking, MessagesCloseThinking, ResponsesCloseThinking, Grok, Console, Build
  <2> QED BY <1>1, <2>1
<1> QED BY <1>2, <1>3

LEMMA ThinkingSends ==
  ASSUME NEW api \in Grok, NEW l \in Locals
  PROVE  Sending(Thinking(api, l), <<>>)
<1>1. CASE api = "chat"
  <2>1. PICK i, none : i = 0 /\ none = <<>>
    OBVIOUS
  <2>2. i \in Nat /\ none \in Seq(Pieces)
    BY <2>1, NoText
  <2>6. PICK e : e = Write("thinking", i, none)
    OBVIOUS
  <2>3. e \in Chunks /\ e.kind = "thinking"
    BY <2>6, <2>2, WriteIs
  <2>4. Thinking(api, l) = Sends(l, <<e>>)
    BY <1>1, <2>1, <2>6 DEF Thinking, ChatThinking
  <2>5. Sending(Sends(l, <<e>>), IF e.t = "write" /\ e.kind = "text" THEN e.s ELSE <<>>)
    BY <2>3, SendsOne
  <2> QED BY <2>3, <2>4, <2>5
<1>2. CASE api \in {"messages", "responses"} /\ l.closed
  <2>1. Thinking(api, l) = Sends(l, <<>>)
    BY <1>2 DEF Thinking, MessagesThinking, ResponsesThinking
  <2> QED BY <2>1, SendsNothing
<1>3. CASE api \in {"messages", "responses"} /\ ~l.closed
  <2>1. PICK kind, i, none, k, open :
          /\ kind = (IF api = "messages" THEN "thinking" ELSE "reasoning")
          /\ i = (IF api = "messages" THEN l.index ELSE 0)
          /\ none = <<>> /\ k = [l EXCEPT !.thinking = TRUE] /\ open = l.thinking
    OBVIOUS
  <2>2. i \in Nat /\ k \in Locals /\ open \in BOOLEAN
    BY <2>1 DEF Locals
  <2>3. none \in Seq(Pieces)
    BY <2>1, NoText
  <2>4. kind \in {"thinking", "reasoning"}
    BY <2>1
  <2>5. PICK d, e : d = Open(kind, i) /\ e = Write(kind, i, none)
    OBVIOUS
  <2>6. d \in Chunks /\ d.t = "open" /\ e \in Chunks /\ e.kind = kind
    BY <2>2, <2>3, <2>4, <2>5, OpenIs, WriteIs
  <2>7. Thinking(api, l) = Sends(k, (IF open THEN <<>> ELSE <<d>>) \o <<e>>)
    BY <1>3, <2>1, <2>5 DEF Thinking, MessagesThinking, ResponsesThinking
  <2>8. Sending(Sends(k, (IF open THEN <<>> ELSE <<d>>) \o <<e>>),
                IF e.t = "write" /\ e.kind = "text" THEN e.s ELSE <<>>)
    BY <2>2, <2>6, SendsOpened
  <2> QED BY <2>4, <2>6, <2>7, <2>8
<1> QED BY <1>1, <1>2, <1>3 DEF Grok

LEMMA NoteSends ==
  ASSUME NEW api \in Grok, NEW l \in Locals
  PROVE  Sending(Note(api, l), <<>>)
<1>1. PICK k : k = [l EXCEPT !.notes = @ + 1]
  OBVIOUS
<1>2. k \in Locals
  BY <1>1 DEF Locals
<1>3. CASE api # "responses"
  <2>1. Note(api, l) = Sends(k, <<>>)
    BY <1>1, <1>3 DEF Note, ChatNote
  <2> QED BY <1>2, <2>1, SendsNothing
<1>4. CASE api = "responses" /\ ~l.text
  <2>1. Note(api, l) = Sends(l, <<>>)
    BY <1>4 DEF Note, ResponsesNote
  <2> QED BY <2>1, SendsNothing
<1>5. CASE api = "responses" /\ l.text
  <2>1. PICK none, i : none = <<>> /\ i = NextItem(l)
    OBVIOUS
  <2>7. PICK e : e = Write("annotation", i, none)
    OBVIOUS
  <2>2. i \in Nat
    BY <2>1 DEF NextItem
  <2>3. none \in Seq(Pieces)
    BY <2>1, NoText
  <2>4. e \in Chunks /\ e.kind = "annotation"
    BY <2>7, <2>2, <2>3, WriteIs
  <2>5. Note(api, l) = Sends(k, <<e>>)
    BY <1>1, <1>5, <2>1, <2>7 DEF Note, ResponsesNote
  <2>6. Sending(Sends(k, <<e>>), IF e.t = "write" /\ e.kind = "text" THEN e.s ELSE <<>>)
    BY <1>2, <2>4, SendsOne
  <2> QED BY <2>4, <2>5, <2>6
<1> QED BY <1>3, <1>4, <1>5

LEMMA OpeningSends ==
  ASSUME NEW api \in Grok \cup Console \cup Build
  PROVE  Opening(api) \in Seq(Chunks) /\ Delivered(Opening(api)) = <<>>
<1>1. PICK b, o, i : b = Begin /\ i = 0 /\ o = Open("text", i)
  OBVIOUS
<1>2. b \in Chunks /\ b.t = "begin"
  BY <1>1, OtherChunks
<1>3. o \in Chunks /\ o.t = "open"
  BY <1>1, OpenIs
<1>4. Opening(api) = <<b>> \/ Opening(api) = <<b, o>>
  BY <1>1 DEF Opening, Grok, Console, Build, ChatBegin, MessagesBegin, ResponsesBegin, ConsoleChatBegin,
              ConsoleMessagesBegin, ConsoleResponsesBegin, BuildChatBegin, BuildMessagesBegin
<1>5. PICK q : q = Opening(api)
  OBVIOUS
<1>6. q \in Seq(Chunks) /\ \A i_1 \in 1..Len(q) : q[i_1] \in {b, o}
  <2>1. CASE q = <<b>>
    BY <1>2, <2>1
  <2>2. CASE q = <<b, o>>
    BY <1>2, <1>3, <2>2
  <2> QED BY <1>4, <1>5, <2>1, <2>2
<1>7. \A j \in 1..Len(q) : ~(q[j].t = "write" /\ q[j].kind = "text")
  BY <1>2, <1>3, <1>6
<1> QED BY <1>5, <1>6, <1>7, DeliveredSilent

LEMMA BlocksAre ==
  ASSUME NEW from \in Nat, NEW n \in Nat
  PROVE  MessagesBlocks(from, n) \in Seq(Chunks)
<1>1. PICK none : none = <<>>
  OBVIOUS
<1>2. none \in Seq(Pieces)
  BY <1>1, NoText
<1> DEFINE Block(j) == LET i == from + (j - 1) \div 3
                       IN  CASE j % 3 = 1 -> Open("call", i) [] j % 3 = 2 -> Write("call", i, none)
                             [] j % 3 = 0 -> Close("call", i)
<1>3. MessagesBlocks(from, n) = [j \in 1..3 * n |-> Block(j)]
  BY <1>1 DEF MessagesBlocks
<1>4. ASSUME NEW j \in 1..3 * n PROVE Block(j) \in Chunks
  <2>1. PICK i : i = from + (j - 1) \div 3
    OBVIOUS
  <2>2. i \in Nat /\ j % 3 \in 0..2
    BY <2>1
  <2>3. Open("call", i) \in Chunks /\ Write("call", i, none) \in Chunks /\ Close("call", i) \in Chunks
    BY <1>2, <2>2, OpenIs, WriteIs, CloseIs
  <2>4. j % 3 = 0 \/ j % 3 = 1 \/ j % 3 = 2
    BY <2>2
  <2> QED BY <2>1, <2>3, <2>4
<1>5. 3 * n \in Nat
  OBVIOUS
<1> HIDE DEF Block
<1> QED BY <1>3, <1>4, <1>5

LEMMA EmptyOr ==
  ASSUME NEW p, NEW q \in Seq(Chunks)
  PROVE  (IF p THEN <<>> ELSE q) \in Seq(Chunks) /\ (IF p THEN q ELSE <<>>) \in Seq(Chunks)
<1>1. PICK none : none = <<>>
  OBVIOUS
<1>2. none \in Seq(Chunks)
  BY <1>1
<1> QED BY <1>1, <1>2

LEMMA FinishedConcat ==
  ASSUME NEW p \in Seq(Chunks), NEW q \in Seq(Chunks), Finished(q)
  PROVE  Finished(p \o q)
<1>1. PICK r : r = p \o q
  OBVIOUS
<1>2. /\ r \in Seq(Chunks) /\ Len(r) = Len(p) + Len(q) /\ Len(p) \in Nat /\ Len(q) \in Nat
      /\ \A i \in 1..Len(q) : r[Len(p) + i] = q[i]
  BY <1>1, ConcatProperties
<1>3. PICK j \in 1..Len(q) : q[j].t = "finish" /\ q[Len(q)] = End
  <2>1. DOMAIN q = 1..Len(q)
    OBVIOUS
  <2> QED BY <2>1 DEF Finished, Last
<1>4. Len(p) + j \in DOMAIN r /\ r[Len(p) + j] = q[j]
  BY <1>2, <1>3
<1>5. r[Len(r)] = End
  <2>1. Len(q) \in 1..Len(q)
    BY <1>2, <1>3
  <2> QED BY <1>2, <1>3, <2>1
<1>6. Finished(r)
  BY <1>3, <1>4, <1>5 DEF Finished, Last
<1> QED BY <1>1, <1>6

LEMMA FinishedEnd ==
  ASSUME NEW f \in Chunks, f.t = "finish"
  PROVE  <<f, End>> \in Seq(Chunks) /\ Finished(<<f, End>>)
<1>1. PICK e, q : e = End /\ q = <<f, e>>
  OBVIOUS
<1>2. e \in Chunks
  BY <1>1, OtherChunks
<1>3. q \in Seq(Chunks) /\ Len(q) = 2 /\ q[1] = f /\ q[2] = e /\ 1 \in DOMAIN q
  BY <1>1, <1>2
<1>4. Finished(q)
  BY <1>1, <1>3 DEF Finished, Last
<1> QED BY <1>1, <1>3, <1>4

LEMMA FinishedBy ==
  ASSUME NEW p \in Seq(Chunks), NEW reason \in {"tool_calls", "stop", "tool_use", "end_turn", "completed"}
  PROVE  /\ p \o <<Finish(reason), End>> \in Seq(Chunks) /\ Finished(p \o <<Finish(reason), End>>)
         /\ <<Finish(reason), End>> \in Seq(Chunks) /\ Finished(<<Finish(reason), End>>)
<1>1. PICK f, q : f = Finish(reason) /\ q = <<f, End>>
  OBVIOUS
<1>2. f \in Chunks /\ f.t = "finish"
  BY <1>1, FinishIs
<1>3. q \in Seq(Chunks) /\ Finished(q)
  BY <1>1, <1>2, FinishedEnd
<1>4. p \o q \in Seq(Chunks) /\ Finished(p \o q)
  BY <1>3, FinishedConcat
<1> QED BY <1>1, <1>3, <1>4

-----------------------------------------------------------------------------
(* The loop over the accounts: who is held, what has been reported, and     *)
(* when an attempt counts as a success.                                     *)
Outcomes == {"success", "rate_limited", "unauthorized", "server_error"}

Accounted ==
  cfg.api \notin Build =>
    /\ Len(reports) = attempt - (IF held THEN 1 ELSE 0)
    /\ \A i \in 1..Len(reports) :
         i < Len(reports) \/ held \/ ~success => reports[i] # "success"
    /\ ~held /\ success => reports # <<>> /\ reports[Len(reports)] = "success"

Steps ==
  /\ cfg \in Configs /\ attempt \in Nat
  /\ held \in BOOLEAN /\ success \in BOOLEAN /\ gone \in BOOLEAN
  /\ pc \in {"reserve", "read", "flush", "sent", "finally", "result", "closing", "done"}
  /\ held <=> pc \in {"read", "flush", "sent", "finally"}
  /\ held => attempt > 0
  /\ pc \in {"reserve", "finally", "result", "done"} => queue = <<>>
  /\ success => pc \in {"finally", "result", "closing", "done"}
  /\ cfg.stream => pc # "result" /\ (success => pc # "closing")

LoopInv == Steps /\ reports \in Seq(Outcomes) /\ Accounted

LEMMA LoopInit == Init => LoopInv
<1> SUFFICES ASSUME Init PROVE LoopInv
  OBVIOUS
<1>1. /\ cfg \in Configs /\ pc = "reserve" /\ attempt = 0 /\ held = FALSE /\ success = FALSE
      /\ gone = FALSE /\ queue = <<>> /\ reports = <<>>
  BY DEF Init
<1>2. reports \in Seq(Outcomes) /\ Len(reports) = 0
  BY <1>1
<1>3. Steps
  BY <1>1 DEF Steps
<1>4. Len(reports) = attempt - (IF held THEN 1 ELSE 0) /\ ~success /\ \A i \in 1..Len(reports) : FALSE
  <2>1. ~held /\ ~success
    BY <1>1
  <2>2. (IF held THEN 1 ELSE 0) = 0
    BY <2>1
  <2>3. Len(reports) = attempt - (IF held THEN 1 ELSE 0)
    <3>1. Len(reports) = 0 /\ attempt = 0 /\ 0 = 0 - 0
      BY <1>1, <1>2
    <3> QED BY <2>2, <3>1
  <2>4. \A i \in 1..Len(reports) : FALSE
    BY <1>2
  <2> QED BY <2>1, <2>3, <2>4
<1>5. Accounted
  BY <1>4 DEF Accounted
<1> QED BY <1>2, <1>3, <1>5 DEF LoopInv

LEMMA StepsKept == LoopInv /\ [Next]_vars => Steps'
<1> SUFFICES ASSUME LoopInv, [Next]_vars PROVE Steps'
  OBVIOUS
<1>0. Steps
  BY DEF LoopInv
<1>1. CASE Reserve
  <2>1. /\ pc = "reserve" /\ pc' = "read" /\ attempt' = attempt + 1 /\ held' = TRUE
        /\ success' = FALSE /\ cfg' = cfg /\ gone' = gone
    BY <1>1 DEF Reserve
  <2>2. attempt' \in Nat /\ attempt' > 0
    BY <1>0, <2>1 DEF Steps
  <2>3. held' /\ ~success' /\ held' \in BOOLEAN /\ success' \in BOOLEAN
    BY <2>1
  <2> QED BY <1>0, <2>1, <2>2, <2>3 DEF Steps
<1>2. ASSUME NEW f \in Frames(cfg), Read(f) PROVE Steps'
  <2>1. /\ pc = "read" /\ pc' \in {"read", "flush"} /\ cfg' = cfg
        /\ UNCHANGED <<attempt, held, success, gone>>
    BY <1>2 DEF Read, loop
  <2> QED BY <1>0, <2>1 DEF Steps
<1>4. CASE NoAccount
  <2>1. pc = "reserve" /\ pc' = "closing" /\ cfg' = cfg /\ UNCHANGED <<attempt, held, success, gone>>
    BY <1>4 DEF NoAccount, Raise, loop
  <2> QED BY <1>0, <2>1 DEF Steps
<1>5. CASE Yield
  <2>1. queue # <<>> /\ cfg' = cfg /\ pc' = pc /\ UNCHANGED <<attempt, held, success, gone>>
    BY <1>5 DEF Yield, loop
  <2> QED BY <1>0, <2>1 DEF Steps
<1>6. CASE EndOfStream
  <2>1. pc = "read" /\ pc' = "flush" /\ cfg' = cfg /\ UNCHANGED <<attempt, held, success, gone>>
    BY <1>6 DEF EndOfStream, loop
  <2> QED BY <1>0, <2>1 DEF Steps
<1>7. CASE Finishes
  <2>1. pc = "flush" /\ pc' = "sent" /\ cfg' = cfg /\ UNCHANGED <<attempt, held, success, gone>>
    BY <1>7 DEF Finishes, loop
  <2> QED BY <1>0, <2>1 DEF Steps
<1>8. CASE FinishRaises
  <2>1. /\ pc = "flush" /\ pc' = "finally" /\ queue = <<>> /\ queue' = queue /\ cfg' = cfg
        /\ UNCHANGED <<attempt, held, success, gone>>
    BY <1>8 DEF FinishRaises, loop, client
  <2> QED BY <1>0, <2>1 DEF Steps
<1>9. CASE Succeeds
  <2>1. /\ pc = "sent" /\ pc' = "finally" /\ queue = <<>> /\ queue' = queue /\ cfg' = cfg
        /\ success' = TRUE /\ UNCHANGED <<attempt, held, gone>>
    BY <1>9 DEF Succeeds, client
  <2> QED BY <1>0, <2>1 DEF Steps
<1>10. CASE Leave
  <2>1. /\ cfg.stream /\ pc \notin {"finally", "done"} /\ gone' = TRUE /\ queue' = <<>>
        /\ pc' = (IF held THEN "finally" ELSE "done") /\ cfg' = cfg
        /\ UNCHANGED <<attempt, held, success>>
    BY <1>10 DEF Leave
  <2> QED BY <1>0, <2>1 DEF Steps
<1>11. CASE Finally
  <2>1. /\ pc = "finally" /\ held' = FALSE /\ cfg' = cfg /\ UNCHANGED <<attempt, success, gone>>
        /\ \/ /\ gone \/ success
              /\ pc' = (IF gone \/ cfg.stream THEN "done" ELSE "result") /\ queue' = queue
           \/ ~success /\ pc' = "reserve" /\ queue' = queue
           \/ ~success /\ pc' = "closing"
    BY <1>11 DEF Finally, Raise
  <2>2. queue = <<>>
    BY <1>0, <2>1 DEF Steps
  <2>3. CASE (gone \/ success) /\ pc' = (IF gone \/ cfg.stream THEN "done" ELSE "result") /\ queue' = queue
    BY <1>0, <2>1, <2>2, <2>3 DEF Steps
  <2>4. CASE ~success /\ pc' = "reserve" /\ queue' = queue
    BY <1>0, <2>1, <2>2, <2>4 DEF Steps
  <2>5. CASE ~success /\ pc' = "closing"
    BY <1>0, <2>1, <2>2, <2>5 DEF Steps
  <2> QED BY <2>1, <2>3, <2>4, <2>5
<1>12. CASE Answer
  <2>1. pc = "result" /\ pc' = "closing" /\ cfg' = cfg /\ UNCHANGED <<attempt, held, success, gone>>
    BY <1>12 DEF Answer, loop
  <2> QED BY <1>0, <2>1 DEF Steps
<1>13. CASE Closed
  <2>1. /\ pc = "closing" /\ pc' = "done" /\ queue = <<>> /\ queue' = queue /\ cfg' = cfg
        /\ UNCHANGED <<attempt, held, success, gone>>
    BY <1>13 DEF Closed, loop, client
  <2> QED BY <1>0, <2>1 DEF Steps
<1>14. ASSUME NEW status, Fails(status) PROVE Steps'
  <2>1. /\ pc = "read" /\ pc' = "finally" /\ queue = <<>> /\ queue' = queue /\ cfg' = cfg
        /\ UNCHANGED <<attempt, held, success, gone>>
    BY <1>14 DEF Fails, client
  <2> QED BY <1>0, <2>1 DEF Steps
<1>15. ASSUME NEW cause, ErrorFrame(cause) PROVE Steps'
  BY <1>14, <1>15 DEF ErrorFrame
<1>16. CASE UNCHANGED vars
  BY <1>0, <1>16 DEF vars, loop, client, Steps
<1> QED BY <1>1, <1>2, <1>4, <1>5, <1>6, <1>7, <1>8, <1>9, <1>10, <1>11, <1>12, <1>13, <1>14,
           <1>15, <1>16 DEF Next

(* The reports change only where an account is given back. *)
LEMMA ReportsKept == LoopInv /\ [Next]_vars => reports' \in Seq(Outcomes) /\ Accounted'
<1> SUFFICES ASSUME LoopInv, [Next]_vars PROVE reports' \in Seq(Outcomes) /\ Accounted'
  OBVIOUS
<1>0. Steps /\ reports \in Seq(Outcomes) /\ Accounted
  BY DEF LoopInv
<1>1. CASE Reserve
  <2>1. /\ pc = "reserve" /\ attempt' = attempt + 1 /\ held' = TRUE /\ success' = FALSE
        /\ cfg' = cfg /\ reports' = reports
    BY <1>1 DEF Reserve
  <2>2. held = FALSE /\ success = FALSE /\ attempt \in Nat
    BY <1>0, <2>1 DEF Steps
  <2> QED BY <1>0, <2>1, <2>2 DEF Accounted
<1>2. CASE Succeeds
  <2>1. pc = "sent" /\ success' = TRUE /\ UNCHANGED <<cfg, attempt, held, reports>>
    BY <1>2 DEF Succeeds
  <2>2. held = TRUE
    BY <1>0, <2>1 DEF Steps
  <2> QED BY <1>0, <2>1, <2>2 DEF Accounted
<1>3. CASE Finally
  <2>1. /\ pc = "finally" /\ held' = FALSE /\ UNCHANGED <<cfg, attempt, success>>
        /\ reports' = IF cfg.api \in Build THEN reports ELSE Append(reports, Verdict(success, fail))
    BY <1>3 DEF Finally
  <2>2. held = TRUE /\ success \in BOOLEAN /\ attempt \in Nat
    BY <1>0, <2>1 DEF Steps
  <2>3. CASE cfg.api \in Build
    BY <1>0, <2>1, <2>3 DEF Accounted
  <2>4. CASE cfg.api \notin Build
    <3>1. PICK v, all : v = Verdict(success, fail) /\ all = Append(reports, v)
      OBVIOUS
    <3>2. v \in Outcomes /\ (v = "success" <=> success)
      BY <2>2, <3>1 DEF Verdict, Outcomes
    <3>3. /\ all \in Seq(Outcomes) /\ Len(all) = Len(reports) + 1 /\ all[Len(all)] = v /\ all # <<>>
          /\ \A i \in 1..Len(reports) : all[i] = reports[i]
      BY <1>0, <3>1, <3>2, AppendProperties
    <3>4. Len(reports) = attempt - 1 /\ \A i \in 1..Len(reports) : reports[i] # "success"
      BY <1>0, <2>2, <2>4 DEF Accounted
    <3>5. reports' = all
      BY <2>1, <2>4, <3>1
    <3>6. Len(all) = attempt /\ \A i \in 1..Len(all) : i < Len(all) \/ ~success => all[i] # "success"
      BY <1>0, <2>2, <3>2, <3>3, <3>4
    <3>7. success => reports' # <<>> /\ reports'[Len(reports')] = "success"
      BY <3>2, <3>3, <3>5
    <3>8. /\ Len(reports') = attempt' - (IF held' THEN 1 ELSE 0)
          /\ \A i \in 1..Len(reports') :
               i < Len(reports') \/ held' \/ ~success' => reports'[i] # "success"
      BY <2>1, <2>2, <3>5, <3>6
    <3> QED BY <2>1, <3>3, <3>5, <3>7, <3>8 DEF Accounted
  <2> QED BY <2>3, <2>4
<1>4. ASSUME UNCHANGED <<cfg, attempt, held, success, reports>>
      PROVE  reports' \in Seq(Outcomes) /\ Accounted'
  BY <1>0, <1>4 DEF Accounted
<1>5. ASSUME NEW f \in Frames(cfg), Read(f) PROVE UNCHANGED <<cfg, attempt, held, success, reports>>
  BY <1>5 DEF Read, loop
<1>6. CASE NoAccount \/ Yield \/ EndOfStream \/ Finishes \/ FinishRaises
  BY <1>4, <1>6 DEF NoAccount, Yield, EndOfStream, Finishes, FinishRaises, loop
<1>7. CASE Leave \/ Answer \/ Closed
  BY <1>4, <1>7 DEF Leave, Answer, Closed, loop
<1>8. ASSUME NEW status, Fails(status) PROVE UNCHANGED <<cfg, attempt, held, success, reports>>
  BY <1>8 DEF Fails
<1>9. ASSUME NEW cause, ErrorFrame(cause) PROVE UNCHANGED <<cfg, attempt, held, success, reports>>
  BY <1>8, <1>9 DEF ErrorFrame
<1>10. CASE UNCHANGED vars
  BY <1>4, <1>10 DEF vars, loop
<1> QED BY <1>1, <1>2, <1>3, <1>4, <1>5, <1>6, <1>7, <1>8, <1>9, <1>10 DEF Next

LEMMA LoopHolds == Spec => []LoopInv
<1>1. Init => LoopInv
  BY LoopInit
<1>2. LoopInv /\ [Next]_vars => LoopInv'
  BY StepsKept, ReportsKept DEF LoopInv
<1> QED BY <1>1, <1>2, PTL DEF Spec

-----------------------------------------------------------------------------
(* Calls, and the end of an answer *)
Issues(r) == r.h \in Locals /\ r.out \in Seq(Chunks)

LEMMA SendsIssues ==
  ASSUME NEW l \in Locals, NEW all \in Seq(Chunks)
  PROVE  Issues(Sends(l, all)) /\ Sends(l, all).h = l /\ Sends(l, all).out = all
BY DEF Sends, Issues

LEMMA Concat3 ==
  ASSUME NEW p \in Seq(Chunks), NEW q \in Seq(Chunks), NEW r \in Seq(Chunks)
  PROVE  p \o q \o r \in Seq(Chunks)
OBVIOUS

LEMMA ChatTextIs ==
  ASSUME NEW l \in Locals, NEW s \in Seq(Pieces)
  PROVE  ChatText(l, s).out \in Seq(Chunks)
<1>1. "chat" \in Grok \cup Console \cup Build /\ ChatText(l, s) = Text("chat", l, s)
  BY DEF Grok, Text
<1> QED BY <1>1, TextSends DEF Sending

LEMMA ChatCallsIssue ==
  ASSUME NEW l \in Locals, NEW safe \in Seq(Pieces), NEW n \in Nat
  PROVE  Issues(ChatCalls(l, safe, n)) /\ Finished(ChatCalls(l, safe, n).out)
<1>1. PICK none, zero : none = <<>> /\ zero = 0
  OBVIOUS
<1>2. none \in Seq(Pieces) /\ zero \in Nat
  BY <1>1, NoText
<1>3. PICK e : e = Write("call", zero, none)
  OBVIOUS
<1>4. e \in Chunks
  BY <1>2, <1>3, WriteIs
<1>5. PICK first, calls, both : /\ first = ChatText(l, safe).out /\ calls = [i \in 1..n |-> e]
                                /\ both = first \o calls
  OBVIOUS
<1>6. both \in Seq(Chunks)
  <2>1. first \in Seq(Chunks)
    BY <1>5, ChatTextIs
  <2>2. calls \in Seq(Chunks)
    BY <1>4, <1>5
  <2> QED BY <1>5, <2>1, <2>2
<1>7. ChatCalls(l, safe, n) = Sends(l, both \o <<Finish("tool_calls"), End>>)
  BY <1>1, <1>3, <1>5 DEF ChatCalls
<1>8. PICK all : all = both \o <<Finish("tool_calls"), End>>
  OBVIOUS
<1>9. all \in Seq(Chunks) /\ Finished(all)
  BY <1>6, <1>8, FinishedBy
<1> QED BY <1>7, <1>8, <1>9, SendsIssues

LEMMA CallsIssue ==
  ASSUME NEW api \in Grok, NEW l \in Locals, NEW safe \in Seq(Pieces), NEW n \in Nat
  PROVE  /\ Issues(Calls(api, l, safe, n))
         /\ api = "chat" => Finished(Calls(api, l, safe, n).out)
<1>1. CASE api = "chat"
  BY <1>1, ChatCallsIssue DEF Calls
<1>2. CASE api = "messages"
  <2>1. PICK k, i : i = l.index /\ k = [l EXCEPT !.index = @ + n]
    OBVIOUS
  <2>2. i \in Nat
    BY <2>1 DEF Locals
  <2>3. k \in Locals
    BY <2>1 DEF Locals
  <2>4. Calls(api, l, safe, n) = Sends(k, MessagesBlocks(i, n))
    BY <1>2, <2>1 DEF Calls, MessagesCalls
  <2> QED BY <1>2, <2>2, <2>3, <2>4, BlocksAre, SendsIssues
<1>3. CASE api = "responses"
  <2>1. NextItem(l) \in Nat
    BY DEF NextItem
  <2>2. Calls(api, l, safe, n) = Sends(l, MessagesBlocks(NextItem(l), n))
    BY <1>3 DEF Calls, ResponsesCalls
  <2> QED BY <1>3, <2>1, <2>2, BlocksAre, SendsIssues
<1> QED BY <1>1, <1>2, <1>3 DEF Grok

LEMMA CallsAtEndIssue ==
  ASSUME NEW api \in Grok, NEW l \in Locals, NEW n \in Nat
  PROVE  /\ Issues(CallsAtEnd(api, l, n))
         /\ api = "chat" => Finished(CallsAtEnd(api, l, n).out)
<1>1. CASE api = "chat"
  BY <1>1, ChatCallsIssue, NoText DEF CallsAtEnd
<1>2. CASE api = "messages"
  <2>1. PICK from, n1, i : /\ i = l.index /\ from = (IF l.text THEN l.index + 1 ELSE l.index)
                           /\ n1 = from + n
    OBVIOUS
  <2>2. i \in Nat /\ from \in Nat /\ n1 \in Nat
    BY <2>1 DEF Locals
  <2>3. PICK g, k, no : no = FALSE /\ g = [l EXCEPT !.index = n1] /\ k = [g EXCEPT !.text = no]
    OBVIOUS
  <2>4. g \in Locals
    BY <2>2, <2>3 DEF Locals
  <2>5. k \in Locals
    BY <2>3, <2>4 DEF Locals
  <2>6. [l EXCEPT !.index = n1, !.text = FALSE] = k
    BY <2>3
  <2>7. PICK shut : shut = IF l.text THEN <<Close("text", i)>> ELSE <<>>
    OBVIOUS
  <2>8. shut \in Seq(Chunks)
    <3>1. PICK e, one : e = Close("text", i) /\ one = <<e>>
      OBVIOUS
    <3>2. e \in Chunks
      BY <2>2, <3>1, CloseIs
    <3>3. one \in Seq(Chunks)
      BY <3>1, <3>2
    <3> QED BY <2>7, <3>1, <3>3, EmptyOr
  <2>9. CallsAtEnd(api, l, n) = Sends(k, shut \o MessagesBlocks(from, n))
    BY <1>2, <2>1, <2>6, <2>7 DEF CallsAtEnd, MessagesCallsAtEnd
  <2>10. shut \o MessagesBlocks(from, n) \in Seq(Chunks)
    BY <2>2, <2>8, BlocksAre
  <2> QED BY <1>2, <2>5, <2>9, <2>10, SendsIssues
<1>3. CASE api = "responses"
  <2>1. NextItem(l) \in Nat
    BY DEF NextItem
  <2>2. CallsAtEnd(api, l, n) = Sends(l, MessagesBlocks(NextItem(l), n))
    BY <1>3 DEF CallsAtEnd, ResponsesCalls
  <2> QED BY <1>3, <2>1, <2>2, BlocksAre, SendsIssues
<1> QED BY <1>1, <1>2, <1>3 DEF Grok

(* The images and the sources at the end of the text. *)
LEMMA TailIs ==
  ASSUME NEW i \in Nat, NEW images \in Nat, NEW sources
  PROVE  /\ [j \in 1..images |-> Write("text", i, <<"g">>)] \in Seq(Chunks)
         /\ (IF sources THEN <<Write("text", i, <<"s">>)>> ELSE <<>>) \in Seq(Chunks)
<1>1. PICK g, s : g = <<"g">> /\ s = <<"s">>
  OBVIOUS
<1>2. g \in Seq(Pieces) /\ s \in Seq(Pieces)
  BY <1>1 DEF Pieces
<1>3. PICK d, e, one : d = Write("text", i, g) /\ e = Write("text", i, s) /\ one = <<e>>
  OBVIOUS
<1>4. d \in Chunks /\ e \in Chunks
  BY <1>2, <1>3, WriteIs
<1>5. [j \in 1..images |-> d] \in Seq(Chunks) /\ one \in Seq(Chunks)
  BY <1>3, <1>4
<1> QED BY <1>1, <1>3, <1>5, EmptyOr

LEMMA Prefixed ==
  ASSUME NEW c, NEW f, NEW e
  PROVE  <<c>> \o <<f, e>> = <<c, f, e>>
<1>1. PICK X, p, q, r, t : X = {c, f, e} /\ p = <<c>> /\ q = <<f, e>> /\ r = p \o q /\ t = <<c, f, e>>
  OBVIOUS
<1>2. p \in Seq(X) /\ q \in Seq(X) /\ Len(p) = 1 /\ Len(q) = 2 /\ p[1] = c /\ q[1] = f /\ q[2] = e
  BY <1>1
<1>3. t \in Seq(X) /\ Len(t) = 3 /\ t[1] = c /\ t[2] = f /\ t[3] = e
  BY <1>1
<1>4. /\ r \in Seq(X) /\ Len(r) = 3
      /\ \A i \in 1..3 : r[i] = IF i <= 1 THEN p[i] ELSE q[i - 1]
  BY <1>1, <1>2, ConcatProperties
<1>5. r[1] = c /\ r[2] = f /\ r[3] = e
  BY <1>2, <1>4
<1>6. \A i \in 1..3 : i = 1 \/ i = 2 \/ i = 3
  OBVIOUS
<1>7. r = t
  BY <1>3, <1>4, <1>5, <1>6, SeqEqual
<1> QED BY <1>1, <1>7

LEMMA CloseOne ==
  ASSUME NEW kind \in {"thinking", "reasoning", "text", "call"}, NEW i \in Nat, NEW p
  PROVE  /\ <<Close(kind, i)>> \in Seq(Chunks)
         /\ (IF p THEN <<Close(kind, i)>> ELSE <<>>) \in Seq(Chunks)
<1>1. PICK e, one : e = Close(kind, i) /\ one = <<e>>
  OBVIOUS
<1>2. e \in Chunks
  BY <1>1, CloseIs
<1>3. one \in Seq(Chunks)
  BY <1>1, <1>2
<1> QED BY <1>1, <1>3, EmptyOr

(* The answer is finished by its last two events, except where Chat has     *)
(* finished it with the calls, and in the Messages of Grok Build, which     *)
(* have another end.                                                        *)
LEMMA FinishingIssues ==
  ASSUME NEW api \in Grok \cup Console \cup Build, NEW l \in Locals, NEW a, NEW where,
         api \in Grok => a.images \in Nat
  PROVE  /\ Issues(Finishing(api, l, a, where))
         /\ api \notin Build /\ ~(api = "chat" /\ where # "") =>
              Finished(Finishing(api, l, a, where).out)
<1>1. ASSUME NEW p \in Seq(Chunks),
             NEW reason \in {"tool_calls", "stop", "tool_use", "end_turn", "completed"},
             NEW r, r = Sends(l, p \o <<Finish(reason), End>>) \/ r = Sends(l, <<Finish(reason), End>>)
      PROVE  Issues(r) /\ Finished(r.out)
  <2>1. PICK all, both : all = <<Finish(reason), End>> /\ both = p \o all
    OBVIOUS
  <2>2. all \in Seq(Chunks) /\ Finished(all) /\ both \in Seq(Chunks) /\ Finished(both)
    BY <2>1, FinishedBy
  <2>3. r = Sends(l, both) \/ r = Sends(l, all)
    BY <1>1, <2>1
  <2> QED BY <2>2, <2>3, SendsIssues
<1>2. PICK none, zero : none = <<>> /\ zero = 0
  OBVIOUS
<1>3. none \in Seq(Chunks) /\ zero \in Nat
  BY <1>2
<1>4. CASE api = "chat"
  <2>1. CASE where # ""
    <3>1. Finishing(api, l, a, where) = Sends(l, none)
      BY <1>2, <1>4, <2>1 DEF Finishing
    <3> QED BY <1>3, <1>4, <2>1, <3>1, SendsIssues
  <2>2. CASE where = ""
    <3>1. PICK p, q : /\ p = [i \in 1..a.images |-> Write("text", zero, <<"g">>)]
                      /\ q = IF a.sources THEN <<Write("text", zero, <<"s">>)>> ELSE <<>>
      OBVIOUS
    <3>2. p \in Seq(Chunks) /\ q \in Seq(Chunks)
      BY <1>3, <1>4, <3>1, TailIs DEF Grok
    <3>3. p \o q \in Seq(Chunks)
      BY <3>2
    <3>4. Finishing(api, l, a, where) = Sends(l, p \o q \o <<Finish("stop"), End>>)
      BY <1>2, <1>4, <2>2, <3>1 DEF Finishing, ChatFinish
    <3> QED BY <1>1, <3>3, <3>4
  <2> QED BY <2>1, <2>2
<1>5. CASE api = "messages"
  <2>1. CASE where # ""
    <3>1. Finishing(api, l, a, where) = Sends(l, <<Finish("tool_use"), End>>)
      BY <1>5, <2>1 DEF Finishing, MessagesFinish
    <3> QED BY <1>1, <1>3, <3>1
  <2>2. CASE where = ""
    <3>1. PICK i, p, q, shut, n :
            /\ i = l.index /\ p = [j \in 1..a.images |-> Write("text", i, <<"g">>)]
            /\ q = (IF a.sources THEN <<Write("text", i, <<"s">>)>> ELSE <<>>)
            /\ shut = (IF l.thinking /\ ~l.closed THEN <<Close("thinking", i)>> ELSE <<>>)
            /\ n = i + Len(shut)
      OBVIOUS
    <3>2. i \in Nat
      BY <3>1 DEF Locals
    <3>3. p \in Seq(Chunks) /\ q \in Seq(Chunks) /\ shut \in Seq(Chunks)
      BY <1>5, <3>1, <3>2, TailIs, CloseOne DEF Grok
    <3>4. n \in Nat
      <4>1. Len(shut) \in Nat
        BY <3>3
      <4> QED BY <3>1, <3>2, <4>1
    <3>5. PICK tail, last, front :
            /\ tail = (IF l.text THEN p \o q ELSE none)
            /\ last = (IF l.text THEN <<Close("text", n)>> ELSE none)
            /\ front = tail \o shut \o last
      OBVIOUS
    <3>6. tail \in Seq(Chunks) /\ last \in Seq(Chunks)
      <4>1. p \o q \in Seq(Chunks)
        BY <3>3
      <4>2. <<Close("text", n)>> \in Seq(Chunks)
        BY <3>4, CloseOne
      <4> QED BY <1>3, <3>5, <4>1, <4>2
    <3>7. front \in Seq(Chunks)
      BY <3>3, <3>5, <3>6, Concat3
    <3>8. Finishing(api, l, a, where) = Sends(l, front \o <<Finish("end_turn"), End>>)
      BY <1>2, <1>5, <2>2, <3>1, <3>5 DEF Finishing, MessagesFinish
    <3> QED BY <1>1, <3>7, <3>8
  <2> QED BY <2>1, <2>2
<1>6. CASE api = "responses"
  <2>1. CASE where # ""
    <3>1. Finishing(api, l, a, where) = Sends(l, <<Finish("completed"), End>>)
      BY <1>6, <2>1 DEF Finishing, ResponsesFinish
    <3> QED BY <1>1, <1>3, <3>1
  <2>2. CASE where = ""
    <3>1. PICK i, p, q, last :
            /\ i = NextItem(l) /\ p = [j \in 1..a.images |-> Write("text", i, <<"g">>)]
            /\ q = (IF a.sources THEN <<Write("text", i, <<"s">>)>> ELSE <<>>)
            /\ last = <<Close("text", i)>>
      OBVIOUS
    <3>2. i \in Nat
      BY <3>1 DEF NextItem
    <3>3. p \in Seq(Chunks) /\ q \in Seq(Chunks) /\ last \in Seq(Chunks)
      BY <1>6, <3>1, <3>2, TailIs, CloseOne DEF Grok
    <3>4. PICK front : front = IF l.text THEN p \o q \o last ELSE none
      OBVIOUS
    <3>5. front \in Seq(Chunks)
      BY <1>3, <3>3, <3>4, Concat3
    <3>6. Finishing(api, l, a, where) = Sends(l, front \o <<Finish("completed"), End>>)
      BY <1>2, <1>6, <2>2, <3>1, <3>4 DEF Finishing, ResponsesFinish
    <3> QED BY <1>1, <3>5, <3>6
  <2> QED BY <2>1, <2>2
<1>7. CASE api \in {"console_chat", "build_chat"}
  <2>1. Finishing(api, l, a, where) = Sends(l, <<Finish("stop"), End>>)
    BY <1>7 DEF Finishing, ConsoleChatFinish, BuildChatFinish
  <2> QED BY <1>1, <1>3, <2>1
<1>8. CASE api \in {"console_messages", "console_responses", "build_messages"}
  <2>1. PICK one : one = <<Close("text", zero)>>
    OBVIOUS
  <2>2. one \in Seq(Chunks)
    BY <1>3, <2>1, CloseOne
  <2>3. CASE api = "console_messages"
    <3>1. one \o <<Finish("end_turn"), End>> = <<Close("text", zero), Finish("end_turn"), End>>
      BY <2>1, Prefixed
    <3>2. Finishing(api, l, a, where) = Sends(l, one \o <<Finish("end_turn"), End>>)
      BY <1>2, <2>3, <3>1 DEF Finishing, ConsoleMessagesFinish
    <3> QED BY <1>1, <2>2, <3>2
  <2>4. CASE api = "console_responses"
    <3>1. one \o <<Finish("completed"), End>> = <<Close("text", zero), Finish("completed"), End>>
      BY <2>1, Prefixed
    <3>2. Finishing(api, l, a, where) = Sends(l, one \o <<Finish("completed"), End>>)
      BY <1>2, <2>4, <3>1 DEF Finishing, ConsoleResponsesFinish
    <3> QED BY <1>1, <2>2, <3>2
  <2>5. CASE api = "build_messages"
    <3>1. PICK c, f, both : c = Close("text", zero) /\ f = Finish("end_turn") /\ both = <<c, f>>
      OBVIOUS
    <3>2. c \in Chunks /\ f \in Chunks
      BY <1>3, <3>1, CloseIs, FinishIs
    <3>3. both \in Seq(Chunks)
      BY <3>1, <3>2
    <3>4. Finishing(api, l, a, where) = Sends(l, both)
      BY <1>2, <2>5, <3>1 DEF Finishing, BuildMessagesFinish
    <3>5. api \in Build
      BY <2>5 DEF Build
    <3> QED BY <3>3, <3>4, <3>5, SendsIssues
  <2> QED BY <1>8, <2>3, <2>4, <2>5
<1> QED BY <1>4, <1>5, <1>6, <1>7, <1>8 DEF Grok, Console, Build

-----------------------------------------------------------------------------
(* The detector of calls *)
Sieves == [buf : Seq(Pieces), capturing : BOOLEAN, done : BOOLEAN]

(* What it holds back begins with the tag, or is what may be the start of   *)
(* one; and no tag has been released.                                       *)
Buffers(sv, sent) ==
  /\ ~sv.done
  /\ sv.capturing => /\ Len(sv.buf) >= 2 /\ sv.buf[1] = "p" /\ sv.buf[2] = "q"
                     /\ Closings(sv.buf) = {} /\ Openings(sent) = {}
  /\ ~sv.capturing => Openings(sent \o sv.buf) = {} /\ sv.buf = Leftover(sent \o sv.buf)

LEMMA SieveIs ==
  ASSUME NEW b \in Seq(Pieces), NEW c \in BOOLEAN, NEW d \in BOOLEAN,
         NEW g, g = [buf |-> b, capturing |-> c, done |-> d]
  PROVE  g \in Sieves /\ g.buf = b /\ g.capturing = c /\ g.done = d
BY DEF Sieves

LEMMA SieveOver == [buf |-> <<>>, capturing |-> FALSE, done |-> TRUE] \in Sieves
<1>1. PICK b, c, d, g : b = <<>> /\ c = FALSE /\ d = TRUE /\ g = [buf |-> b, capturing |-> c, done |-> d]
  OBVIOUS
<1>2. b \in Seq(Pieces)
  BY <1>1, NoText
<1>3. c \in BOOLEAN /\ d \in BOOLEAN
  BY <1>1
<1>4. g = [buf |-> b, capturing |-> c, done |-> d]
  BY <1>1
<1>5. g \in Sieves
  BY <1>2, <1>3, <1>4, SieveIs
<1> QED BY <1>1, <1>5

LEMMA NoOpening ==
  ASSUME NEW s
  PROVE  Openings(s) = {} <=> \A i \in 1..Len(s) - 1 : ~(s[i] = "p" /\ s[i + 1] = "q")
BY DEF Openings

LEMMA TagJoin ==
  ASSUME NEW p \in Seq(Pieces), NEW q \in Seq(Pieces), Openings(p) = {}, Openings(q) = {},
         ~(Len(p) > 0 /\ Len(q) > 0 /\ p[Len(p)] = "p" /\ q[1] = "q")
  PROVE  Openings(p \o q) = {}
<1>1. PICK r, m, n : r = p \o q /\ m = Len(p) /\ n = Len(q)
  OBVIOUS
<1>2. /\ m \in Nat /\ n \in Nat /\ Len(r) = m + n
      /\ \A i \in 1..m + n : r[i] = IF i <= m THEN p[i] ELSE q[i - m]
  BY <1>1, ConcatProperties
<1>3. /\ \A i \in 1..m - 1 : ~(p[i] = "p" /\ p[i + 1] = "q")
      /\ \A i \in 1..n - 1 : ~(q[i] = "p" /\ q[i + 1] = "q")
  BY <1>1, NoOpening
<1>4. ASSUME NEW i \in 1..m + n - 1 PROVE ~(r[i] = "p" /\ r[i + 1] = "q")
  <2>0. i \in 1..m + n /\ i + 1 \in 1..m + n
    BY <1>2
  <2>1. CASE i < m
    <3>1. r[i] = p[i] /\ r[i + 1] = p[i + 1] /\ i \in 1..m - 1
      BY <1>2, <2>0, <2>1
    <3> QED BY <1>3, <3>1
  <2>2. CASE i = m
    <3>1. r[i] = p[m] /\ r[i + 1] = q[1] /\ m > 0 /\ n > 0
      BY <1>2, <2>0, <2>2
    <3> QED BY <1>1, <3>1
  <2>3. CASE i > m
    <3>1. PICK j : j = i - m
      OBVIOUS
    <3>2. j \in 1..n - 1 /\ (i + 1) - m = j + 1
      BY <1>2, <2>3, <3>1
    <3>3. r[i] = q[j] /\ r[i + 1] = q[j + 1]
      BY <1>2, <2>0, <2>3, <3>1, <3>2
    <3> QED BY <1>3, <3>2, <3>3
  <2> QED BY <1>2, <2>1, <2>2, <2>3
<1>5. Openings(r) = {}
  <2>1. Len(r) - 1 = m + n - 1
    BY <1>2
  <2>2. \A i \in 1..Len(r) - 1 : ~(r[i] = "p" /\ r[i + 1] = "q")
    BY <1>4, <2>1
  <2> QED BY <2>2, NoOpening
<1> QED BY <1>1, <1>5

LEMMA TagPart ==
  ASSUME NEW p \in Seq(Pieces), NEW q \in Seq(Pieces), Openings(p \o q) = {}
  PROVE  Openings(p) = {}
<1>1. PICK r, m, n : r = p \o q /\ m = Len(p) /\ n = Len(q)
  OBVIOUS
<1>2. m \in Nat /\ n \in Nat /\ Len(r) = m + n /\ \A i \in 1..m : r[i] = p[i]
  BY <1>1, ConcatProperties
<1>3. \A i \in 1..m + n - 1 : ~(r[i] = "p" /\ r[i + 1] = "q")
  <2>1. \A i \in 1..Len(r) - 1 : ~(r[i] = "p" /\ r[i + 1] = "q")
    BY <1>1, NoOpening
  <2>2. Len(r) - 1 = m + n - 1
    BY <1>2
  <2> QED BY <2>1, <2>2
<1>4. ASSUME NEW i \in 1..m - 1 PROVE ~(p[i] = "p" /\ p[i + 1] = "q")
  <2>1. i \in 1..m /\ i + 1 \in 1..m /\ i \in 1..m + n - 1
    BY <1>2
  <2>2. r[i] = p[i] /\ r[i + 1] = p[i + 1]
    BY <1>2, <2>1
  <2> QED BY <1>3, <2>1, <2>2
<1> QED BY <1>1, <1>4, NoOpening

LEMMA LeftoverIs ==
  ASSUME NEW s \in Seq(Pieces)
  PROVE  /\ Leftover(s) \in Seq(Pieces) /\ Len(Leftover(s)) <= Len(s)
         /\ Leftover(s) = <<>> \/ (Leftover(s) = <<"p">> /\ Len(s) > 0)
         /\ SubSeq(s, 1, Len(s) - Len(Leftover(s))) \in Seq(Pieces)
         /\ SubSeq(s, 1, Len(s) - Len(Leftover(s))) \o Leftover(s) = s
<1>1. PICK n, none, p : n = Len(s) /\ none = <<>> /\ p = <<"p">>
  OBVIOUS
<1>2. n \in Nat /\ none \in Seq(Pieces) /\ p \in Seq(Pieces) /\ Len(none) = 0 /\ Len(p) = 1
  BY <1>1 DEF Pieces
<1>3. CASE s # <<>> /\ Last(s) = "p"
  <2>1. Leftover(s) = p
    BY <1>1, <1>3 DEF Leftover
  <2>2. n > 0 /\ s[n] = "p"
    BY <1>1, <1>3 DEF Last
  <2>3. PICK front, m : m = n - 1 /\ front = SubSeq(s, 1, m)
    OBVIOUS
  <2>4. m \in Nat /\ front \in Seq(Pieces) /\ Len(front) = m /\ \A i \in 1..m : front[i] = s[i]
    BY <1>1, <1>2, <2>2, <2>3
  <2>5. PICK all : all = front \o p
    OBVIOUS
  <2>6. /\ all \in Seq(Pieces) /\ Len(all) = m + 1
        /\ \A i \in 1..m + 1 : all[i] = IF i <= m THEN front[i] ELSE p[i - m]
    <3>1. /\ all \in Seq(Pieces) /\ Len(all) = Len(front) + Len(p)
          /\ \A i \in 1..Len(front) + Len(p) :
               all[i] = IF i <= Len(front) THEN front[i] ELSE p[i - Len(front)]
      BY <1>2, <2>4, <2>5, ConcatProperties
    <3>2. Len(front) = m /\ Len(p) = 1
      BY <1>2, <2>4
    <3> QED BY <3>1, <3>2
  <2>7. ASSUME NEW i \in 1..n PROVE all[i] = s[i]
    <3>1. CASE i <= m
      BY <1>2, <2>3, <2>4, <2>6, <3>1
    <3>2. CASE i = n
      <4>1. all[n] = p[1]
        BY <1>2, <2>2, <2>3, <2>6
      <4>2. p[1] = "p"
        BY <1>1
      <4> QED BY <2>2, <3>2, <4>1, <4>2
    <3> QED BY <1>2, <2>3, <3>1, <3>2
  <2>8. all = s
    BY <1>1, <1>2, <2>3, <2>6, <2>7, SeqEqual
  <2> QED BY <1>1, <1>2, <2>1, <2>2, <2>3, <2>4, <2>5, <2>8
<1>4. CASE ~(s # <<>> /\ Last(s) = "p")
  <2>1. Leftover(s) = none
    BY <1>1, <1>4 DEF Leftover
  <2>2. SubSeq(s, 1, n - 0) = s /\ s \o none = s
    BY <1>1
  <2> QED BY <1>1, <1>2, <2>1, <2>2
<1> QED BY <1>3, <1>4

LEMMA LeftoverJoin ==
  ASSUME NEW p \in Seq(Pieces), NEW q \in Seq(Pieces), q # <<>>
  PROVE  Leftover(p \o q) = Leftover(q)
<1>1. PICK r, m, n : r = p \o q /\ m = Len(p) /\ n = Len(q)
  OBVIOUS
<1>2. /\ m \in Nat /\ n \in Nat /\ n > 0 /\ Len(r) = m + n /\ r # <<>>
      /\ r[m + n] = q[n]
  <2>1. m \in Nat /\ n \in Nat /\ n > 0
    BY <1>1
  <2>2. /\ r \in Seq(Pieces) /\ Len(r) = m + n
        /\ \A i \in 1..m + n : r[i] = IF i <= m THEN p[i] ELSE q[i - m]
    BY <1>1, ConcatProperties
  <2>3. m + n \in 1..m + n /\ ~(m + n <= m) /\ (m + n) - m = n
    BY <2>1
  <2>4. r # <<>>
    BY <2>1, <2>2
  <2> QED BY <2>1, <2>2, <2>3, <2>4
<1> QED BY <1>1, <1>2 DEF Leftover, Last

LEMMA ParseIs ==
  ASSUME NEW s
  PROVE  ParseToolCalls(s) \in Nat
<1>1. PICK calls : calls = IF CanonicalCalls(s) # <<>> THEN CanonicalCalls(s) ELSE OtherCalls(s)
  OBVIOUS
<1>2. Len(SelectSeq(calls, LAMBDA x : x # "u")) \in Nat
  OBVIOUS
<1>3. ParseToolCalls(s) = IF HasToolSyntax(s) THEN Len(SelectSeq(calls, LAMBDA x : x # "u")) ELSE 0
  BY <1>1 DEF ParseToolCalls
<1> QED BY <1>2, <1>3

LEMMA FlushIs ==
  ASSUME NEW sv \in Sieves
  PROVE  Flush(sv).sieve \in Sieves /\ Flush(sv).calls \in Nat
<1>1. CASE sv.done \/ sv.buf = <<>>
  <2>1. Flush(sv) = Sieved(sv, <<>>, FALSE, 0)
    BY <1>1 DEF Flush
  <2> QED BY <2>1 DEF Sieved
<1>2. CASE ~(sv.done \/ sv.buf = <<>>)
  <2>1. PICK b, yes, text, cap, done : b = <<>> /\ yes = TRUE /\ text = sv.buf /\ cap = sv.capturing
                                       /\ done = sv.done
    OBVIOUS
  <2>2. b \in Seq(Pieces)
    BY <2>1, NoText
  <2>3. cap \in BOOLEAN /\ yes \in BOOLEAN
    BY <2>1 DEF Sieves
  <2>7. PICK f, g : /\ f = [buf |-> b, capturing |-> cap, done |-> done]
                    /\ g = [buf |-> b, capturing |-> cap, done |-> yes]
    OBVIOUS
  <2>4. g \in Sieves
    BY <2>2, <2>3, <2>7, SieveIs
  <2>8. sv = [buf |-> text, capturing |-> cap, done |-> done]
    BY <2>1 DEF Sieves
  <2>9. [[buf |-> text, capturing |-> cap, done |-> done] EXCEPT !.buf = b] = f
    BY <2>7
  <2>10. [f EXCEPT !.done = yes] = g
    BY <2>7
  <2>5. [sv EXCEPT !.buf = <<>>, !.done = TRUE] = g
    <3>1. [sv EXCEPT !.buf = <<>>, !.done = TRUE] = [[sv EXCEPT !.buf = b] EXCEPT !.done = yes]
      BY <2>1
    <3> QED BY <2>8, <2>9, <2>10, <3>1, Zenon
  <2>6. Flush(sv) = Sieved(g, <<>>, HasToolSyntax(sv.buf), ParseToolCalls(sv.buf))
    BY <1>2, <2>5 DEF Flush
  <2> QED BY <2>4, <2>6, ParseIs DEF Sieved
<1> QED BY <1>1, <1>2

(* A block that is closed is a block of calls. *)
LEMMA BlockFound ==
  ASSUME NEW b \in Seq(Pieces), Len(b) >= 2, b[1] = "p", b[2] = "q", Closings(b) # {}
  PROVE  HasToolSyntax(SubSeq(b, 1, Min(Closings(b))))
<1>1. PICK m : m = Min(Closings(b))
  OBVIOUS
<1>2. m \in 1..Len(b) /\ b[m] = "z"
  <2>1. Closings(b) \in SUBSET Nat
    BY DEF Closings
  <2>2. m \in Closings(b)
    BY <1>1, <2>1, MinOf
  <2> QED BY <2>2 DEF Closings
<1>3. m > 2
  <2>1. m # 1 /\ m # 2
    BY <1>2
  <2> QED BY <1>2, <2>1
<1>4. PICK block : block = SubSeq(b, 1, m)
  OBVIOUS
<1>5. Len(block) = m /\ block[1] = b[1] /\ block[2] = b[2]
  BY <1>2, <1>3, <1>4
<1>6. 1 \in Openings(block)
  <2>1. 1 \in 1..Len(block) - 1 /\ 1 + 1 = 2
    BY <1>2, <1>3, <1>5
  <2>2. block[1] = "p" /\ block[1 + 1] = "q"
    BY <1>5, <2>1
  <2> QED BY <2>1, <2>2 DEF Openings
<1> QED BY <1>1, <1>4, <1>6 DEF HasToolSyntax

(* What an operation of the detector does: the text it was given is what it *)
(* releases and what it holds back, until a block is found.                 *)
Sifts(fed, sent, text) ==
  /\ fed.sieve \in Sieves /\ fed.safe \in Seq(Pieces) /\ fed.calls \in Nat /\ fed.found \in BOOLEAN
  /\ ~fed.found => Buffers(fed.sieve, sent \o fed.safe) /\ fed.safe \o fed.sieve.buf = text

LEMMA Captures ==
  ASSUME NEW sent \in Seq(Pieces), NEW chunk \in Seq(Pieces), Openings(sent) = {},
         NEW sv \in Sieves, sv.capturing, ~sv.done,
         Len(sv.buf \o chunk) >= 2, (sv.buf \o chunk)[1] = "p", (sv.buf \o chunk)[2] = "q"
  PROVE  /\ Sifts(FeedCapturing(sv, chunk), sent, sv.buf \o chunk)
         /\ FeedCapturing(sv, chunk).safe = <<>>
<1>1. PICK none, zero, whole : none = <<>> /\ zero = 0 /\ whole = sv.buf \o chunk
  OBVIOUS
<1>2. none \in Seq(Pieces) /\ whole \in Seq(Pieces)
  <2>1. sv.buf \in Seq(Pieces)
    BY DEF Sieves
  <2> QED BY <1>1, <2>1
<1>7. Len(whole) >= 2 /\ whole[1] = "p" /\ whole[2] = "q"
  BY <1>1
<1>3. none \o whole = whole /\ sent \o none = sent
  BY <1>1, <1>2
<1>4. zero \in Nat
  BY <1>1
<1>5. CASE Closings(whole) = {}
  <2>1. PICK g : g = [sv EXCEPT !.buf = whole]
    OBVIOUS
  <2>3. g \in Sieves /\ g.buf = whole /\ g.capturing = sv.capturing /\ g.done = sv.done
    BY <1>2, <2>1 DEF Sieves
  <2>4. FeedCapturing(sv, chunk) = Sieved(g, none, FALSE, zero)
    BY <1>1, <1>5, <2>1 DEF FeedCapturing
  <2>5. PICK fed : fed = FeedCapturing(sv, chunk)
    OBVIOUS
  <2>6. fed.sieve = g /\ fed.safe = none /\ fed.found = FALSE /\ fed.calls = zero
    BY <2>4, <2>5 DEF Sieved
  <2>7. Buffers(g, sent)
    BY <1>5, <1>7, <2>3 DEF Buffers
  <2>8. Sifts(fed, sent, whole)
    BY <1>2, <1>3, <1>4, <2>3, <2>6, <2>7 DEF Sifts
  <2> QED BY <1>1, <2>5, <2>6, <2>8
<1>6. CASE Closings(whole) # {}
  <2>1. PICK block, n, found : /\ block = SubSeq(whole, 1, Min(Closings(whole)))
                               /\ n = ParseToolCalls(block) /\ found = HasToolSyntax(block)
    OBVIOUS
  <2>2. n \in Nat
    BY <2>1, ParseIs
  <2>3. found
    BY <1>2, <1>6, <1>7, <2>1, BlockFound
  <2>4. found \in BOOLEAN
    BY <2>1 DEF HasToolSyntax
  <2>5. PICK g : g = [buf |-> <<>>, capturing |-> FALSE, done |-> TRUE]
    OBVIOUS
  <2>6. g \in Sieves
    BY <2>5, SieveOver
  <2>7. FeedCapturing(sv, chunk) = Sieved(g, none, found, n)
    BY <1>1, <1>6, <2>1, <2>5 DEF FeedCapturing
  <2>8. PICK fed : fed = FeedCapturing(sv, chunk)
    OBVIOUS
  <2>9. fed.sieve = g /\ fed.safe = none /\ fed.found = found /\ fed.calls = n
    BY <2>7, <2>8 DEF Sieved
  <2>10. Sifts(fed, sent, whole)
    BY <1>2, <2>2, <2>3, <2>4, <2>6, <2>9 DEF Sifts
  <2> QED BY <1>1, <2>8, <2>9, <2>10
<1> QED BY <1>5, <1>6

(* No tag lies across what has been released and what comes now. *)
LEMMA NotAcross ==
  ASSUME NEW sent \in Seq(Pieces), NEW b \in Seq(Pieces), NEW chunk \in Seq(Pieces), NEW text,
         text = b \o chunk, b = Leftover(sent \o b), Len(text) > 0, Len(sent) > 0,
         sent[Len(sent)] = "p"
  PROVE  text[1] # "q"
<1>1. CASE b = <<>>
  <2>1. sent \o b = sent /\ sent # <<>>
    BY <1>1
  <2>2. Leftover(sent) = <<"p">>
    BY <2>1 DEF Leftover, Last
  <2>3. b = <<"p">>
    BY <2>1, <2>2
  <2> QED BY <1>1, <2>3
<1>2. CASE b # <<>>
  <2>1. PICK all : all = sent \o b
    OBVIOUS
  <2>2. all \in Seq(Pieces) /\ b = Leftover(all)
    BY <2>1
  <2>3. b = <<"p">>
    BY <1>2, <2>2, LeftoverIs
  <2>4. b[1] = "p" /\ Len(b) = 1
    BY <2>3
  <2>5. text[1] = b[1]
    <3>1. \A i \in 1..Len(b) + Len(chunk) : text[i] = IF i <= Len(b) THEN b[i] ELSE chunk[i - Len(b)]
      BY ConcatProperties
    <3>2. 1 \in 1..Len(b) + Len(chunk) /\ 1 <= Len(b)
      <4>1. Len(chunk) \in Nat
        OBVIOUS
      <4> QED BY <2>4, <4>1
    <3> QED BY <3>1, <3>2
  <2> QED BY <2>4, <2>5
<1> QED BY <1>1, <1>2

LEMMA TextsAssociate ==
  ASSUME NEW p \in Seq(Pieces), NEW q \in Seq(Pieces), NEW r \in Seq(Pieces)
  PROVE  (p \o q) \o r = p \o (q \o r)
BY ConcatAssociative

LEMMA Scans ==
  ASSUME NEW sv \in Sieves, NEW sent \in Seq(Pieces), Buffers(sv, sent), ~sv.capturing,
         NEW chunk \in Seq(Pieces)
  PROVE  Sifts(FeedScanning(sv, chunk), sent, sv.buf \o chunk)
<1>1. PICK b, text, n, zero : b = sv.buf /\ text = b \o chunk /\ n = Len(text) /\ zero = 0
  OBVIOUS
<1>2. b \in Seq(Pieces) /\ sv.capturing \in BOOLEAN /\ sv.done \in BOOLEAN
  BY <1>1 DEF Sieves
<1>3. text \in Seq(Pieces) /\ n \in Nat /\ zero \in Nat
  BY <1>1, <1>2
<1>4. ~sv.done /\ Openings(sent \o b) = {} /\ b = Leftover(sent \o b)
  BY <1>1 DEF Buffers
<1>5. Openings(sent) = {}
  BY <1>2, <1>4, TagPart
<1>6. ~(Len(sent) > 0 /\ n > 0 /\ sent[Len(sent)] = "p" /\ text[1] = "q")
  BY <1>1, <1>2, <1>4, NotAcross
<1>7. CASE Openings(text) = {}
  <2>1. PICK rest, m, safe, sv2 : /\ rest = Leftover(text) /\ m = n - Len(rest)
                                  /\ safe = SubSeq(text, 1, m) /\ sv2 = [sv EXCEPT !.buf = rest]
    OBVIOUS
  <2>2. rest \in Seq(Pieces) /\ safe \in Seq(Pieces) /\ safe \o rest = text
    BY <1>1, <1>3, <2>1, LeftoverIs
  <2>3. sv2 \in Sieves /\ sv2.buf = rest /\ sv2.capturing = sv.capturing /\ sv2.done = sv.done
    BY <2>1, <2>2 DEF Sieves
  <2>4. FeedScanning(sv, chunk) = Sieved(sv2, safe, FALSE, zero)
    BY <1>1, <1>7, <2>1 DEF FeedScanning
  <2>5. PICK fed : fed = FeedScanning(sv, chunk)
    OBVIOUS
  <2>6. fed.sieve = sv2 /\ fed.safe = safe /\ fed.found = FALSE /\ fed.calls = zero
    BY <2>4, <2>5 DEF Sieved
  <2>7. PICK all : all = sent \o text
    OBVIOUS
  <2>8. (sent \o safe) \o rest = all
    <3>1. (sent \o safe) \o rest = sent \o (safe \o rest)
      BY <2>2, TextsAssociate
    <3> QED BY <2>2, <2>7, <3>1
  <2>9. Openings(all) = {}
    BY <1>1, <1>3, <1>5, <1>6, <1>7, <2>7, TagJoin
  <2>10. rest = Leftover(all)
    <3>1. CASE text # <<>>
      BY <1>3, <2>1, <2>7, <3>1, LeftoverJoin
    <3>2. CASE text = <<>>
      <4>1. b = <<>> /\ Len(text) = 0
        <5>1. Len(text) = Len(b) + Len(chunk) /\ Len(b) \in Nat /\ Len(chunk) \in Nat
          BY <1>1, <1>2, ConcatProperties
        <5>2. Len(text) = 0
          BY <3>2
        <5>4. \A i, j \in Nat : 0 = i + j => i = 0
          OBVIOUS
        <5>3. Len(b) = 0
          BY <5>1, <5>2, <5>4, Zenon
        <5> QED BY <1>2, <5>2, <5>3
      <4>2. all = sent /\ sent \o b = sent
        BY <2>7, <3>2, <4>1
      <4>3. rest = <<>>
        BY <2>1, <3>2 DEF Leftover
      <4> QED BY <1>4, <4>1, <4>2, <4>3
    <3> QED BY <3>1, <3>2
  <2>11. Buffers(sv2, sent \o safe)
    BY <1>4, <2>3, <2>8, <2>9, <2>10 DEF Buffers
  <2>12. Sifts(fed, sent, text)
    BY <1>3, <2>2, <2>3, <2>6, <2>11 DEF Sifts
  <2> QED BY <1>1, <2>5, <2>12
<1>8. CASE Openings(text) # {}
  <2>1. PICK at, safe, rest, none, yes : /\ at = Min(Openings(text)) /\ safe = SubSeq(text, 1, at - 1)
                                   /\ rest = SubSeq(text, at, n) /\ none = <<>> /\ yes = TRUE
    OBVIOUS
  <2>2. /\ at \in 1..n - 1 /\ text[at] = "p" /\ text[at + 1] = "q"
        /\ \A i \in Openings(text) : at <= i
    <3>1. Openings(text) \in SUBSET Nat
      BY DEF Openings
    <3>2. at \in Openings(text) /\ \A i \in Openings(text) : at <= i
      BY <1>8, <2>1, <3>1, MinOf
    <3> QED BY <1>1, <3>2 DEF Openings
  <2>3. at \in Nat /\ at - 1 \in Nat /\ none \in Seq(Pieces) /\ n - at + 1 >= 2
    BY <1>3, <2>1, <2>2
  <2>4. /\ safe \in Seq(Pieces) /\ Len(safe) = at - 1 /\ \A i \in 1..at - 1 : safe[i] = text[i]
        /\ rest \in Seq(Pieces) /\ Len(rest) = n - at + 1
        /\ \A i \in 1..n - at + 1 : rest[i] = text[at + i - 1]
    <3>1. \A i \in 1..at - 1 : text[i] \in Pieces
      BY <1>1, <1>3, <2>2
    <3>2. \A i \in at..n : text[i] \in Pieces
      BY <1>1, <1>3, <2>2
    <3>3. 1 \in Int /\ at \in Int /\ at - 1 \in Int /\ n \in Int /\ at <= n
      BY <1>3, <2>2
    <3>4. /\ safe \in Seq(Pieces) /\ Len(safe) = IF 1 <= at - 1 THEN at - 1 - 1 + 1 ELSE 0
          /\ \A i \in 1..at - 1 - 1 + 1 : safe[i] = text[1 + i - 1]
      BY <2>1, <3>1, <3>3, SubSeqProperties
    <3>5. /\ rest \in Seq(Pieces) /\ Len(rest) = IF at <= n THEN n - at + 1 ELSE 0
          /\ \A i \in 1..n - at + 1 : rest[i] = text[at + i - 1]
      BY <2>1, <3>2, <3>3, SubSeqProperties
    <3>6. Len(safe) = at - 1
      BY <2>3, <3>4
    <3>7. \A i \in 1..at - 1 : safe[i] = text[i]
      BY <2>3, <3>4
    <3> QED BY <3>3, <3>4, <3>5, <3>6, <3>7
  <2>5. rest[1] = "p" /\ rest[2] = "q"
    <3>1. 1 \in 1..n - at + 1 /\ 2 \in 1..n - at + 1 /\ at + 1 - 1 = at /\ at + 2 - 1 = at + 1
      BY <1>3, <2>3
    <3> QED BY <2>2, <2>4, <3>1
  <2>6. Openings(safe) = {}
    <3> SUFFICES ASSUME NEW i \in 1..Len(safe) - 1, safe[i] = "p", safe[i + 1] = "q" PROVE FALSE
      BY NoOpening
    <3>1. i \in 1..at - 1 /\ i + 1 \in 1..at - 1 /\ i \in 1..n - 1 /\ ~(at <= i)
      BY <1>3, <2>2, <2>3, <2>4
    <3>2. text[i] = "p" /\ text[i + 1] = "q"
      BY <2>4, <3>1
    <3>3. i \in Openings(text)
      BY <1>1, <3>1, <3>2 DEF Openings
    <3> QED BY <2>2, <3>1, <3>3
  <2>7. Openings(sent \o safe) = {}
    <3>1. ~(Len(sent) > 0 /\ Len(safe) > 0 /\ sent[Len(sent)] = "p" /\ safe[1] = "q")
      <4>1. Len(safe) > 0 => safe[1] = text[1] /\ n > 0
        BY <1>3, <2>2, <2>4
      <4> QED BY <1>6, <4>1
    <3> QED BY <1>5, <2>4, <2>6, <3>1, TagJoin
  <2>8. safe \o rest = text
    <3>1. /\ 1 \in 1..Len(text) + 1 /\ at - 1 \in 1 - 1..Len(text) /\ n \in at - 1..Len(text)
          /\ (at - 1) + 1 = at
      BY <1>1, <1>3, <2>2
    <3>2. SubSeq(text, 1, at - 1) \o SubSeq(text, (at - 1) + 1, n) = SubSeq(text, 1, n)
      BY <1>3, <3>1, ConcatAdjacentSubSeq
    <3>3. SubSeq(text, 1, n) = text
      BY <1>1, <1>3, SubSeqFull
    <3> QED BY <2>1, <3>1, <3>2, <3>3
  <2>9. PICK sv1, sv2 : sv1 = [sv EXCEPT !.buf = none] /\ sv2 = [sv1 EXCEPT !.capturing = TRUE]
    OBVIOUS
  <2>10. sv1 \in Sieves /\ sv1.buf = none /\ sv1.done = sv.done
    BY <2>3, <2>9 DEF Sieves
  <2>11. sv2 \in Sieves /\ sv2.buf = none /\ sv2.capturing /\ sv2.done = sv.done
    BY <2>9, <2>10 DEF Sieves
  <2>12. [sv EXCEPT !.buf = <<>>, !.capturing = TRUE] = sv2
    BY <2>1, <2>9
  <2>13. PICK captured, fed : captured = FeedCapturing(sv2, rest) /\ fed = FeedScanning(sv, chunk)
    OBVIOUS
  <2>14. fed = [captured EXCEPT !.safe = safe]
    BY <1>1, <1>8, <2>1, <2>12, <2>13 DEF FeedScanning
  <2>15. sv2.buf \o rest = rest
    BY <2>1, <2>4, <2>11
  <2>16. PICK before : before = sent \o safe
    OBVIOUS
  <2>17. before \in Seq(Pieces) /\ Openings(before) = {}
    BY <2>4, <2>7, <2>16
  <2>18. Sifts(captured, before, rest) /\ captured.safe = <<>>
    <3>1. Len(rest) >= 2
      BY <2>3, <2>4
    <3>2. Sifts(captured, before, sv2.buf \o rest) /\ captured.safe = <<>>
      BY <1>4, <2>4, <2>5, <2>11, <2>13, <2>15, <2>17, <3>1, Captures
    <3> QED BY <2>15, <3>2
  <2>19. /\ fed.sieve = captured.sieve /\ fed.safe = safe /\ fed.found = captured.found
         /\ fed.calls = captured.calls
    <3>1. DOMAIN captured = {"sieve", "safe", "found", "calls"}
      BY <2>13 DEF FeedCapturing, Sieved
    <3> QED BY <2>14, <3>1
  <2>20. ~captured.found => Buffers(captured.sieve, before) /\ captured.sieve.buf = rest
    <3> SUFFICES ASSUME ~captured.found
                 PROVE  Buffers(captured.sieve, before) /\ captured.sieve.buf = rest
      OBVIOUS
    <3>1. /\ Buffers(captured.sieve, before \o captured.safe)
          /\ captured.safe \o captured.sieve.buf = rest /\ captured.sieve \in Sieves
      BY <2>18 DEF Sifts
    <3>2. before \o <<>> = before
      BY <2>17
    <3>3. PICK b2 : b2 = captured.sieve.buf
      OBVIOUS
    <3>4. b2 \in Seq(Pieces)
      BY <3>1, <3>3 DEF Sieves
    <3>5. <<>> \o b2 = b2
      BY <3>4
    <3> QED BY <2>18, <3>1, <3>2, <3>3, <3>5
  <2>21. Sifts(fed, sent, text)
    BY <2>4, <2>8, <2>16, <2>18, <2>19, <2>20 DEF Sifts
  <2> QED BY <1>1, <2>13, <2>21
<1> QED BY <1>7, <1>8

(* The text the detector is given goes out or is held back. *)
LEMMA FeedSifts ==
  ASSUME NEW sv \in Sieves, NEW sent \in Seq(Pieces), Buffers(sv, sent), NEW chunk \in Seq(Pieces)
  PROVE  Sifts(Feed(sv, chunk), sent, sv.buf \o chunk)
<1>1. ~sv.done
  BY DEF Buffers
<1>2. CASE sv.capturing
  <2>1. Feed(sv, chunk) = FeedCapturing(sv, chunk)
    BY <1>1, <1>2 DEF Feed
  <2>2. /\ Len(sv.buf) >= 2 /\ sv.buf[1] = "p" /\ sv.buf[2] = "q" /\ Openings(sent) = {}
        /\ sv.buf \in Seq(Pieces)
    BY <1>2 DEF Buffers, Sieves
  <2>3. PICK b, text : b = sv.buf /\ text = b \o chunk
    OBVIOUS
  <2>4. Len(text) >= 2 /\ text[1] = b[1] /\ text[2] = b[2]
    <3>1. b \in Seq(Pieces) /\ Len(b) >= 2
      BY <2>2, <2>3
    <3>2. /\ Len(text) = Len(b) + Len(chunk)
          /\ \A i \in 1..Len(b) + Len(chunk) : text[i] = IF i <= Len(b) THEN b[i] ELSE chunk[i - Len(b)]
      BY <2>3, <3>1, ConcatProperties
    <3>3. Len(b) \in Nat /\ Len(chunk) \in Nat
      BY <3>1
    <3>4. 1 \in 1..Len(b) + Len(chunk) /\ 2 \in 1..Len(b) + Len(chunk) /\ 1 <= Len(b) /\ 2 <= Len(b)
      BY <3>1, <3>3
    <3> QED BY <3>1, <3>2, <3>3, <3>4
  <2>5. Len(sv.buf \o chunk) >= 2 /\ (sv.buf \o chunk)[1] = "p" /\ (sv.buf \o chunk)[2] = "q"
    BY <2>2, <2>3, <2>4
  <2> QED BY <1>1, <1>2, <2>1, <2>2, <2>5, Captures
<1>3. CASE ~sv.capturing
  <2>1. Feed(sv, chunk) = FeedScanning(sv, chunk)
    BY <1>1, <1>3 DEF Feed
  <2> QED BY <1>3, <2>1, Scans
<1> QED BY <1>2, <1>3

-----------------------------------------------------------------------------
(* The events of a frame *)
States == [h : Locals, sieve : Sieves, called : {"", "stream"}, ended : BOOLEAN, out : Seq(Chunks)]

(* The text of the upstream is what went out and what is held back. *)
Holds(c, sv, sent, whole) ==
  /\ sent \o sv.buf = whole
  /\ c.tools => Buffers(sv, sent)
  /\ ~c.tools => sv = NewSieve

Reading(c, before, whole, st) ==
  /\ st \in States
  /\ st.called = "stream" => st.ended /\ (c.api = "chat" => Finished(st.out))
  /\ ~st.ended => Holds(c, st.sieve, before \o Delivered(st.out), whole)

LEMMA SentIs ==
  ASSUME NEW st \in States, NEW r, Issues(r)
  PROVE  /\ Sent(st, r) \in States /\ Sent(st, r).h = r.h /\ Sent(st, r).out = st.out \o r.out
         /\ Sent(st, r).sieve = st.sieve /\ Sent(st, r).called = st.called
         /\ Sent(st, r).ended = st.ended
<1>1. PICK l, more, old : l = r.h /\ more = r.out /\ old = st.out
  OBVIOUS
<1>2. PICK all : all = old \o more
  OBVIOUS
<1>3. l \in Locals
  BY <1>1 DEF Issues
<1>4. old \in Seq(Chunks) /\ more \in Seq(Chunks)
  BY <1>1 DEF Issues, States
<1>5. all \in Seq(Chunks)
  BY <1>2, <1>4
<1>6. PICK u, v : u = [st EXCEPT !.h = l] /\ v = [u EXCEPT !.out = all]
  OBVIOUS
<1>7. /\ u \in States /\ u.h = l /\ u.out = st.out /\ u.sieve = st.sieve /\ u.called = st.called
      /\ u.ended = st.ended
  BY <1>3, <1>6 DEF States
<1>8. /\ v \in States /\ v.h = u.h /\ v.out = all /\ v.sieve = u.sieve /\ v.called = u.called
      /\ v.ended = u.ended
  BY <1>5, <1>6, <1>7 DEF States
<1>9. Sent(st, r) = v
  BY <1>1, <1>2, <1>6 DEF Sent
<1> QED BY <1>1, <1>2, <1>7, <1>8, <1>9

LEMMA DeliveredMore ==
  ASSUME NEW before \in Seq(Pieces), NEW p \in Seq(Chunks), NEW q \in Seq(Chunks)
  PROVE  before \o Delivered(p \o q) = (before \o Delivered(p)) \o Delivered(q)
<1>1. PICK a, b : a = Delivered(p) /\ b = Delivered(q)
  OBVIOUS
<1>2. a \in Seq(Pieces) /\ b \in Seq(Pieces) /\ Delivered(p \o q) = a \o b
  BY <1>1, DeliveredConcat
<1>3. (before \o a) \o b = before \o (a \o b)
  BY <1>2, TextsAssociate
<1> QED BY <1>1, <1>2, <1>3

LEMMA QuietStep ==
  ASSUME NEW c, NEW before \in Seq(Pieces), NEW whole, NEW st, Reading(c, before, whole, st),
         ~st.ended, NEW r, Sending(r, <<>>)
  PROVE  Reading(c, before, whole, Sent(st, r))
<1>1. st \in States /\ st.called # "stream" /\ Holds(c, st.sieve, before \o Delivered(st.out), whole)
  BY DEF Reading
<1>2. Issues(r) /\ r.out \in Seq(Chunks) /\ Delivered(r.out) = <<>>
  BY DEF Sending, Issues
<1>3. PICK p, w, sent : p = st.out /\ w = Sent(st, r) /\ sent = before \o Delivered(p)
  OBVIOUS
<1>4. p \in Seq(Chunks)
  BY <1>1, <1>3 DEF States
<1>5. w \in States /\ w.out = p \o r.out /\ w.sieve = st.sieve /\ w.called = st.called /\ w.ended = st.ended
  BY <1>1, <1>2, <1>3, SentIs
<1>6. before \o Delivered(w.out) = sent
  <2>1. before \o Delivered(w.out) = sent \o <<>>
    BY <1>2, <1>3, <1>4, <1>5, DeliveredMore
  <2>2. sent \in Seq(Pieces)
    <3>1. Delivered(p) \in Seq(Pieces)
      BY <1>4, DeliveredConcat
    <3> QED BY <1>3, <3>1
  <2> QED BY <2>1, <2>2
<1>7. Reading(c, before, whole, w)
  BY <1>1, <1>3, <1>5, <1>6 DEF Reading
<1> QED BY <1>3, <1>7

LEMMA TextStep ==
  ASSUME NEW c \in Configs, NEW before \in Seq(Pieces), NEW whole \in Seq(Pieces), NEW st,
         Reading(c, before, whole, st), ~st.ended, NEW s \in Seq(Pieces)
  PROVE  Reading(c, before, whole \o s, HandleText(c, st, s))
<1>1. PICK api, shut, sv, given : /\ api = c.api /\ shut = Sent(st, CloseThinking(api, st.h))
                                  /\ sv = st.sieve /\ given = whole \o s
  OBVIOUS
<1>2. api \in Grok \cup Console \cup Build /\ (c.tools => api \in Grok)
  BY <1>1, ConfigsAssumption
<1>3. Sending(CloseThinking(api, st.h), <<>>)
  <2>1. st.h \in Locals
    BY DEF Reading, States
  <2> QED BY <1>2, <2>1, CloseThinkingSends
<1>4. Reading(c, before, whole, shut)
  BY <1>1, <1>3, QuietStep
<1>5. /\ shut \in States /\ ~shut.ended /\ shut.sieve = sv /\ shut.called = "" /\ sv \in Sieves
  <2>1. st \in States /\ st.called = "" /\ st.sieve \in Sieves
    BY DEF Reading, States
  <2>2. Issues(CloseThinking(api, st.h))
    BY <1>3 DEF Sending, Issues
  <2>3. PICK r : r = CloseThinking(api, st.h)
    OBVIOUS
  <2>4. /\ shut \in States /\ shut.sieve = st.sieve /\ shut.called = st.called
        /\ shut.ended = st.ended
    BY <1>1, <2>1, <2>2, <2>3, SentIs
  <2> QED BY <1>1, <2>1, <2>4
<1>6. PICK l, p, sent : l = shut.h /\ p = shut.out /\ sent = before \o Delivered(p)
  OBVIOUS
<1>7. l \in Locals /\ p \in Seq(Chunks)
  BY <1>5, <1>6 DEF States
<1>8. sent \in Seq(Pieces) /\ Holds(c, sv, sent, whole)
  <2>1. Delivered(p) \in Seq(Pieces)
    BY <1>7, DeliveredConcat
  <2>2. sent \in Seq(Pieces)
    BY <1>6, <2>1
  <2>3. Holds(c, shut.sieve, before \o Delivered(shut.out), whole)
    BY <1>4, <1>5 DEF Reading
  <2> QED BY <1>5, <1>6, <2>2, <2>3
<1>9. CASE ~c.tools
  <2>1. HandleText(c, st, s) = Sent(shut, Text(api, l, s))
    BY <1>1, <1>6, <1>9 DEF HandleText
  <2>2. PICK r, w : r = Text(api, l, s) /\ w = Sent(shut, r)
    OBVIOUS
  <2>3. Sending(r, s)
    BY <1>2, <1>7, <2>2, TextSends
  <2>4. Issues(r) /\ r.out \in Seq(Chunks) /\ Delivered(r.out) = s
    BY <2>3 DEF Sending, Issues
  <2>5. w \in States /\ w.out = p \o r.out /\ w.sieve = sv /\ w.called = "" /\ ~w.ended
    <3>1. /\ w \in States /\ w.out = shut.out \o r.out /\ w.sieve = shut.sieve
          /\ w.called = shut.called /\ w.ended = shut.ended
      BY <1>5, <2>2, <2>4, SentIs
    <3> QED BY <1>5, <1>6, <3>1
  <2>6. before \o Delivered(w.out) = sent \o s
    <3>1. PICK q : q = r.out
      OBVIOUS
    <3>2. q \in Seq(Chunks) /\ Delivered(q) = s /\ w.out = p \o q
      BY <2>4, <2>5, <3>1
    <3>3. before \o Delivered(p \o q) = (before \o Delivered(p)) \o Delivered(q)
      BY <1>7, <3>2, DeliveredMore
    <3> QED BY <1>6, <3>2, <3>3
  <2>7. sv = NewSieve /\ sent \o sv.buf = whole /\ sv.buf = <<>>
    BY <1>8, <1>9 DEF Holds, NewSieve
  <2>8. sent = whole
    BY <1>8, <2>7
  <2>9. given \o sv.buf = given
    BY <1>1, <2>7
  <2>10. Holds(c, sv, sent \o s, given)
    BY <1>1, <1>9, <2>7, <2>8, <2>9 DEF Holds
  <2>11. Reading(c, before, given, w)
    BY <2>5, <2>6, <2>10 DEF Reading
  <2> QED BY <1>1, <2>1, <2>2, <2>11
<1>10. CASE c.tools
  <2>1. PICK fed : fed = Feed(sv, s)
    OBVIOUS
  <2>2. Sifts(fed, sent, sv.buf \o s) /\ api \in Grok
    BY <1>2, <1>5, <1>8, <1>10, <2>1, FeedSifts DEF Holds
  <2>3. /\ fed.sieve \in Sieves /\ fed.safe \in Seq(Pieces) /\ fed.calls \in Nat
        /\ ~fed.found => Buffers(fed.sieve, sent \o fed.safe) /\ fed.safe \o fed.sieve.buf = sv.buf \o s
    BY <2>2 DEF Sifts
  <2>4. CASE fed.found
    <3>1. PICK r, w, sv2, yes, where :
            /\ r = Calls(api, l, fed.safe, fed.calls) /\ w = Sent(shut, r) /\ sv2 = fed.sieve
            /\ yes = TRUE /\ where = "stream"
      OBVIOUS
    <3>2. HandleText(c, st, s) = [w EXCEPT !.sieve = sv2, !.called = where, !.ended = yes]
      BY <1>1, <1>5, <1>6, <1>10, <2>1, <2>4, <3>1 DEF HandleText
    <3>3. Issues(r) /\ (api = "chat" => Finished(r.out))
      BY <1>7, <2>2, <2>3, <3>1, CallsIssue
    <3>4. w \in States /\ w.out = p \o r.out
      BY <1>5, <1>6, <3>1, <3>3, SentIs
    <3>5. api = "chat" => Finished(w.out)
      BY <1>7, <3>3, <3>4, FinishedConcat DEF Issues
    <3>6. PICK u, v, x : /\ u = [w EXCEPT !.sieve = sv2] /\ v = [u EXCEPT !.called = where]
                         /\ x = [v EXCEPT !.ended = yes]
      OBVIOUS
    <3>7. sv2 \in Sieves
      BY <2>3, <3>1
    <3>8. u \in States /\ u.out = w.out
      BY <3>4, <3>6, <3>7 DEF States
    <3>9. where \in {"", "stream"} /\ yes \in BOOLEAN
      BY <3>1
    <3>10. v \in States /\ v.out = u.out
      BY <3>6, <3>8, <3>9 DEF States
    <3>11. x \in States /\ x.out = v.out
      BY <3>6, <3>9, <3>10 DEF States
    <3>12. x.ended
      BY <3>1, <3>6, <3>10 DEF States
    <3>13. [w EXCEPT !.sieve = sv2, !.called = where, !.ended = yes] = x
      BY <3>6
    <3>14. Reading(c, before, given, x)
      BY <1>1, <3>5, <3>8, <3>10, <3>11, <3>12 DEF Reading
    <3> QED BY <1>1, <3>2, <3>13, <3>14
  <2>5. CASE ~fed.found
    <3>1. PICK safe, r, w, sv2, x :
            /\ safe = fed.safe /\ r = Text(api, l, safe) /\ w = Sent(shut, r) /\ sv2 = fed.sieve
            /\ x = [w EXCEPT !.sieve = sv2]
      OBVIOUS
    <3>2. HandleText(c, st, s) = x
      BY <1>1, <1>5, <1>6, <1>10, <2>1, <2>5, <3>1 DEF HandleText
    <3>3. safe \in Seq(Pieces) /\ sv2 \in Sieves
      BY <2>3, <3>1
    <3>4. Sending(r, safe)
      BY <1>2, <1>7, <3>1, <3>3, TextSends
    <3>5. Issues(r) /\ r.out \in Seq(Chunks) /\ Delivered(r.out) = safe
      BY <3>4 DEF Sending, Issues
    <3>6. w \in States /\ w.out = p \o r.out /\ w.called = "" /\ ~w.ended
      BY <1>5, <1>6, <3>1, <3>5, SentIs
    <3>7. x \in States /\ x.out = w.out /\ x.called = w.called /\ x.ended = w.ended /\ x.sieve = sv2
      BY <3>1, <3>3, <3>6 DEF States
    <3>8. before \o Delivered(x.out) = sent \o safe
      <4>1. PICK q : q = r.out
        OBVIOUS
      <4>2. q \in Seq(Chunks) /\ Delivered(q) = safe /\ x.out = p \o q
        BY <3>5, <3>6, <3>7, <4>1
      <4>3. before \o Delivered(p \o q) = (before \o Delivered(p)) \o Delivered(q)
        BY <1>7, <4>2, DeliveredMore
      <4> QED BY <1>6, <4>2, <4>3
    <3>9. PICK b, b2 : b = sv.buf /\ b2 = sv2.buf
      OBVIOUS
    <3>10. b \in Seq(Pieces) /\ b2 \in Seq(Pieces)
      BY <1>5, <3>3, <3>9 DEF Sieves
    <3>11. (sent \o safe) \o b2 = given
      <4>0. sent \in Seq(Pieces) /\ safe \in Seq(Pieces) /\ b2 \in Seq(Pieces)
        BY <1>8, <3>3, <3>10
      <4>1. (sent \o safe) \o b2 = sent \o (safe \o b2)
        BY <4>0, TextsAssociate, Zenon
      <4>2. safe \o b2 = b \o s
        BY <2>3, <2>5, <3>1, <3>9
      <4>3. (sent \o b) \o s = sent \o (b \o s)
        BY <1>8, <3>10, TextsAssociate
      <4>4. sent \o b = whole
        BY <1>8, <3>9 DEF Holds
      <4> QED BY <1>1, <4>1, <4>2, <4>3, <4>4, Zenon
    <3>12. Holds(c, sv2, sent \o safe, given)
      BY <1>10, <2>3, <2>5, <3>1, <3>9, <3>11 DEF Holds
    <3>13. Reading(c, before, given, x)
      BY <3>6, <3>7, <3>8, <3>12 DEF Reading
    <3> QED BY <1>1, <3>2, <3>13
  <2> QED BY <2>4, <2>5
<1> QED BY <1>9, <1>10

LEMMA HandleStep ==
  ASSUME NEW c \in Configs, NEW before \in Seq(Pieces), NEW whole \in Seq(Pieces), NEW st,
         Reading(c, before, whole, st), NEW ev \in AdapterEvents, c.api \in Grok \/ ev.kind = "text"
  PROVE  Reading(c, before, whole \o (IF ev.kind = "text" THEN ev.s ELSE <<>>), Handle(c, st, ev))
<1>1. PICK kind, s, given : kind = ev.kind /\ s = ev.s /\ given = whole \o (IF kind = "text" THEN s ELSE <<>>)
  OBVIOUS
<1>2. s \in Seq(Pieces) /\ kind \in {"text", "thinking", "annotation", "soft_stop", "image"}
  BY <1>1 DEF AdapterEvents
<1>3. kind # "text" => given = whole
  <2>1. whole \o <<>> = whole
    OBVIOUS
  <2> QED BY <1>1, <2>1
<1>4. st \in States /\ st.h \in Locals
  BY DEF Reading, States
<1>5. CASE st.ended
  <2>1. Handle(c, st, ev) = st
    BY <1>5 DEF Handle
  <2>2. Reading(c, before, given, st)
    BY <1>5 DEF Reading
  <2> QED BY <1>1, <2>1, <2>2
<1>6. CASE ~st.ended /\ kind = "text"
  <2>1. Handle(c, st, ev) = HandleText(c, st, s)
    BY <1>1, <1>6 DEF Handle
  <2>2. Reading(c, before, whole \o s, HandleText(c, st, s))
    BY <1>2, <1>6, TextStep
  <2>3. given = whole \o s
    BY <1>1, <1>6
  <2> QED BY <1>1, <2>1, <2>2, <2>3
<1>7. CASE ~st.ended /\ kind = "thinking" /\ c.think
  <2>1. Handle(c, st, ev) = Sent(st, Thinking(c.api, st.h))
    BY <1>1, <1>7 DEF Handle
  <2>2. Sending(Thinking(c.api, st.h), <<>>)
    BY <1>1, <1>4, <1>7, ThinkingSends
  <2>3. Reading(c, before, whole, Sent(st, Thinking(c.api, st.h)))
    BY <1>7, <2>2, QuietStep
  <2> QED BY <1>1, <1>3, <1>7, <2>1, <2>3
<1>8. CASE ~st.ended /\ kind = "annotation"
  <2>1. Handle(c, st, ev) = Sent(st, Note(c.api, st.h))
    BY <1>1, <1>8 DEF Handle
  <2>2. Sending(Note(c.api, st.h), <<>>)
    BY <1>1, <1>4, <1>8, NoteSends
  <2>3. Reading(c, before, whole, Sent(st, Note(c.api, st.h)))
    BY <1>8, <2>2, QuietStep
  <2> QED BY <1>1, <1>3, <1>8, <2>1, <2>3
<1>9. CASE ~st.ended /\ ((kind = "thinking" /\ ~c.think) \/ kind = "image")
  <2>1. Handle(c, st, ev) = st
    BY <1>1, <1>9 DEF Handle
  <2> QED BY <1>1, <1>3, <1>9, <2>1
<1>10. CASE ~st.ended /\ kind = "soft_stop"
  <2>1. PICK yes, u : yes = TRUE /\ u = [st EXCEPT !.ended = yes]
    OBVIOUS
  <2>2. Handle(c, st, ev) = u
    BY <1>1, <1>10, <2>1 DEF Handle
  <2>3. yes \in BOOLEAN
    BY <2>1
  <2>4. u \in States /\ u.called = st.called /\ u.out = st.out
    BY <1>4, <2>1, <2>3 DEF States
  <2>5. u.ended
    BY <1>4, <2>1 DEF States
  <2>6. Reading(c, before, given, u)
    BY <1>10, <2>4, <2>5 DEF Reading
  <2> QED BY <1>1, <2>2, <2>6
<1> QED BY <1>2, <1>5, <1>6, <1>7, <1>8, <1>9, <1>10

(* The whole frame *)
LEMMA HandledReads ==
  ASSUME NEW c \in Configs, NEW before \in Seq(Pieces), NEW whole \in Seq(Pieces), NEW st,
         Reading(c, before, whole, st), NEW events \in Seq(AdapterEvents),
         \A i \in 1..Len(events) : /\ c.api \in Grok \/ events[i].kind = "text"
                                   /\ i > 1 => events[i].kind # "text"
  PROVE  Reading(c, before, whole \o TextOf(events), Handled(c, st, events))
<1>1. PICK r : Runs("handle", c, st, events, r) /\ Handled(c, st, events) = r[Len(events)]
  BY HandleRuns
<1>2. PICK n, said, given : n = Len(events) /\ said = TextOf(events) /\ given = whole \o said
  OBVIOUS
<1>3. n \in Nat
  BY <1>2
<1>4. \A i \in 1..n : events[i] \in AdapterEvents
  BY <1>2
<1>5. said \in Seq(Pieces)
  <2>1. CASE events # <<>> /\ events[1].kind = "text"
    <3>1. events[1] \in AdapterEvents
      BY <2>1
    <3>2. said = events[1].s
      BY <1>2, <2>1 DEF TextOf
    <3> QED BY <3>1, <3>2 DEF AdapterEvents
  <2>2. CASE ~(events # <<>> /\ events[1].kind = "text")
    <3>1. said = <<>>
      BY <1>2, <2>2 DEF TextOf
    <3> QED BY <3>1, NoText
  <2> QED BY <2>1, <2>2
<1>6. given \in Seq(Pieces)
  BY <1>2, <1>5
<1> DEFINE Upto(i) == IF i = 0 THEN whole ELSE given
           S == {i \in Nat : Reading(c, before, Upto(i), r[i])}
<1>7. 0 \in S
  BY <1>1 DEF Runs
<1>8. ASSUME NEW i \in 0..n - 1, i \in S PROVE i + 1 \in S
  <2>1. i \in Nat /\ i + 1 \in 1..Len(events) /\ (i + 1) - 1 = i /\ i + 1 # 0 /\ i + 1 \in Nat
    BY <1>2, <1>3
  <2>2. PICK ev : ev = events[i + 1]
    OBVIOUS
  <2>3. ev \in AdapterEvents /\ (c.api \in Grok \/ ev.kind = "text") /\ (i # 0 => ev.kind # "text")
    BY <1>2, <1>4, <2>1, <2>2
  <2>4. r[i + 1] = Handle(c, r[i], ev)
    BY <1>1, <2>1, <2>2, StepIs DEF Runs
  <2>5. Upto(i) \in Seq(Pieces)
    BY <1>6
  <2>6. Reading(c, before, Upto(i), r[i])
    BY <1>8
  <2>7. PICK soon, now : soon = Upto(i) /\ now = r[i]
    OBVIOUS
  <2>8. soon \in Seq(Pieces) /\ Reading(c, before, soon, now)
    BY <2>5, <2>6, <2>7
  <2>9. Reading(c, before, soon \o (IF ev.kind = "text" THEN ev.s ELSE <<>>), Handle(c, now, ev))
    BY <2>3, <2>8, HandleStep
  <2>10. soon \o (IF ev.kind = "text" THEN ev.s ELSE <<>>) = given
    <3>1. CASE i = 0
      <4>1. (IF ev.kind = "text" THEN ev.s ELSE <<>>) = said
        <5>1. events # <<>> /\ ev = events[1]
          BY <2>1, <2>2, <3>1
        <5> QED BY <1>2, <5>1 DEF TextOf
      <4>2. soon = whole
        BY <2>7, <3>1
      <4> QED BY <1>2, <4>1, <4>2
    <3>2. CASE i # 0
      <4>1. (IF ev.kind = "text" THEN ev.s ELSE <<>>) = <<>> /\ soon = given
        BY <2>3, <2>7, <3>2
      <4>2. given \o <<>> = given
        BY <1>6
      <4> QED BY <4>1, <4>2
    <3> QED BY <3>1, <3>2
  <2>11. Upto(i + 1) = given
    BY <2>1
  <2>12. Reading(c, before, Upto(i + 1), r[i + 1])
    BY <2>4, <2>7, <2>9, <2>10, <2>11
  <2> HIDE DEF Upto
  <2> QED BY <2>1, <2>12
<1> HIDE DEF S
<1>9. n \in S
  <2>1. \A i \in 0..n : i \in S
    BY <1>3, <1>7, <1>8, UpTo
  <2> QED BY <1>3, <2>1
<1>10. Reading(c, before, Upto(n), r[n])
  BY <1>9 DEF S
<1>11. Upto(n) = given
  <2>1. CASE n = 0
    <3>1. events = <<>>
      <4>1. Len(events) = 0
        BY <1>2, <2>1
      <4> QED BY <4>1, EmptySeq
    <3>2. said = <<>>
      BY <1>2, <3>1 DEF TextOf
    <3>3. whole \o <<>> = whole
      OBVIOUS
    <3> QED BY <1>2, <2>1, <3>2, <3>3
  <2>2. CASE n # 0
    BY <2>2
  <2> QED BY <2>1, <2>2
<1> QED BY <1>1, <1>2, <1>10, <1>11

LEMMA NoChunks == <<>> \in Seq(Chunks)
OBVIOUS

LEMMA Freshly ==
  ASSUME NEW c, NEW before \in Seq(Pieces), NEW whole, NEW l \in Locals, NEW sv \in Sieves,
         Holds(c, sv, before, whole)
  PROVE  Reading(c, before, whole,
                 [h |-> l, sieve |-> sv, called |-> "", ended |-> FALSE, out |-> <<>>])
<1>1. PICK where, no, none : where = "" /\ no = FALSE /\ none = <<>>
  OBVIOUS
<1>2. where \in {"", "stream"} /\ no \in BOOLEAN
  BY <1>1
<1>3. none \in Seq(Chunks)
  BY <1>1, NoChunks
<1>4. PICK st : st = [h |-> l, sieve |-> sv, called |-> where, ended |-> no, out |-> none]
  OBVIOUS
<1>5. st \in States
  BY <1>2, <1>3, <1>4 DEF States
<1>6. st.called = where /\ st.sieve = sv /\ st.out = none
  BY <1>4
<1>7. before \o Delivered(none) = before
  <2>1. before \o <<>> = before
    OBVIOUS
  <2>2. Delivered(none) = <<>>
    BY <1>1, DeliveredNone
  <2> QED BY <2>1, <2>2
<1>8. Reading(c, before, whole, st)
  BY <1>1, <1>5, <1>6, <1>7 DEF Reading
<1> QED BY <1>1, <1>4, <1>8

-----------------------------------------------------------------------------
(* What the client has or is about to get of the attempt under way: the     *)
(* text of the upstream while the attempt reads, a finished answer when it  *)
(* succeeds, an error when it is given up.                                  *)
Going == Current \o queue

ClientTypes ==
  /\ out \in Seq(Chunks) /\ queue \in Seq(Chunks) /\ mark \in 0..Len(out)
  /\ h \in Locals /\ sieve \in Sieves

Reads == pc = "read" => called = "" /\ Holds(cfg, sieve, Delivered(Going), adapter.text)

Flushes ==
  pc = "flush" => /\ called \in {"", "stream"}
                  /\ cfg.api = "chat" /\ called = "stream" => Finished(Going)

Complete == pc = "sent" \/ success
GivenUp  == pc = "closing" \/ (pc = "done" /\ ~gone /\ ~success)

Ends ==
  cfg.api \notin Build =>
    /\ Complete => Finished(Going)
    /\ GivenUp => \E i \in 1..Len(Going) : Going[i] = Error

ClientInv == cfg.stream => ClientTypes /\ Reads /\ Flushes /\ Ends

LEMMA YieldSame ==
  ASSUME NEW o \in Seq(Chunks), NEW q \in Seq(Chunks), NEW m \in 0..Len(o), q # <<>>
  PROVE  /\ Append(o, Head(q)) \in Seq(Chunks) /\ Tail(q) \in Seq(Chunks)
         /\ m \in 0..Len(Append(o, Head(q)))
         /\ SubSeq(Append(o, Head(q)), m + 1, Len(Append(o, Head(q)))) \o Tail(q)
              = SubSeq(o, m + 1, Len(o)) \o q
<1>1. PICK n, k, e, t, o2, a, b :
        /\ n = Len(o) /\ k = Len(q) /\ e = Head(q) /\ t = Tail(q) /\ o2 = Append(o, e)
        /\ a = SubSeq(o, m + 1, n) /\ b = SubSeq(o2, m + 1, n + 1)
  OBVIOUS
<1>2. n \in Nat /\ k \in Nat /\ k > 0 /\ m \in Nat /\ m <= n
  BY <1>1
<1>3. e \in Chunks /\ e = q[1] /\ t \in Seq(Chunks) /\ Len(t) = k - 1 /\ \A i \in 1..k - 1 : t[i] = q[i + 1]
  BY <1>1, HeadTailProperties
<1>4. /\ o2 \in Seq(Chunks) /\ Len(o2) = n + 1 /\ o2[n + 1] = e /\ \A i \in 1..n : o2[i] = o[i]
  BY <1>1, <1>3, AppendProperties
<1>5. /\ a \in Seq(Chunks) /\ Len(a) = n - m /\ \A i \in 1..n - m : a[i] = o[m + i]
  <2>1. m + 1 \in Int /\ n \in Int /\ \A i \in m + 1..n : o[i] \in Chunks
    BY <1>1, <1>2
  <2>2. /\ a \in Seq(Chunks) /\ Len(a) = IF m + 1 <= n THEN n - (m + 1) + 1 ELSE 0
        /\ \A i \in 1..n - (m + 1) + 1 : a[i] = o[m + 1 + i - 1]
    BY <1>1, <2>1, SubSeqProperties
  <2> QED BY <1>2, <2>2
<1>6. /\ b \in Seq(Chunks) /\ Len(b) = n + 1 - m /\ \A i \in 1..n + 1 - m : b[i] = o2[m + i]
  <2>1. m + 1 \in Int /\ n + 1 \in Int /\ \A i \in m + 1..n + 1 : o2[i] \in Chunks
    BY <1>2, <1>4
  <2>2. /\ b \in Seq(Chunks) /\ Len(b) = IF m + 1 <= n + 1 THEN n + 1 - (m + 1) + 1 ELSE 0
        /\ \A i \in 1..n + 1 - (m + 1) + 1 : b[i] = o2[m + 1 + i - 1]
    BY <1>1, <2>1, SubSeqProperties
  <2> QED BY <1>2, <2>2
<1>7. PICK v, w, j : v = b \o t /\ w = a \o q /\ j = n - m
  OBVIOUS
<1>8. /\ v \in Seq(Chunks) /\ Len(v) = j + k
      /\ \A i \in 1..j + k : v[i] = IF i <= j + 1 THEN b[i] ELSE t[i - (j + 1)]
  <2>1. /\ v \in Seq(Chunks) /\ Len(v) = Len(b) + Len(t)
        /\ \A i \in 1..Len(b) + Len(t) : v[i] = IF i <= Len(b) THEN b[i] ELSE t[i - Len(b)]
    BY <1>3, <1>6, <1>7, ConcatProperties
  <2>2. Len(b) = j + 1 /\ Len(b) + Len(t) = j + k
    <3>1. j \in Nat /\ n + 1 - m = j + 1
      BY <1>2, <1>7
    <3>2. Len(b) = n + 1 - m /\ Len(t) = k - 1
      BY <1>3, <1>6
    <3>3. Len(b) = j + 1
      BY <3>1, <3>2, Zenon
    <3>4. (j + 1) + (k - 1) = j + k
      BY <1>2, <3>1
    <3> QED BY <3>2, <3>3, <3>4, Zenon
  <2> QED BY <2>1, <2>2
<1>9. /\ w \in Seq(Chunks) /\ Len(w) = j + k
      /\ \A i \in 1..j + k : w[i] = IF i <= j THEN a[i] ELSE q[i - j]
  <2>1. /\ w \in Seq(Chunks) /\ Len(w) = Len(a) + Len(q)
        /\ \A i \in 1..Len(a) + Len(q) : w[i] = IF i <= Len(a) THEN a[i] ELSE q[i - Len(a)]
    BY <1>5, <1>7, ConcatProperties
  <2>2. Len(a) = j /\ Len(q) = k
    BY <1>1, <1>5, <1>7
  <2> QED BY <2>1, <2>2
<1>10. ASSUME NEW i \in 1..j + k PROVE v[i] = w[i]
  <2>0. j \in Nat /\ m + j = n
    BY <1>2, <1>7
  <2>1. CASE i <= j
    <3>1. i \in 1..n - m /\ i \in 1..n + 1 - m /\ m + i \in 1..n
      BY <1>2, <1>7, <2>1
    <3>2. v[i] = b[i] /\ w[i] = a[i]
      BY <1>8, <1>9, <2>0, <2>1
    <3> QED BY <1>4, <1>5, <1>6, <3>1, <3>2
  <2>2. CASE i = j + 1
    <3>1. i \in 1..n + 1 - m /\ m + i = n + 1 /\ i - j = 1
      BY <1>2, <1>7, <2>2
    <3>2. v[i] = b[i] /\ w[i] = q[i - j]
      <4>1. i \in 1..j + k /\ i <= j + 1 /\ ~(i <= j)
        BY <2>0, <2>2
      <4>2. v[i] = b[i]
        BY <1>8, <4>1, Zenon
      <4>3. w[i] = q[i - j]
        BY <1>9, <4>1
      <4> QED BY <4>2, <4>3, Zenon
    <3> QED BY <1>3, <1>4, <1>6, <3>1, <3>2
  <2>3. CASE i > j + 1
    <3>1. i - (j + 1) \in 1..k - 1 /\ (i - (j + 1)) + 1 = i - j
      BY <1>2, <2>0, <2>3
    <3>2. v[i] = t[i - (j + 1)] /\ w[i] = q[i - j]
      BY <1>8, <1>9, <2>0, <2>3
    <3> QED BY <1>3, <3>1, <3>2
  <2> QED BY <2>0, <2>1, <2>2, <2>3
<1>11. v = w
  BY <1>8, <1>9, <1>10, SeqEqual
<1>12. m \in 0..n + 1
  BY <1>2
<1> QED BY <1>1, <1>3, <1>4, <1>7, <1>11, <1>12

LEMMA CurrentIs ==
  ASSUME NEW o \in Seq(Chunks), NEW m \in 0..Len(o)
  PROVE  SubSeq(o, m + 1, Len(o)) \in Seq(Chunks) /\ SubSeq(o, Len(o) + 1, Len(o)) = <<>>
<1>1. Len(o) \in Nat
  OBVIOUS
<1>2. \A i \in m + 1..Len(o) : o[i] \in Chunks
  BY <1>1
<1> QED BY <1>1, <1>2, SubSeqProperties, SubSeqEmpty

(* An error at the end *)
LEMMA GivesUp ==
  ASSUME NEW p \in Seq(Chunks)
  PROVE  /\ <<Error, End>> \in Seq(Chunks)
         /\ \E i \in 1..Len(p \o <<Error, End>>) : (p \o <<Error, End>>)[i] = Error
<1>1. PICK e, f, q, r : e = Error /\ f = End /\ q = <<e, f>> /\ r = p \o q
  OBVIOUS
<1>2. e \in Chunks /\ f \in Chunks
  BY <1>1, OtherChunks
<1>3. q \in Seq(Chunks) /\ Len(q) = 2 /\ q[1] = e
  BY <1>1, <1>2
<1>4. /\ Len(r) = Len(p) + 2 /\ Len(p) \in Nat
      /\ \A i \in 1..Len(p) + 2 : r[i] = IF i <= Len(p) THEN p[i] ELSE q[i - Len(p)]
  BY <1>1, <1>3, ConcatProperties
<1>5. Len(p) + 1 \in 1..Len(p) + 2 /\ ~(Len(p) + 1 <= Len(p)) /\ (Len(p) + 1) - Len(p) = 1
  BY <1>4
<1>6. r[Len(p) + 1] = e
  BY <1>3, <1>4, <1>5
<1>7. \E i \in 1..Len(r) : r[i] = e
  BY <1>4, <1>5, <1>6
<1> QED BY <1>1, <1>3, <1>7

LEMMA NewIs ==
  /\ NewLocals \in Locals /\ NewSieve \in Sieves
  /\ NewAdapter.text = <<>> /\ NewConsole.text = <<>>
<1>1. NewLocals \in Locals
  <2>1. PICK no, zero : no = FALSE /\ zero = 0
    OBVIOUS
  <2>2. no \in BOOLEAN
    BY <2>1
  <2>3. zero \in Nat
    BY <2>1
  <2>4. [thinking |-> no, closed |-> no, text |-> no, index |-> zero, notes |-> zero] \in Locals
    BY <2>2, <2>3 DEF Locals
  <2>5. NewLocals = [thinking |-> no, closed |-> no, text |-> no, index |-> zero, notes |-> zero]
    BY <2>1 DEF NewLocals
  <2> QED BY <2>4, <2>5
<1>2. NewSieve \in Sieves
  <2>1. PICK no, none : no = FALSE /\ none = <<>>
    OBVIOUS
  <2>2. no \in BOOLEAN
    BY <2>1
  <2>3. none \in Seq(Pieces)
    BY <2>1, NoText
  <2>4. PICK g : g = [buf |-> none, capturing |-> no, done |-> no]
    OBVIOUS
  <2>5. g \in Sieves
    BY <2>2, <2>3, <2>4, SieveIs
  <2>6. NewSieve = g
    BY <2>1, <2>4 DEF NewSieve
  <2> QED BY <2>5, <2>6
<1>3. NewAdapter.text = <<>> /\ NewConsole.text = <<>>
  BY DEF NewAdapter, NewConsole
<1> QED BY <1>1, <1>2, <1>3

LEMMA NothingHeld ==
  ASSUME NEW c
  PROVE  Holds(c, NewSieve, <<>>, <<>>)
<1>1. PICK none : none = <<>>
  OBVIOUS
<1>2. none \in Seq(Pieces) /\ Len(none) = 0
  BY <1>1
<1>3. none \o none = none
  BY <1>1
<1>4. NewSieve.buf = none /\ ~NewSieve.done /\ ~NewSieve.capturing
  BY <1>1 DEF NewSieve
<1>5. Openings(none) = {}
  BY <1>2 DEF Openings
<1>6. Leftover(none) = none
  BY <1>1 DEF Leftover
<1>7. Buffers(NewSieve, none)
  BY <1>3, <1>4, <1>5, <1>6 DEF Buffers
<1>8. Holds(c, NewSieve, none, none)
  BY <1>3, <1>4, <1>7 DEF Holds
<1> QED BY <1>1, <1>8

LEMMA GoingIs ==
  ASSUME ClientTypes
  PROVE  /\ Current \in Seq(Chunks) /\ Going \in Seq(Chunks) /\ Delivered(Going) \in Seq(Pieces)
         /\ queue = <<>> => Going = Current
<1>1. Current \in Seq(Chunks)
  BY CurrentIs DEF ClientTypes, Current
<1>2. PICK c : c = Current
  OBVIOUS
<1>3. c \in Seq(Chunks) /\ queue \in Seq(Chunks)
  BY <1>1, <1>2 DEF ClientTypes
<1>4. Going \in Seq(Chunks)
  BY <1>2, <1>3 DEF Going
<1>5. queue = <<>> => c \o queue = c
  BY <1>3
<1> QED BY <1>1, <1>2, <1>4, <1>5, DeliveredConcat DEF Going

LEMMA ClientInit == Init => ClientInv
<1> SUFFICES ASSUME Init, cfg.stream PROVE ClientTypes /\ Reads /\ Flushes /\ Ends
  BY DEF ClientInv
<1>1. /\ pc = "reserve" /\ success = FALSE /\ sieve = NewSieve /\ h = NewLocals /\ mark = 0
      /\ queue = <<>> /\ out = <<>>
  BY DEF Init
<1>2. ClientTypes
  <2>1. out \in Seq(Chunks) /\ queue \in Seq(Chunks)
    BY <1>1, NoChunks
  <2>2. mark \in 0..Len(out)
    <3>1. Len(out) = 0
      BY <1>1
    <3> QED BY <1>1, <3>1
  <2> QED BY <1>1, <2>1, <2>2, NewIs DEF ClientTypes
<1> QED BY <1>1, <1>2 DEF Reads, Flushes, Ends, Complete, GivenUp

(* Steps that send nothing *)
LEMMA ClientStays ==
  ASSUME ClientInv, UNCHANGED <<cfg, out, queue, mark, h, sieve, called, adapter>>,
         pc' = "read" => pc = "read", pc' = "flush" => pc \in {"read", "flush"},
         Complete' => Complete, GivenUp' => GivenUp
  PROVE  ClientInv'
<1> SUFFICES ASSUME cfg.stream PROVE ClientTypes' /\ Reads' /\ Flushes' /\ Ends'
  BY DEF ClientInv
<1>1. ClientTypes /\ Reads /\ Flushes /\ Ends
  BY DEF ClientInv
<1>2. Going' = Going
  BY DEF Going, Current
<1>3. ClientTypes'
  BY <1>1 DEF ClientTypes
<1>4. Reads'
  BY <1>1, <1>2 DEF Reads
<1>5. Flushes'
  BY <1>1, <1>2 DEF Flushes, Reads
<1>6. Ends'
  BY <1>1, <1>2 DEF Ends
<1> QED BY <1>3, <1>4, <1>5, <1>6

LEMMA ClientReserve ==
  ASSUME AdapterInv, ClientInv, Reserve, cfg.stream
  PROVE  ClientTypes' /\ Reads' /\ Flushes' /\ Ends'
<1>1. /\ pc' = "read" /\ success' = FALSE /\ cfg' = cfg /\ out' = out /\ sieve' = NewSieve
      /\ h' = NewLocals /\ called' = "" /\ mark' = Len(out)
      /\ adapter' = IF cfg.api \in Grok THEN NewAdapter ELSE NewConsole
      /\ queue' = Opening(cfg.api) \/ queue' = <<>>
  BY DEF Reserve
<1>2. cfg.api \in Grok \cup Console \cup Build
  BY ConfigsAssumption DEF AdapterInv
<1>3. queue' \in Seq(Chunks) /\ Delivered(queue') = <<>>
  BY <1>1, <1>2, OpeningSends, NoChunks, DeliveredNone
<1>4. out \in Seq(Chunks) /\ Len(out) \in Nat
  BY DEF ClientInv, ClientTypes
<1>5. ClientTypes'
  <2>1. Len(out) \in 0..Len(out)
    BY <1>4
  <2>2. mark' \in 0..Len(out') /\ out' \in Seq(Chunks)
    BY <1>1, <1>4, <2>1
  <2>3. h' \in Locals /\ sieve' \in Sieves
    BY <1>1, NewIs
  <2> QED BY <1>3, <2>2, <2>3 DEF ClientTypes
<1>6. Delivered(Going') = <<>>
  <2>1. PICK c, q : c = SubSeq(out, Len(out) + 1, Len(out)) /\ q = queue'
    OBVIOUS
  <2>2. 0 \in 0..Len(out)
    BY <1>4
  <2>3. c = <<>>
    BY <1>4, <2>1, <2>2, CurrentIs
  <2>4. c \o q = q
    BY <1>3, <2>1, <2>3
  <2>5. Going' = c \o q
    BY <1>1, <2>1 DEF Going, Current
  <2> QED BY <1>3, <2>1, <2>4, <2>5
<1>7. adapter'.text = <<>>
  BY <1>1, NewIs
<1>8. Reads'
  <2>1. Holds(cfg, NewSieve, <<>>, <<>>)
    BY NothingHeld
  <2>2. Delivered(Going)' = <<>>
    BY <1>6
  <2> QED BY <1>1, <1>7, <2>1, <2>2 DEF Reads
<1>9. Flushes' /\ Ends'
  BY <1>1 DEF Flushes, Ends, Complete, GivenUp
<1> QED BY <1>5, <1>8, <1>9

LEMMA ClientYield ==
  ASSUME ClientInv, Yield
  PROVE  ClientInv'
<1> SUFFICES ASSUME cfg.stream PROVE ClientTypes' /\ Reads' /\ Flushes' /\ Ends'
  BY DEF ClientInv, Yield
<1>1. /\ queue # <<>> /\ out' = Append(out, Head(queue)) /\ queue' = Tail(queue)
      /\ UNCHANGED <<cfg, pc, mark, h, sieve, called, adapter, success, gone>>
  BY DEF Yield, loop, reader
<1>2. ClientTypes /\ Reads /\ Flushes /\ Ends
  BY DEF ClientInv, Yield
<1>3. ClientTypes' /\ Going' = Going
  <2>1. /\ out' \in Seq(Chunks) /\ queue' \in Seq(Chunks) /\ mark \in 0..Len(out')
        /\ SubSeq(out', mark + 1, Len(out')) \o queue' = SubSeq(out, mark + 1, Len(out)) \o queue
    BY <1>1, <1>2, YieldSame DEF ClientTypes
  <2>2. Going' = Going
    BY <1>1, <2>1 DEF Going, Current
  <2> QED BY <1>1, <1>2, <2>1, <2>2 DEF ClientTypes
<1>4. Reads'
  BY <1>1, <1>2, <1>3 DEF Reads
<1>5. Flushes'
  BY <1>1, <1>2, <1>3 DEF Flushes
<1>6. Ends'
  BY <1>1, <1>2, <1>3 DEF Ends, Complete, GivenUp
<1> QED BY <1>3, <1>4, <1>5, <1>6

(* What leaves when the attempt is given up *)
LEMMA ClientRaises ==
  ASSUME ClientTypes, cfg.stream, Raise, queue = <<>>, ~success, success' = success,
         UNCHANGED <<cfg, out, mark, h, sieve>>
  PROVE  ClientTypes' /\ Reads' /\ Flushes' /\ Ends'
<1>1. pc' = "closing" /\ queue' = <<Error, End>>
  BY DEF Raise
<1>2. PICK c : c = Current
  OBVIOUS
<1>3. c \in Seq(Chunks)
  BY <1>2, GoingIs
<1>4. Going' = c \o <<Error, End>>
  BY <1>1, <1>2 DEF Going, Current
<1>5. queue' \in Seq(Chunks) /\ \E i \in 1..Len(Going') : Going'[i] = Error
  BY <1>1, <1>3, <1>4, GivesUp
<1>6. ClientTypes'
  BY <1>5 DEF ClientTypes
<1>7. Reads' /\ Flushes'
  BY <1>1 DEF Reads, Flushes
<1>8. ~Complete'
  BY <1>1 DEF Complete
<1>9. Ends'
  BY <1>5, <1>8 DEF Ends
<1> QED BY <1>6, <1>7, <1>9

LEMMA ClientRead ==
  ASSUME AdapterInv, LoopInv, ClientInv, cfg.stream, NEW f \in Frames(cfg), Read(f)
  PROVE  ClientTypes' /\ Reads' /\ Flushes' /\ Ends'
<1>1. PICK fed, st :
        /\ fed = FedBy(f)
        /\ st = Handled(cfg, [h |-> h, sieve |-> sieve, called |-> "", ended |-> FALSE, out |-> <<>>],
                        fed.events)
  OBVIOUS
<1>2. /\ pc = "read" /\ queue = <<>> /\ adapter' = fed.a
      /\ h' = st.h /\ sieve' = st.sieve /\ called' = st.called /\ queue' = st.out
      /\ pc' = (IF st.ended \/ (cfg.api \in Build /\ f.k = "stop") THEN "flush" ELSE "read")
      /\ UNCHANGED <<cfg, success, out, mark>>
  BY <1>1 DEF Read, loop
<1>3. ClientTypes /\ Reads /\ cfg \in Configs
  BY DEF ClientInv, AdapterInv
<1>4. PICK c, before, whole, events : /\ c = Current /\ before = Delivered(c) /\ whole = adapter.text
                                      /\ events = fed.events
  OBVIOUS
<1>5. c \in Seq(Chunks) /\ before \in Seq(Pieces) /\ Delivered(Going) = before
  BY <1>2, <1>3, <1>4, GoingIs
<1>6. Holds(cfg, sieve, before, whole)
  BY <1>2, <1>3, <1>4, <1>5 DEF Reads
<1>7. whole \in Seq(Pieces) /\ events \in Seq(AdapterEvents) /\ fed.a.text = whole \o TextOf(events)
  <2>1. CASE cfg.api \in Grok
    <3>1. Feeds(adapter, fed, f.k = "token")
      BY <1>1, <1>2, <2>1, ReadFeeds
    <3>2. IsAdapter(adapter)
      BY <2>1 DEF AdapterInv
    <3> QED BY <1>4, <3>1, <3>2 DEF Feeds, IsAdapter
  <2>2. CASE cfg.api \notin Grok
    <3>1. Tells(adapter, fed)
      BY <1>1, <1>2, <2>2, ReadFeeds
    <3>2. IsConsole(adapter)
      BY <1>2, <2>2 DEF AdapterInv
    <3> QED BY <1>4, <3>1, <3>2 DEF Tells, IsConsole
  <2> QED BY <2>1, <2>2
<1>8. \A i \in 1..Len(events) : /\ cfg.api \in Grok \/ events[i].kind = "text"
                                /\ i > 1 => events[i].kind # "text"
  <2>1. CASE cfg.api \in Grok
    <3>1. Feeds(adapter, fed, f.k = "token")
      BY <1>1, <1>2, <2>1, ReadFeeds
    <3> QED BY <1>4, <2>1, <3>1 DEF Feeds
  <2>2. CASE cfg.api \notin Grok
    <3>1. Tells(adapter, fed)
      BY <1>1, <1>2, <2>2, ReadFeeds
    <3> QED BY <1>4, <3>1 DEF Tells
  <2> QED BY <2>1, <2>2
<1>9. Reading(cfg, before, whole \o TextOf(events), st)
  <2>1. PICK l, sv, b : /\ l = h /\ sv = sieve
                        /\ b = [h |-> l, sieve |-> sv, called |-> "", ended |-> FALSE, out |-> <<>>]
    OBVIOUS
  <2>2. l \in Locals /\ sv \in Sieves
    BY <1>3, <2>1 DEF ClientTypes
  <2>3. Holds(cfg, sv, before, whole)
    BY <1>6, <2>1
  <2>4. PICK req : req = cfg
    OBVIOUS
  <2>5. Reading(req, before, whole, b)
    BY <1>5, <2>1, <2>2, <2>3, <2>4, Freshly
  <2>6. Reading(req, before, whole \o TextOf(events), Handled(req, b, events))
    BY <1>3, <1>5, <1>7, <1>8, <2>4, <2>5, HandledReads
  <2> QED BY <1>1, <1>4, <2>1, <2>4, <2>6
<1>10. st \in States
  BY <1>9 DEF Reading
<1>11. PICK more : more = st.out
  OBVIOUS
<1>12. more \in Seq(Chunks) /\ st.h \in Locals /\ st.sieve \in Sieves /\ st.called \in {"", "stream"}
  BY <1>10, <1>11 DEF States
<1>13. ClientTypes'
  BY <1>2, <1>3, <1>11, <1>12 DEF ClientTypes
<1>14. Going' = c \o more
  BY <1>2, <1>4, <1>11 DEF Going, Current
<1>15. Reads'
  <2> SUFFICES ASSUME pc' = "read" PROVE called' = "" /\ Holds(cfg', sieve', Delivered(Going)', adapter'.text)
    BY DEF Reads
  <2>1. ~st.ended
    BY <1>2
  <2>2. st.called = "" /\ Holds(cfg, st.sieve, before \o Delivered(more), whole \o TextOf(events))
    BY <1>9, <1>11, <1>12, <2>1 DEF Reading
  <2>3. Delivered(c \o more) = before \o Delivered(more)
    BY <1>4, <1>5, <1>12, DeliveredConcat
  <2>4. Delivered(Going)' = before \o Delivered(more)
    BY <1>14, <2>3
  <2> QED BY <1>2, <1>7, <2>2, <2>4
<1>16. Flushes'
  <2>1. cfg.api = "chat" /\ st.called = "stream" => Finished(Going)'
    <3> SUFFICES ASSUME cfg.api = "chat", st.called = "stream" PROVE Finished(Going)'
      OBVIOUS
    <3>1. Finished(more)
      BY <1>9, <1>11 DEF Reading
    <3>2. Finished(c \o more)
      BY <1>5, <1>12, <3>1, FinishedConcat
    <3> QED BY <1>14, <3>2
  <2> QED BY <1>2, <1>12, <2>1 DEF Flushes
<1>17. Ends'
  <2>1. ~success'
    BY <1>2 DEF LoopInv, Steps
  <2> QED BY <1>2, <2>1 DEF Ends, Complete, GivenUp
<1> QED BY <1>13, <1>15, <1>16, <1>17

LEMMA ClientFinishes ==
  ASSUME AdapterInv, LoopInv, ClientInv, cfg.stream, Finishes
  PROVE  ClientTypes' /\ Reads' /\ Flushes' /\ Ends'
<1>1. PICK flushed, late, calls, where, final :
        /\ flushed = Flush(sieve)
        /\ late = (called = "" /\ cfg.tools /\ flushed.calls > 0)
        /\ calls = (IF late THEN CallsAtEnd(cfg.api, h, flushed.calls) ELSE Sends(h, <<>>))
        /\ where = (IF late THEN "end" ELSE called)
        /\ final = Finishing(cfg.api, calls.h, adapter, where)
  OBVIOUS
<1>2. /\ pc = "flush" /\ queue = <<>> /\ pc' = "sent"
      /\ sieve' = (IF called = "" /\ cfg.tools THEN flushed.sieve ELSE sieve)
      /\ h' = final.h /\ queue' = calls.out \o final.out
      /\ UNCHANGED <<cfg, success, out, mark>>
  BY <1>1 DEF Finishes, loop
<1>3. ClientTypes /\ Flushes /\ cfg \in Configs /\ h \in Locals /\ sieve \in Sieves
  BY DEF ClientInv, AdapterInv, ClientTypes
<1>4. PICK api, c, n, before, after :
        /\ api = cfg.api /\ c = Current /\ n = flushed.calls /\ before = calls.out /\ after = final.out
  OBVIOUS
<1>5. api \in Grok \cup Console \cup Build /\ (cfg.tools => api \in Grok)
  BY <1>3, <1>4, ConfigsAssumption
<1>6. flushed.sieve \in Sieves /\ n \in Nat
  BY <1>1, <1>3, <1>4, FlushIs
<1>7. c \in Seq(Chunks) /\ (queue = <<>> => Going = c)
  BY <1>3, <1>4, GoingIs
<1>8. Issues(calls) /\ (late /\ api = "chat" => Finished(before))
  <2>1. CASE late
    <3>1. api \in Grok /\ calls = CallsAtEnd(api, h, n)
      BY <1>1, <1>4, <1>5, <2>1
    <3> QED BY <1>3, <1>4, <1>6, <3>1, CallsAtEndIssue
  <2>2. CASE ~late
    <3>1. calls = Sends(h, <<>>)
      BY <1>1, <2>2
    <3> QED BY <1>3, <2>2, <3>1, SendsIssues, NoChunks
  <2> QED BY <2>1, <2>2
<1>9. before \in Seq(Chunks) /\ calls.h \in Locals
  BY <1>4, <1>8 DEF Issues
<1>10. Issues(final) /\ (api \notin Build /\ ~(api = "chat" /\ where # "") => Finished(after))
  <2>1. PICK a, l : a = adapter /\ l = calls.h
    OBVIOUS
  <2>2. api \in Grok => a.images \in Nat
    BY <1>4, <2>1 DEF AdapterInv, IsAdapter
  <2>3. l \in Locals
    BY <1>9, <2>1
  <2>4. final = Finishing(api, l, a, where)
    BY <1>1, <1>4, <2>1
  <2> QED BY <1>4, <1>5, <2>2, <2>3, <2>4, FinishingIssues
<1>11. after \in Seq(Chunks) /\ final.h \in Locals
  BY <1>4, <1>10 DEF Issues
<1>12. PICK all : all = before \o after
  OBVIOUS
<1>13. all \in Seq(Chunks)
  BY <1>9, <1>11, <1>12
<1>14. ClientTypes'
  BY <1>2, <1>3, <1>4, <1>6, <1>11, <1>12, <1>13 DEF ClientTypes
<1>15. Going' = c \o all
  BY <1>2, <1>4, <1>12 DEF Going, Current
<1>16. Reads' /\ Flushes'
  BY <1>2 DEF Reads, Flushes
<1>17. api \notin Build => Finished(c \o all)
  <2> SUFFICES ASSUME api \notin Build PROVE Finished(c \o all)
    OBVIOUS
  <2>1. CASE ~(api = "chat" /\ where # "")
    <3>1. Finished(all)
      BY <1>9, <1>10, <1>11, <1>12, <2>1, FinishedConcat
    <3> QED BY <1>7, <1>13, <3>1, FinishedConcat
  <2>2. CASE api = "chat" /\ where # ""
    <3>1. final = Sends(calls.h, <<>>)
      BY <1>1, <1>4, <2>2 DEF Finishing
    <3>2. after = <<>>
      BY <1>4, <3>1 DEF Sends
    <3>3. all = before
      <4>1. before \o <<>> = before
        BY <1>9
      <4> QED BY <1>12, <3>2, <4>1
    <3>4. CASE late
      BY <1>7, <1>8, <1>9, <2>2, <3>3, <3>4, FinishedConcat
    <3>5. CASE ~late
      <4>1. where = called /\ calls = Sends(h, <<>>)
        BY <1>1, <3>5
      <4>2. before = <<>>
        BY <1>4, <4>1 DEF Sends
      <4>3. Finished(c)
        BY <1>2, <1>3, <1>4, <1>7, <2>2, <4>1 DEF Flushes
      <4>4. c \o <<>> = c
        BY <1>7
      <4> QED BY <3>3, <4>2, <4>3, <4>4
    <3> QED BY <3>4, <3>5
  <2> QED BY <2>1, <2>2
<1>18. Ends'
  <2>1. cfg'.api \notin Build => Finished(Going)'
    BY <1>2, <1>4, <1>15, <1>17
  <2>2. ~GivenUp'
    BY <1>2 DEF GivenUp
  <2> QED BY <2>1, <2>2 DEF Ends
<1> QED BY <1>14, <1>16, <1>18

LEMMA ClientLeaves ==
  ASSUME LoopInv, ClientInv, cfg.stream, Leave
  PROVE  ClientTypes' /\ Reads' /\ Flushes' /\ Ends'
<1>1. /\ pc \notin {"finally", "done"} /\ gone' = TRUE /\ queue' = <<>>
      /\ pc' = (IF held THEN "finally" ELSE "done")
      /\ UNCHANGED <<cfg, success, h, sieve, out, mark>>
  BY DEF Leave, reader
<1>2. ClientTypes /\ ~success
  BY <1>1 DEF ClientInv, LoopInv, Steps
<1>3. ClientTypes'
  BY <1>1, <1>2, NoChunks DEF ClientTypes
<1>4. pc' \in {"finally", "done"} /\ ~success' /\ gone'
  BY <1>1, <1>2
<1>5. Reads' /\ Flushes'
  BY <1>4 DEF Reads, Flushes
<1>6. ~Complete' /\ ~GivenUp'
  BY <1>4 DEF Complete, GivenUp
<1>7. Ends'
  BY <1>6 DEF Ends
<1> QED BY <1>3, <1>5, <1>7

LEMMA ClientFinally ==
  ASSUME LoopInv, ClientInv, cfg.stream, Finally
  PROVE  ClientInv'
<1>1. /\ pc = "finally" /\ UNCHANGED <<cfg, success, gone, h, sieve, called, adapter, out, mark>>
  BY DEF Finally, reader
<1>2. queue = <<>> /\ ClientTypes
  BY <1>1 DEF LoopInv, Steps, ClientInv
<1>3. CASE (gone \/ success) /\ pc' = "done" /\ queue' = queue
  <2>1. Complete' => Complete
    BY <1>1, <1>3 DEF Complete
  <2>2. ~GivenUp'
    BY <1>1, <1>3 DEF GivenUp
  <2> QED BY <1>1, <1>3, <2>1, <2>2, ClientStays
<1>4. CASE pc' = "reserve" /\ queue' = queue
  <2>1. Complete' => Complete
    BY <1>1, <1>4 DEF Complete
  <2>2. ~GivenUp'
    BY <1>4 DEF GivenUp
  <2> QED BY <1>1, <1>4, <2>1, <2>2, ClientStays
<1>5. CASE ~success /\ Raise
  <2>1. ClientTypes' /\ Reads' /\ Flushes' /\ Ends'
    BY <1>1, <1>2, <1>5, ClientRaises
  <2> QED BY <2>1 DEF ClientInv
<1> QED BY <1>3, <1>4, <1>5 DEF Finally

LEMMA ClientStep == AdapterInv /\ LoopInv /\ ClientInv /\ [Next]_vars => ClientInv'
<1> SUFFICES ASSUME AdapterInv, LoopInv, ClientInv, [Next]_vars, cfg.stream PROVE ClientInv'
  <2>1. [Next]_vars => cfg' = cfg
    BY DEF Next, vars, Reserve, NoAccount, Yield, Read, EndOfStream, Fails, ErrorFrame, Finishes,
           FinishRaises, Succeeds, Leave, Finally, Answer, Closed
  <2> QED BY <2>1 DEF ClientInv
<1>1. ASSUME ClientTypes' /\ Reads' /\ Flushes' /\ Ends' PROVE ClientInv'
  BY <1>1 DEF ClientInv
<1>2. CASE Reserve
  BY <1>1, <1>2, ClientReserve
<1>3. CASE NoAccount
  <2>1. /\ pc = "reserve" /\ queue = <<>> /\ Raise /\ success' = success
        /\ UNCHANGED <<cfg, out, mark, h, sieve>>
    BY <1>3 DEF NoAccount, loop, reader
  <2>2. ClientTypes /\ ~success
    BY <2>1 DEF ClientInv, LoopInv, Steps
  <2> QED BY <1>1, <2>1, <2>2, ClientRaises
<1>4. CASE Yield
  BY <1>4, ClientYield
<1>5. ASSUME NEW f \in Frames(cfg), Read(f) PROVE ClientInv'
  BY <1>1, <1>5, ClientRead
<1>6. CASE Finishes
  BY <1>1, <1>6, ClientFinishes
<1>7. CASE EndOfStream \/ FinishRaises
  <2>1. /\ UNCHANGED <<cfg, out, queue, mark, h, sieve, called, adapter, success>>
        /\ pc \in {"read", "flush"} /\ pc' \in {"flush", "finally"}
    BY <1>7 DEF EndOfStream, FinishRaises, loop, reader, client
  <2>2. (Complete' => Complete) /\ ~GivenUp'
    BY <2>1 DEF Complete, GivenUp
  <2>3. (pc' = "read" => pc = "read") /\ (pc' = "flush" => pc \in {"read", "flush"})
    BY <2>1
  <2> QED BY <2>1, <2>2, <2>3, ClientStays
<1>8. CASE Succeeds
  <2>1. /\ UNCHANGED <<cfg, out, queue, mark, h, sieve, called, adapter>>
        /\ pc = "sent" /\ pc' = "finally"
    BY <1>8 DEF Succeeds, reader, client
  <2>2. Complete /\ ~GivenUp'
    BY <2>1 DEF Complete, GivenUp
  <2> QED BY <2>1, <2>2, ClientStays
<1>9. CASE Leave
  BY <1>1, <1>9, ClientLeaves
<1>10. CASE Finally
  BY <1>10, ClientFinally
<1>11. CASE Answer
  BY <1>11 DEF Answer, LoopInv, Steps
<1>12. CASE Closed
  <2>1. /\ UNCHANGED <<cfg, out, queue, mark, h, sieve, called, adapter, success>>
        /\ pc = "closing" /\ pc' = "done"
    BY <1>12 DEF Closed, loop, reader, client
  <2>2. (Complete' => Complete) /\ GivenUp
    BY <2>1 DEF Complete, GivenUp
  <2> QED BY <2>1, <2>2, ClientStays
<1>13. ASSUME NEW status, Fails(status) PROVE ClientInv'
  <2>1. /\ UNCHANGED <<cfg, out, queue, mark, h, sieve, called, adapter, success>>
        /\ pc = "read" /\ pc' = "finally"
    BY <1>13 DEF Fails, reader, client
  <2>2. (Complete' => Complete) /\ ~GivenUp'
    BY <2>1 DEF Complete, GivenUp
  <2> QED BY <2>1, <2>2, ClientStays
<1>14. ASSUME NEW cause, ErrorFrame(cause) PROVE ClientInv'
  BY <1>13, <1>14 DEF ErrorFrame
<1>15. CASE UNCHANGED vars
  <2>1. UNCHANGED <<cfg, out, queue, mark, h, sieve, called, adapter, success, pc, gone>>
    BY <1>15 DEF vars, loop, reader, client
  <2>2. (Complete' => Complete) /\ (GivenUp' => GivenUp)
    BY <2>1 DEF Complete, GivenUp
  <2> QED BY <2>1, <2>2, ClientStays
<1> QED BY <1>2, <1>3, <1>4, <1>5, <1>6, <1>7, <1>8, <1>9, <1>10, <1>11, <1>12, <1>13, <1>14,
           <1>15 DEF Next

LEMMA ClientHolds == Spec => []ClientInv
<1>1. Init => ClientInv
  BY ClientInit
<1>2. AdapterInv /\ LoopInv /\ ClientInv /\ [Next]_vars => ClientInv'
  BY ClientStep
<1>3. Spec => []AdapterInv /\ []LoopInv
  BY AdapterHolds, LoopHolds
<1> QED BY <1>1, <1>2, <1>3, PTL DEF Spec

(* Text is neither lost nor repeated on its way to the client of a stream,  *)
(* and a block of calls never goes out as text, in whichever pieces it      *)
(* comes.                                                                   *)
THEOREM TextKeptIntact == Spec => []TextIntact
<1>1. ClientInv => TextIntact
  <2> SUFFICES ASSUME ClientInv, cfg.stream, pc = "read"
               PROVE  /\ Delivered(Going) \o sieve.buf = adapter.text
                      /\ cfg.tools => Openings(Delivered(Going)) = {}
    BY DEF TextIntact, Going
  <2>1. ClientTypes /\ Holds(cfg, sieve, Delivered(Going), adapter.text)
    BY DEF ClientInv, Reads
  <2>2. ASSUME cfg.tools PROVE Openings(Delivered(Going)) = {}
    <3>1. PICK sent, buf : sent = Delivered(Going) /\ buf = sieve.buf
      OBVIOUS
    <3>2. sent \in Seq(Pieces) /\ buf \in Seq(Pieces)
      BY <2>1, <3>1, GoingIs DEF ClientTypes, Sieves
    <3>3. Buffers(sieve, sent)
      BY <2>1, <2>2, <3>1 DEF Holds
    <3> QED BY <3>1, <3>2, <3>3, TagPart DEF Buffers
  <2> QED BY <2>1, <2>2 DEF Holds
<1> QED BY <1>1, ClientHolds, PTL

(* Every account that was used is reported once, as a success exactly when  *)
(* its answer went out complete.                                            *)
THEOREM FeedbackIsTruthful == Spec => []FeedbackTruthful
<1>1. LoopInv /\ ClientInv => FeedbackTruthful
  <2> SUFFICES ASSUME LoopInv, ClientInv, cfg.api \notin Build PROVE FeedbackTruthful
    BY DEF FeedbackTruthful
  <2>1. /\ Len(reports) = attempt - (IF held THEN 1 ELSE 0)
        /\ \A i \in 1..Len(reports) :
             i < Len(reports) \/ held \/ ~success => reports[i] # "success"
        /\ ~held /\ success => reports # <<>> /\ reports[Len(reports)] = "success"
    BY DEF LoopInv, Accounted
  <2>2. reports \in Seq(Outcomes) /\ Len(reports) \in Nat
    BY DEF LoopInv
  <2>3. \A i \in 1..Len(reports) - 1 : reports[i] # "success"
    BY <2>1, <2>2
  <2>4. ASSUME ~held, reports # <<>>, cfg.stream
        PROVE  /\ Last(reports) = "success" => Finished(Current)
               /\ Finished(Current) /\ ~gone /\ pc = "done" =>
                    Last(reports) = "success" \/ \E i \in DOMAIN Current : Current[i] = Error
    <3>1. ClientTypes /\ Ends
      BY <2>4 DEF ClientInv
    <3>2. Last(reports) = reports[Len(reports)] /\ Len(reports) \in 1..Len(reports)
      BY <2>2, <2>4 DEF Last
    <3>3. PICK c : c = Current
      OBVIOUS
    <3>4. c \in Seq(Chunks) /\ DOMAIN c = 1..Len(c) /\ (queue = <<>> => Going = c)
      BY <3>1, <3>3, GoingIs
    <3>5. ASSUME Last(reports) = "success" PROVE Finished(c)
      <4>1. success
        BY <2>1, <3>2, <3>5
      <4>2. queue = <<>>
        BY <2>4, <4>1 DEF LoopInv, Steps
      <4> QED BY <3>1, <3>4, <4>1, <4>2 DEF Ends, Complete
    <3>6. ASSUME ~gone, pc = "done", ~(Last(reports) = "success")
          PROVE  \E i \in DOMAIN c : c[i] = Error
      <4>1. ~success
        BY <2>1, <2>4, <3>2, <3>6
      <4>2. queue = <<>>
        BY <3>6 DEF LoopInv, Steps
      <4>3. \E i \in 1..Len(Going) : Going[i] = Error
        BY <3>1, <3>6, <4>1 DEF Ends, GivenUp
      <4> QED BY <3>4, <4>2, <4>3
    <3> QED BY <3>3, <3>5, <3>6
  <2> QED BY <2>1, <2>3, <2>4 DEF FeedbackTruthful
<1> QED BY <1>1, ClientHolds, LoopHolds, PTL

-----------------------------------------------------------------------------
(* The answer as AnswerProtocol sees it: what an event may do to it, and    *)
(* where a sequence of events leads.                                        *)
Parts == {"none", "bare", "misfit"} \cup Kinds

Views == [phase : {"idle", "open", "finished", "failed", "ended"}, part : Parts,
          index : Nat, at : Nat]

First(api) == IF api \in {"chat", "console_chat", "build_chat"} THEN "bare" ELSE "none"

(* What AnswerProtocol allows. *)
Legal(v, e) ==
  \/ e.t = "begin" /\ v.phase \in {"idle", "open"}
  \/ /\ e.t = "open" /\ v.phase = "open" /\ v.part = "none" /\ e.i = v.index
     /\ e.kind \in {"thinking", "reasoning", "text", "call"}
  \/ e.t = "write" /\ v.phase = "open" /\ v.part # "none" /\ e.i = v.index /\ Fits(v.part, e.kind)
  \/ /\ e.t = "close" /\ v.phase = "open" /\ e.i = v.index
     /\ v.part \in {"thinking", "reasoning", "text", "call"}
  \/ e.t = "finish" /\ v.phase = "open" /\ v.part \in {"none", "bare", "reasoning"}
  \/ e.t = "error" /\ v.phase \in {"idle", "open"}
  \/ e.t = "end" /\ v.phase \in {"finished", "failed"}

(* The states r are what the events of q, each of them legal, make of v.    *)
Leads(api, v, q, w) ==
  \E r : /\ r[0] = v /\ r[Len(q)] = w
         /\ \A i \in 1..Len(q) : /\ r[i - 1] \in Views /\ Legal(r[i - 1], q[i])
                                 /\ r[i] = Shape(api, r[i - 1], q[i])

(* A place is a phase, a part and its number. *)
In(v, p) == v \in Views /\ v.phase = p[1] /\ v.part = p[2] /\ v.index = p[3]

Turns(api, p, q, s) ==
  q \in Seq(Chunks) /\ \A v : In(v, p) => \E w : In(w, s) /\ Leads(api, v, q, w)

LEMMA ShapeBegins ==
  ASSUME NEW api, NEW v \in Views, NEW e \in Chunks, Legal(v, e), NEW u, u = Shape(api, v, e),
         e.t = "begin"
  PROVE  u \in Views /\ u.phase = "open" /\ u.part = First(api) /\ u.index = 0 /\ u.at = 0
<1>1. PICK zero : zero = 0
  OBVIOUS
<1>2. zero \in Nat
  BY <1>1
<1>3. PICK open, first : open = "open" /\ first = First(api)
  OBVIOUS
<1>4. u = [phase |-> open, index |-> zero, at |-> zero, part |-> first]
  BY <1>1, <1>3 DEF Shape, First
<1>5. open \in {"idle", "open", "finished", "failed", "ended"} /\ first \in Parts
  BY <1>3 DEF First, Parts
<1> QED BY <1>1, <1>2, <1>3, <1>4, <1>5 DEF Views

LEMMA ShapeOpens ==
  ASSUME NEW api, NEW v \in Views, NEW e \in Chunks, NEW u, u = Shape(api, v, e),
         e.t = "open"
  PROVE  u \in Views /\ u.phase = v.phase /\ u.part = e.kind /\ u.index = v.index /\ u.at = e.i
<1>1. PICK kind, i : kind = e.kind /\ i = e.i
  OBVIOUS
<1>2. i \in Nat
  BY <1>1 DEF Chunks
<1>3. PICK g : g = [v EXCEPT !.part = kind]
  OBVIOUS
<1>4. u = [g EXCEPT !.at = i]
  BY <1>1, <1>3 DEF Shape
<1>5. kind \in Parts
  BY <1>1 DEF Chunks, Parts
<1>6. /\ g \in Views /\ g.part = kind /\ g.phase = v.phase /\ g.index = v.index
      /\ g.at = v.at
  BY <1>3, <1>5 DEF Views
<1>7. /\ u \in Views /\ u.part = kind /\ u.phase = g.phase /\ u.index = g.index /\ u.at = i
  BY <1>2, <1>4, <1>6 DEF Views
<1> QED BY <1>1, <1>6, <1>7

LEMMA ShapeMarks ==
  ASSUME NEW api, NEW v \in Views, NEW e \in Chunks, NEW u, u = Shape(api, v, e), e.t = "write"
  PROVE  /\ u \in Views /\ u.phase = v.phase /\ u.index = v.index /\ u.at = e.i
         /\ u.part = IF Fits(v.part, e.kind) THEN v.part ELSE "misfit"
<1>1. PICK i, part, old : /\ i = e.i /\ old = v.part
                          /\ part = IF Fits(old, e.kind) THEN old ELSE "misfit"
  OBVIOUS
<1>2. i \in Nat
  BY <1>1 DEF Chunks
<1>3. PICK g : g = [v EXCEPT !.at = i]
  OBVIOUS
<1>4. g \in Views /\ g.part = v.part /\ g.phase = v.phase /\ g.index = v.index /\ g.at = i
  BY <1>2, <1>3 DEF Views
<1>5. u = [g EXCEPT !.part = part]
  <2>1. u = [v EXCEPT !.at = i, !.part = IF Fits(@, e.kind) THEN @ ELSE "misfit"]
    BY <1>1 DEF Shape
  <2>2. u = [g EXCEPT !.part = IF Fits(g.part, e.kind) THEN g.part ELSE "misfit"]
    BY <1>3, <2>1
  <2> QED BY <1>1, <1>4, <2>2
<1>6. part \in Parts
  <2>1. old \in Parts /\ "misfit" \in Parts
    BY <1>1 DEF Views, Parts
  <2> QED BY <1>1, <2>1
<1>7. u \in Views /\ u.part = part /\ u.phase = g.phase /\ u.index = g.index /\ u.at = g.at
  BY <1>4, <1>5, <1>6 DEF Views
<1> QED BY <1>1, <1>4, <1>7

LEMMA ShapeWrites ==
  ASSUME NEW api, NEW v \in Views, NEW e \in Chunks, Legal(v, e), NEW u, u = Shape(api, v, e),
         e.t = "write"
  PROVE  u \in Views /\ u.phase = v.phase /\ u.part = v.part /\ u.index = v.index /\ u.at = e.i
<1>1. Fits(v.part, e.kind)
  BY DEF Legal
<1> QED BY <1>1, ShapeMarks

LEMMA ShapeCloses ==
  ASSUME NEW api, NEW v \in Views, NEW e \in Chunks, NEW u, u = Shape(api, v, e),
         e.t = "close"
  PROVE  /\ u \in Views /\ u.phase = v.phase /\ u.part = "none" /\ u.index = v.index + 1
         /\ u.at = e.i
<1>1. PICK i, index : i = e.i /\ index = v.index
  OBVIOUS
<1>2. i \in Nat /\ index \in Nat /\ index + 1 \in Nat
  BY <1>1 DEF Chunks, Views
<1>3. PICK none, n, g, k : /\ none = "none" /\ n = index + 1 /\ g = [v EXCEPT !.part = none]
                           /\ k = [g EXCEPT !.at = i]
  OBVIOUS
<1>4. u = [k EXCEPT !.index = n]
  <2>1. k.index = index
    BY <1>1, <1>2, <1>3 DEF Views
  <2>2. u = [v EXCEPT !.part = none, !.at = i, !.index = n]
    BY <1>1, <1>3 DEF Shape
  <2> QED BY <1>3, <2>2
<1>5. n \in Nat /\ none \in Parts
  BY <1>2, <1>3 DEF Parts
<1>6. g \in Views /\ g.part = none /\ g.phase = v.phase /\ g.index = v.index /\ g.at = v.at
  BY <1>3, <1>5 DEF Views
<1>7. k \in Views /\ k.part = none /\ k.phase = v.phase /\ k.index = v.index /\ k.at = i
  BY <1>2, <1>3, <1>6 DEF Views
<1>8. u \in Views /\ u.part = none /\ u.phase = v.phase /\ u.index = n /\ u.at = i
  BY <1>4, <1>5, <1>7 DEF Views
<1> QED BY <1>1, <1>3, <1>8

LEMMA ShapeFinishes ==
  ASSUME NEW api, NEW v \in Views, NEW e \in Chunks, NEW u, u = Shape(api, v, e),
         e.t = "finish"
  PROVE  u \in Views /\ u.phase = "finished" /\ u.part = v.part /\ u.index = v.index /\ u.at = v.at
<1>1. PICK next : next = "finished"
  OBVIOUS
<1>2. u = [v EXCEPT !.phase = next]
  BY <1>1 DEF Shape
<1>3. next \in {"finished", "failed", "ended"}
  BY <1>1
<1>4. u \in Views /\ u.phase = next /\ u.part = v.part /\ u.index = v.index /\ u.at = v.at
  BY <1>2, <1>3 DEF Views
<1> QED BY <1>1, <1>4

LEMMA ShapeFails ==
  ASSUME NEW api, NEW v \in Views, NEW e \in Chunks, NEW u, u = Shape(api, v, e),
         e.t = "error"
  PROVE  u \in Views /\ u.phase = "failed" /\ u.part = v.part /\ u.index = v.index /\ u.at = v.at
<1>1. PICK next : next = "failed"
  OBVIOUS
<1>2. u = [v EXCEPT !.phase = next]
  BY <1>1 DEF Shape
<1>3. next \in {"finished", "failed", "ended"}
  BY <1>1
<1>4. u \in Views /\ u.phase = next /\ u.part = v.part /\ u.index = v.index /\ u.at = v.at
  BY <1>2, <1>3 DEF Views
<1> QED BY <1>1, <1>4

LEMMA ShapeStops ==
  ASSUME NEW api, NEW v \in Views, NEW e \in Chunks, NEW u, u = Shape(api, v, e),
         e.t = "end"
  PROVE  u \in Views /\ u.phase = "ended" /\ u.part = v.part /\ u.index = v.index /\ u.at = v.at
<1>1. PICK next : next = "ended"
  OBVIOUS
<1>2. u = [v EXCEPT !.phase = next]
  BY <1>1 DEF Shape
<1>3. next \in {"finished", "failed", "ended"}
  BY <1>1
<1>4. u \in Views /\ u.phase = next /\ u.part = v.part /\ u.index = v.index /\ u.at = v.at
  BY <1>2, <1>3 DEF Views
<1> QED BY <1>1, <1>4

LEMMA LeadsNone ==
  ASSUME NEW api, NEW v, NEW q, Len(q) = 0
  PROVE  /\ Leads(api, v, q, v)
         /\ \A w : Leads(api, v, q, w) => w = v
<1>1. Leads(api, v, q, v)
  <2>1. PICK r : r = [i \in {0} |-> v]
    OBVIOUS
  <2>2. r[0] = v /\ \A i \in 1..0 : FALSE
    BY <2>1
  <2> QED BY <2>2 DEF Leads
<1>2. ASSUME NEW w, Leads(api, v, q, w) PROVE w = v
  BY <1>2 DEF Leads
<1> QED BY <1>1, <1>2

LEMMA LeadsOne ==
  ASSUME NEW api, NEW v \in Views, NEW e, Legal(v, e)
  PROVE  Leads(api, v, <<e>>, Shape(api, v, e))
<1>1. PICK q, u, r : q = <<e>> /\ u = Shape(api, v, e) /\ r = [i \in {0, 1} |-> IF i = 0 THEN v ELSE u]
  OBVIOUS
<1>2. Len(q) = 1 /\ q[1] = e /\ r[0] = v /\ r[1] = u
  BY <1>1
<1>3. \A i \in 1..1 : i = 1 /\ i - 1 = 0
  OBVIOUS
<1>4. Leads(api, v, q, u)
  BY <1>1, <1>2, <1>3 DEF Leads
<1> QED BY <1>1, <1>4

LEMMA LeadsConcat ==
  ASSUME NEW api, NEW u, NEW v, NEW w, NEW p \in Seq(Chunks), NEW q \in Seq(Chunks),
         Leads(api, u, p, v), Leads(api, v, q, w)
  PROVE  Leads(api, u, p \o q, w)
<1>1. PICK r : /\ r[0] = u /\ r[Len(p)] = v
               /\ \A i \in 1..Len(p) : /\ r[i - 1] \in Views /\ Legal(r[i - 1], p[i])
                                       /\ r[i] = Shape(api, r[i - 1], p[i])
  BY DEF Leads
<1>2. PICK s : /\ s[0] = v /\ s[Len(q)] = w
               /\ \A i \in 1..Len(q) : /\ s[i - 1] \in Views /\ Legal(s[i - 1], q[i])
                                       /\ s[i] = Shape(api, s[i - 1], q[i])
  BY DEF Leads
<1>3. PICK m, n, all : m = Len(p) /\ n = Len(q) /\ all = p \o q
  OBVIOUS
<1>4. m \in Nat /\ n \in Nat /\ m + n \in Nat
  BY <1>3
<1>5. /\ Len(all) = m + n
      /\ \A i \in 1..m + n : all[i] = IF i <= m THEN p[i] ELSE q[i - m]
  BY <1>3, ConcatProperties
<1>6. PICK t : t = [i \in 0..m + n |-> IF i <= m THEN r[i] ELSE s[i - m]]
  OBVIOUS
<1>7. t[0] = u /\ \A i \in 0..m : t[i] = r[i]
  BY <1>1, <1>4, <1>6
<1>8. \A i \in 0..m + n : i >= m => t[i] = s[i - m]
  <2> SUFFICES ASSUME NEW i \in 0..m + n, i >= m PROVE t[i] = s[i - m]
    OBVIOUS
  <2>1. CASE i = m
    <3>1. t[m] = r[m] /\ m - m = 0
      BY <1>4, <1>7
    <3> QED BY <1>1, <1>2, <1>3, <2>1, <3>1
  <2>2. CASE i # m
    BY <1>4, <1>6, <2>2
  <2> QED BY <2>1, <2>2
<1>9. t[m + n] = w
  <2>1. m + n \in 0..m + n /\ m + n >= m /\ m + n - m = n
    BY <1>4
  <2> QED BY <1>2, <1>3, <1>8, <2>1
<1>10. ASSUME NEW i \in 1..m + n
       PROVE  t[i - 1] \in Views /\ Legal(t[i - 1], all[i]) /\ t[i] = Shape(api, t[i - 1], all[i])
  <2>1. CASE i <= m
    <3>1. i \in 1..Len(p) /\ i \in 0..m /\ i - 1 \in 0..m
      BY <1>3, <1>4, <2>1
    <3>2. t[i] = r[i] /\ t[i - 1] = r[i - 1] /\ all[i] = p[i]
      BY <1>5, <1>7, <2>1, <3>1
    <3> QED BY <1>1, <3>1, <3>2
  <2>2. CASE ~(i <= m)
    <3>1. PICK j : j = i - m
      OBVIOUS
    <3>2. j \in 1..Len(q) /\ i \in 0..m + n /\ i - 1 \in 0..m + n /\ i >= m /\ i - 1 >= m /\ (i - 1) - m = j - 1
      BY <1>3, <1>4, <2>2, <3>1
    <3>3. t[i] = s[j] /\ t[i - 1] = s[j - 1] /\ all[i] = q[j]
      BY <1>5, <1>8, <2>2, <3>1, <3>2
    <3> QED BY <1>2, <3>2, <3>3
  <2> QED BY <2>1, <2>2
<1>11. Leads(api, u, all, w)
  BY <1>5, <1>7, <1>9, <1>10 DEF Leads
<1> QED BY <1>3, <1>11

LEMMA LeadsHead ==
  ASSUME NEW api, NEW v, NEW w, NEW q \in Seq(Chunks), q # <<>>, Leads(api, v, q, w)
  PROVE  v \in Views /\ Legal(v, Head(q)) /\ Leads(api, Shape(api, v, Head(q)), Tail(q), w)
<1>1. PICK r : /\ r[0] = v /\ r[Len(q)] = w
               /\ \A i \in 1..Len(q) : /\ r[i - 1] \in Views /\ Legal(r[i - 1], q[i])
                                       /\ r[i] = Shape(api, r[i - 1], q[i])
  BY DEF Leads
<1>2. PICK n, e, t : n = Len(q) /\ e = Head(q) /\ t = Tail(q)
  OBVIOUS
<1>3. n \in Nat /\ n > 0
  BY <1>2
<1>4. e = q[1] /\ Len(t) = n - 1 /\ \A i \in 1..n - 1 : t[i] = q[i + 1]
  BY <1>2, HeadTailProperties
<1>5. 1 \in 1..n /\ 1 - 1 = 0
  BY <1>3
<1>6. v \in Views /\ Legal(v, e) /\ r[1] = Shape(api, v, e)
  BY <1>1, <1>2, <1>4, <1>5
<1>7. PICK s : s = [i \in 0..n - 1 |-> r[i + 1]]
  OBVIOUS
<1>8. s[0] = r[1] /\ s[n - 1] = w
  BY <1>1, <1>2, <1>3, <1>7
<1>9. ASSUME NEW i \in 1..n - 1
      PROVE  s[i - 1] \in Views /\ Legal(s[i - 1], t[i]) /\ s[i] = Shape(api, s[i - 1], t[i])
  <2>1. i + 1 \in 1..n /\ (i + 1) - 1 = i /\ i \in 0..n - 1 /\ i - 1 \in 0..n - 1 /\ (i - 1) + 1 = i
    BY <1>3
  <2>2. s[i - 1] = r[i] /\ s[i] = r[i + 1] /\ t[i] = q[i + 1]
    BY <1>4, <1>7, <2>1
  <2> QED BY <1>1, <1>2, <2>1, <2>2
<1>10. Leads(api, Shape(api, v, e), t, w)
  BY <1>4, <1>6, <1>8, <1>9 DEF Leads
<1> QED BY <1>2, <1>6, <1>10

LEMMA TurnsNone ==
  ASSUME NEW api, NEW p, NEW q, q = <<>>
  PROVE  Turns(api, p, q, p)
<1>1. q \in Seq(Chunks) /\ Len(q) = 0
  OBVIOUS
<1>2. \A v : Leads(api, v, q, v)
  BY <1>1, LeadsNone
<1> QED BY <1>1, <1>2 DEF Turns

LEMMA TurnsConcat ==
  ASSUME NEW api, NEW p1, NEW p2, NEW p3, NEW a, NEW b, Turns(api, p1, a, p2), Turns(api, p2, b, p3)
  PROVE  Turns(api, p1, a \o b, p3)
<1>1. a \in Seq(Chunks) /\ b \in Seq(Chunks)
  BY DEF Turns
<1>2. ASSUME NEW u, In(u, p1) PROVE \E w : In(w, p3) /\ Leads(api, u, a \o b, w)
  <2>1. PICK v : In(v, p2) /\ Leads(api, u, a, v)
    BY <1>2 DEF Turns
  <2>2. PICK w : In(w, p3) /\ Leads(api, v, b, w)
    BY <2>1 DEF Turns
  <2>3. Leads(api, u, a \o b, w)
    BY <1>1, <2>1, <2>2, LeadsConcat
  <2> QED BY <2>2, <2>3
<1>3. a \o b \in Seq(Chunks)
  BY <1>1
<1> QED BY <1>2, <1>3 DEF Turns

LEMMA TurnsOne ==
  ASSUME NEW api, NEW p, NEW s, NEW e \in Chunks,
         \A v : In(v, p) => Legal(v, e) /\ In(Shape(api, v, e), s)
  PROVE  Turns(api, p, <<e>>, s)
<1>1. <<e>> \in Seq(Chunks)
  OBVIOUS
<1>2. ASSUME NEW v, In(v, p) PROVE In(Shape(api, v, e), s) /\ Leads(api, v, <<e>>, Shape(api, v, e))
  <2>1. v \in Views /\ Legal(v, e) /\ In(Shape(api, v, e), s)
    BY <1>2 DEF In
  <2> QED BY <2>1, LeadsOne
<1> QED BY <1>1, <1>2 DEF Turns

(* The events one by one. *)
Opened == {"thinking", "reasoning", "text", "call"}

LEMMA OpenTurns ==
  ASSUME NEW api, NEW kind \in Opened, NEW n \in Nat
  PROVE  Turns(api, <<"open", "none", n>>, <<Open(kind, n)>>, <<"open", kind, n>>)
<1>1. PICK e : e = Open(kind, n)
  OBVIOUS
<1>2. e \in Chunks /\ e.t = "open" /\ e.kind = kind /\ e.i = n
  BY <1>1, OpenIs DEF Opened
<1>3. ASSUME NEW v, In(v, <<"open", "none", n>>)
      PROVE  Legal(v, e) /\ In(Shape(api, v, e), <<"open", kind, n>>)
  <2>1. v \in Views /\ v.phase = "open" /\ v.part = "none" /\ v.index = n
    BY <1>3 DEF In
  <2>2. Legal(v, e)
    BY <1>2, <2>1 DEF Legal, Opened
  <2>3. PICK u : u = Shape(api, v, e)
    OBVIOUS
  <2>4. u \in Views /\ u.phase = v.phase /\ u.part = e.kind /\ u.index = v.index
    BY <1>2, <2>1, <2>2, <2>3, ShapeOpens
  <2>5. In(u, <<"open", kind, n>>)
    BY <1>2, <2>1, <2>4 DEF In
  <2> QED BY <2>2, <2>3, <2>5
<1> QED BY <1>1, <1>2, <1>3, TurnsOne

LEMMA WriteTurns ==
  ASSUME NEW api, NEW kind \in Opened \cup {"annotation"}, NEW n \in Nat, NEW s \in Seq(Pieces),
         NEW part \in Opened \cup {"bare"}, Fits(part, kind)
  PROVE  Turns(api, <<"open", part, n>>, <<Write(kind, n, s)>>, <<"open", part, n>>)
<1>1. PICK e : e = Write(kind, n, s)
  OBVIOUS
<1>2. e \in Chunks /\ e.t = "write" /\ e.kind = kind /\ e.i = n
  BY <1>1, WriteIs DEF Opened
<1>3. ASSUME NEW v, In(v, <<"open", part, n>>)
      PROVE  Legal(v, e) /\ In(Shape(api, v, e), <<"open", part, n>>)
  <2>1. v \in Views /\ v.phase = "open" /\ v.part = part /\ v.index = n
    BY <1>3 DEF In
  <2>2. Legal(v, e)
    <3>1. part # "none"
      BY DEF Opened
    <3>2. Fits(v.part, e.kind)
      BY <1>2, <2>1
    <3> QED BY <1>2, <2>1, <3>1, <3>2 DEF Legal
  <2>3. PICK u : u = Shape(api, v, e)
    OBVIOUS
  <2>4. u \in Views /\ u.phase = v.phase /\ u.part = v.part /\ u.index = v.index
    BY <1>2, <2>1, <2>2, <2>3, ShapeWrites
  <2>5. In(u, <<"open", part, n>>)
    BY <1>2, <2>1, <2>4 DEF In
  <2> QED BY <2>2, <2>3, <2>5
<1> QED BY <1>1, <1>2, <1>3, TurnsOne

LEMMA CloseTurns ==
  ASSUME NEW api, NEW kind \in Opened, NEW n \in Nat
  PROVE  Turns(api, <<"open", kind, n>>, <<Close(kind, n)>>, <<"open", "none", n + 1>>)
<1>1. PICK e : e = Close(kind, n)
  OBVIOUS
<1>2. e \in Chunks /\ e.t = "close" /\ e.kind = kind /\ e.i = n
  BY <1>1, CloseIs DEF Opened
<1>3. ASSUME NEW v, In(v, <<"open", kind, n>>)
      PROVE  Legal(v, e) /\ In(Shape(api, v, e), <<"open", "none", n + 1>>)
  <2>1. v \in Views /\ v.phase = "open" /\ v.part = kind /\ v.index = n
    BY <1>3 DEF In
  <2>2. Legal(v, e)
    BY <1>2, <2>1 DEF Legal, Opened
  <2>3. PICK u : u = Shape(api, v, e)
    OBVIOUS
  <2>4. u \in Views /\ u.phase = v.phase /\ u.part = "none" /\ u.index = v.index + 1
    BY <1>2, <2>1, <2>2, <2>3, ShapeCloses
  <2>5. In(u, <<"open", "none", n + 1>>)
    BY <2>1, <2>4 DEF In
  <2> QED BY <2>2, <2>3, <2>5
<1> QED BY <1>1, <1>2, <1>3, TurnsOne

LEMMA FinishTurns ==
  ASSUME NEW api, NEW part \in {"none", "bare", "reasoning"}, NEW n \in Nat,
         NEW reason \in {"tool_calls", "stop", "tool_use", "end_turn", "completed"}
  PROVE  Turns(api, <<"open", part, n>>, <<Finish(reason)>>, <<"finished", part, n>>)
<1>1. PICK e : e = Finish(reason)
  OBVIOUS
<1>2. e \in Chunks /\ e.t = "finish"
  BY <1>1, FinishIs
<1>3. ASSUME NEW v, In(v, <<"open", part, n>>)
      PROVE  Legal(v, e) /\ In(Shape(api, v, e), <<"finished", part, n>>)
  <2>1. v \in Views /\ v.phase = "open" /\ v.part = part /\ v.index = n
    BY <1>3 DEF In
  <2>2. Legal(v, e)
    BY <1>2, <2>1 DEF Legal
  <2>3. PICK u : u = Shape(api, v, e)
    OBVIOUS
  <2>4. u \in Views /\ u.phase = "finished" /\ u.part = v.part /\ u.index = v.index
    BY <1>2, <2>1, <2>2, <2>3, ShapeFinishes
  <2>5. In(u, <<"finished", part, n>>)
    BY <2>1, <2>4 DEF In
  <2> QED BY <2>2, <2>3, <2>5
<1> QED BY <1>1, <1>2, <1>3, TurnsOne

LEMMA EndTurns ==
  ASSUME NEW api, NEW phase \in {"finished", "failed"}, NEW part, NEW n
  PROVE  Turns(api, <<phase, part, n>>, <<End>>, <<"ended", part, n>>)
<1>1. PICK e : e = End
  OBVIOUS
<1>2. e \in Chunks /\ e.t = "end"
  BY <1>1, OtherChunks
<1>3. ASSUME NEW v, In(v, <<phase, part, n>>)
      PROVE  Legal(v, e) /\ In(Shape(api, v, e), <<"ended", part, n>>)
  <2>1. v \in Views /\ v.phase = phase /\ v.part = part /\ v.index = n
    BY <1>3 DEF In
  <2>2. Legal(v, e)
    BY <1>2, <2>1 DEF Legal
  <2>3. PICK u : u = Shape(api, v, e)
    OBVIOUS
  <2>4. u \in Views /\ u.phase = "ended" /\ u.part = v.part /\ u.index = v.index
    BY <1>2, <2>1, <2>2, <2>3, ShapeStops
  <2>5. In(u, <<"ended", part, n>>)
    BY <2>1, <2>4 DEF In
  <2> QED BY <2>2, <2>3, <2>5
<1> QED BY <1>1, <1>2, <1>3, TurnsOne

LEMMA BeginTurns ==
  ASSUME NEW api, NEW phase \in {"idle", "open"}, NEW part, NEW n
  PROVE  /\ Turns(api, <<phase, part, n>>, <<Begin>>, <<"open", First(api), 0>>)
         /\ Turns(api, <<phase, part, n>>, <<Error>>, <<"failed", part, n>>)
<1>1. PICK e, f : e = Begin /\ f = Error
  OBVIOUS
<1>2. e \in Chunks /\ e.t = "begin" /\ f \in Chunks /\ f.t = "error"
  BY <1>1, OtherChunks
<1>3. ASSUME NEW v, In(v, <<phase, part, n>>)
      PROVE  /\ Legal(v, e) /\ In(Shape(api, v, e), <<"open", First(api), 0>>)
             /\ Legal(v, f) /\ In(Shape(api, v, f), <<"failed", part, n>>)
  <2>1. v \in Views /\ v.phase = phase /\ v.part = part /\ v.index = n
    BY <1>3 DEF In
  <2>2. Legal(v, e) /\ Legal(v, f)
    BY <1>2, <2>1 DEF Legal
  <2>3. PICK u, w : u = Shape(api, v, e) /\ w = Shape(api, v, f)
    OBVIOUS
  <2>4. u \in Views /\ u.phase = "open" /\ u.part = First(api) /\ u.index = 0
    BY <1>2, <2>1, <2>2, <2>3, ShapeBegins
  <2>5. w \in Views /\ w.phase = "failed" /\ w.part = v.part /\ w.index = v.index
    BY <1>2, <2>1, <2>2, <2>3, ShapeFails
  <2>6. In(u, <<"open", First(api), 0>>) /\ In(w, <<"failed", part, n>>)
    BY <2>1, <2>4, <2>5 DEF In
  <2> QED BY <2>2, <2>3, <2>6
<1> QED BY <1>1, <1>2, <1>3, TurnsOne

LEMMA ViewsEqual ==
  ASSUME NEW v \in Views, NEW w \in Views, v.phase = w.phase, v.part = w.part, v.index = w.index,
         v.at = w.at
  PROVE  v = w
BY DEF Views

(* The same text again and again. *)
LEMMA RepeatTurns ==
  ASSUME NEW api, NEW kind \in Opened, NEW n \in Nat, NEW s \in Seq(Pieces),
         NEW part \in Opened \cup {"bare"}, Fits(part, kind), NEW m \in Nat
  PROVE  Turns(api, <<"open", part, n>>, [i \in 1..m |-> Write(kind, n, s)], <<"open", part, n>>)
<1>1. PICK e, q : e = Write(kind, n, s) /\ q = [i \in 1..m |-> e]
  OBVIOUS
<1>2. e \in Chunks /\ e.t = "write" /\ e.kind = kind /\ e.i = n
  BY <1>1, WriteIs DEF Opened
<1>3. q \in Seq(Chunks) /\ Len(q) = m /\ \A i \in 1..m : q[i] = e
  BY <1>1, <1>2
<1>4. ASSUME NEW v, In(v, <<"open", part, n>>)
      PROVE  \E w : In(w, <<"open", part, n>>) /\ Leads(api, v, q, w)
  <2>1. PICK u : u = Shape(api, v, e)
    OBVIOUS
  <2>2. v \in Views /\ v.phase = "open" /\ v.part = part /\ v.index = n
    BY <1>4 DEF In
  <2>3. part # "none" /\ Fits(v.part, e.kind)
    BY <1>2, <2>2 DEF Opened
  <2>4. Legal(v, e)
    BY <1>2, <2>2, <2>3 DEF Legal
  <2>5. u \in Views /\ u.phase = "open" /\ u.part = part /\ u.index = n /\ u.at = n
    BY <1>2, <2>1, <2>2, <2>4, ShapeWrites
  <2>6. Legal(u, e)
    <3>1. Fits(u.part, e.kind)
      BY <2>2, <2>3, <2>5
    <3> QED BY <1>2, <2>3, <2>5, <3>1 DEF Legal
  <2>7. Shape(api, u, e) = u
    <3>1. PICK x : x = Shape(api, u, e)
      OBVIOUS
    <3>2. x \in Views /\ x.phase = u.phase /\ x.part = u.part /\ x.index = u.index /\ x.at = n
      BY <1>2, <2>5, <2>6, <3>1, ShapeWrites
    <3>3. x = u
      BY <2>5, <3>2, ViewsEqual
    <3> QED BY <3>1, <3>3
  <2>8. In(v, <<"open", part, n>>) /\ In(u, <<"open", part, n>>)
    BY <1>4, <2>5 DEF In
  <2>9. CASE m = 0
    <3>1. Leads(api, v, q, v)
      BY <1>3, <2>9, LeadsNone
    <3> QED BY <2>8, <3>1
  <2>10. CASE m # 0
    <3>1. PICK r : r = [i \in 0..m |-> IF i = 0 THEN v ELSE u]
      OBVIOUS
    <3>2. r[0] = v /\ r[m] = u
      BY <2>10, <3>1
    <3>3. ASSUME NEW i \in 1..m
          PROVE  r[i - 1] \in Views /\ Legal(r[i - 1], q[i]) /\ r[i] = Shape(api, r[i - 1], q[i])
      <4>1. r[i] = u /\ q[i] = e /\ (r[i - 1] = v \/ r[i - 1] = u)
        BY <1>3, <3>1
      <4> QED BY <2>1, <2>2, <2>4, <2>5, <2>6, <2>7, <4>1
    <3>4. Leads(api, v, q, u)
      BY <1>3, <3>2, <3>3 DEF Leads
    <3> QED BY <2>8, <3>4
  <2> QED BY <2>9, <2>10
<1>5. Turns(api, <<"open", part, n>>, q, <<"open", part, n>>)
  BY <1>3, <1>4 DEF Turns
<1> QED BY <1>1, <1>5

(* A block of calls: each opened, written and closed under its own number.  *)
LEMMA BlocksTurn ==
  ASSUME NEW api, NEW from \in Nat, NEW n \in Nat
  PROVE  Turns(api, <<"open", "none", from>>, MessagesBlocks(from, n), <<"open", "none", from + n>>)
<1>1. PICK q, m, none : q = MessagesBlocks(from, n) /\ m = 3 * n /\ none = <<>>
  OBVIOUS
<1>2. m \in Nat /\ none \in Seq(Pieces) /\ m % 3 = 0 /\ m \div 3 = n
  BY <1>1, NoText
<1>3. q \in Seq(Chunks)
  BY <1>1, BlocksAre
<1>4. /\ Len(q) = m
      /\ \A i \in 1..m : LET k == from + (i - 1) \div 3
                         IN  /\ i % 3 = 1 => q[i] = Open("call", k)
                             /\ i % 3 = 2 => q[i] = Write("call", k, none)
                             /\ i % 3 = 0 => q[i] = Close("call", k)
  BY <1>1, <1>2 DEF MessagesBlocks
<1>5. ASSUME NEW v, In(v, <<"open", "none", from>>)
      PROVE  \E w : In(w, <<"open", "none", from + n>>) /\ Leads(api, v, q, w)
  <2>1. v \in Views /\ v.phase = "open" /\ v.part = "none" /\ v.index = from
    BY <1>5 DEF In
  <2> DEFINE Now(i) == IF i = 0 THEN v
                       ELSE IF i % 3 = 0
                       THEN [phase |-> "open", part |-> "none", index |-> from + i \div 3,
                             at |-> from + (i - 1) \div 3]
                       ELSE [phase |-> "open", part |-> "call", index |-> from + i \div 3,
                             at |-> from + i \div 3]
  <2>2. ASSUME NEW i \in 0..m
        PROVE  /\ Now(i) \in Views /\ Now(i).phase = "open" /\ Now(i).index = from + i \div 3
               /\ i % 3 = 0 => Now(i).part = "none" /\ (i > 0 => Now(i).at = from + (i - 1) \div 3)
               /\ i % 3 # 0 => Now(i).part = "call" /\ Now(i).at = from + i \div 3
    <3>1. i \div 3 \in Nat /\ (i > 0 => (i - 1) \div 3 \in Nat) /\ (i = 0 => i % 3 = 0 /\ i \div 3 = 0)
      BY <1>2
    <3>2. CASE i = 0
      <4>1. Now(i) = v
        BY <3>2
      <4>2. from + 0 = from
        OBVIOUS
      <4> HIDE DEF Now
      <4> QED BY <2>1, <3>1, <3>2, <4>1, <4>2
    <3>3. CASE i # 0 /\ i % 3 = 0
      <4>1. PICK ph, pa, x, y : /\ ph = "open" /\ pa = "none" /\ x = from + i \div 3
                                /\ y = from + (i - 1) \div 3
        OBVIOUS
      <4>2. Now(i) = [phase |-> ph, part |-> pa, index |-> x, at |-> y]
        BY <3>3, <4>1
      <4>3. x \in Nat /\ y \in Nat /\ pa \in Parts
        BY <3>1, <3>3, <4>1 DEF Parts
      <4> HIDE DEF Now
      <4> QED BY <3>3, <4>1, <4>2, <4>3 DEF Views
    <3>4. CASE i # 0 /\ i % 3 # 0
      <4>1. PICK ph, pa, x : ph = "open" /\ pa = "call" /\ x = from + i \div 3
        OBVIOUS
      <4>2. Now(i) = [phase |-> ph, part |-> pa, index |-> x, at |-> x]
        BY <3>4, <4>1
      <4>3. x \in Nat /\ pa \in Parts
        BY <3>1, <4>1 DEF Parts, Kinds
      <4> HIDE DEF Now
      <4> QED BY <3>4, <4>1, <4>2, <4>3 DEF Views
    <3> QED BY <3>2, <3>3, <3>4
  <2>3. Now(0) = v
    OBVIOUS
  <2> HIDE DEF Now
  <2>4. ASSUME NEW i \in 1..m
        PROVE  Legal(Now(i - 1), q[i]) /\ Now(i) = Shape(api, Now(i - 1), q[i])
    <3>1. PICK j, k, x, y, e, u : /\ j = i - 1 /\ k = from + (i - 1) \div 3 /\ x = Now(j) /\ y = Now(i)
                                  /\ e = q[i] /\ u = Shape(api, x, e)
      OBVIOUS
    <3>2. j \in 0..m /\ i \in 0..m /\ i > 0 /\ k \in Nat
      BY <1>2, <3>1
    <3>3. /\ x \in Views /\ x.phase = "open" /\ x.index = from + j \div 3
          /\ j % 3 = 0 => x.part = "none"
          /\ j % 3 # 0 => x.part = "call"
      BY <2>2, <3>1, <3>2
    <3>4. /\ y \in Views /\ y.phase = "open" /\ y.index = from + i \div 3
          /\ i % 3 = 0 => y.part = "none" /\ y.at = from + (i - 1) \div 3
          /\ i % 3 # 0 => y.part = "call" /\ y.at = from + i \div 3
      BY <2>2, <3>1, <3>2
    <3>5. CASE i % 3 = 1
      <4>1. j % 3 = 0 /\ i \div 3 = j \div 3
        BY <3>1, <3>2, <3>5
      <4>2. e = Open("call", k)
        BY <1>4, <3>1, <3>5
      <4>3. e \in Chunks /\ e.t = "open" /\ e.kind = "call" /\ e.i = k
        BY <3>2, <4>2, OpenIs
      <4>4. x.part = "none" /\ x.index = k
        BY <3>1, <3>3, <4>1
      <4>5. Legal(x, e)
        BY <3>3, <4>3, <4>4 DEF Legal
      <4>6. u \in Views /\ u.phase = x.phase /\ u.part = "call" /\ u.index = x.index /\ u.at = k
        BY <3>1, <3>3, <4>3, <4>5, ShapeOpens
      <4>7. i % 3 # 0 /\ from + i \div 3 = k
        BY <3>1, <3>5, <4>1
      <4>8. y.part = "call" /\ y.at = k /\ y.index = k
        BY <3>4, <4>7
      <4>9. y = u
        BY <3>3, <3>4, <4>4, <4>6, <4>8, ViewsEqual
      <4> QED BY <3>1, <4>5, <4>9
    <3>6. CASE i % 3 = 2
      <4>1. j % 3 # 0 /\ i \div 3 = j \div 3
        BY <3>1, <3>2, <3>6
      <4>2. e = Write("call", k, none)
        BY <1>4, <3>1, <3>6
      <4>3. e \in Chunks /\ e.t = "write" /\ e.kind = "call" /\ e.i = k
        BY <1>2, <3>2, <4>2, WriteIs
      <4>4. x.part = "call" /\ x.index = k
        BY <3>1, <3>3, <4>1
      <4>5. Legal(x, e)
        BY <3>3, <4>3, <4>4 DEF Legal, Fits
      <4>6. u \in Views /\ u.phase = x.phase /\ u.part = "call" /\ u.index = x.index /\ u.at = k
        BY <3>1, <3>3, <4>3, <4>4, <4>5, ShapeWrites
      <4>7. i % 3 # 0 /\ from + i \div 3 = k
        BY <3>1, <3>6, <4>1
      <4>8. y.part = "call" /\ y.at = k /\ y.index = k
        BY <3>4, <4>7
      <4>9. y = u
        BY <3>3, <3>4, <4>4, <4>6, <4>8, ViewsEqual
      <4> QED BY <3>1, <4>5, <4>9
    <3>7. CASE i % 3 = 0
      <4>1. j % 3 # 0 /\ i \div 3 = (j \div 3) + 1
        BY <3>1, <3>2, <3>7
      <4>2. e = Close("call", k)
        BY <1>4, <3>1, <3>7
      <4>3. e \in Chunks /\ e.t = "close" /\ e.kind = "call" /\ e.i = k
        BY <3>2, <4>2, CloseIs
      <4>4. x.part = "call" /\ x.index = k
        BY <3>1, <3>3, <4>1
      <4>5. Legal(x, e)
        BY <3>3, <4>3, <4>4 DEF Legal
      <4>6. u \in Views /\ u.phase = x.phase /\ u.part = "none" /\ u.index = k + 1 /\ u.at = k
        BY <3>1, <3>3, <4>3, <4>4, <4>5, ShapeCloses
      <4>7. from + i \div 3 = k + 1 /\ from + (i - 1) \div 3 = k
        BY <3>1, <3>2, <4>1
      <4>8. y.part = "none" /\ y.at = k /\ y.index = k + 1
        BY <3>4, <3>7, <4>7
      <4>9. y = u
        BY <3>3, <3>4, <4>6, <4>8, ViewsEqual
      <4> QED BY <3>1, <4>5, <4>9
    <3>8. i % 3 = 0 \/ i % 3 = 1 \/ i % 3 = 2
      BY <3>2
    <3> QED BY <3>5, <3>6, <3>7, <3>8
  <2>5. PICK r : r = [i \in 0..m |-> Now(i)]
    OBVIOUS
  <2>6. \A i \in 0..m : r[i] = Now(i)
    BY <2>5
  <2>7. r[0] = v /\ 0 \in 0..m /\ m \in 0..m /\ \A i \in 1..m : i - 1 \in 0..m /\ i \in 0..m
    BY <1>2, <2>3, <2>6
  <2>8. \A i \in 1..m : /\ r[i - 1] \in Views /\ Legal(r[i - 1], q[i])
                        /\ r[i] = Shape(api, r[i - 1], q[i])
    BY <2>2, <2>4, <2>6, <2>7
  <2>9. Leads(api, v, q, r[m])
    BY <1>4, <2>7, <2>8 DEF Leads
  <2>10. In(r[m], <<"open", "none", from + n>>)
    <3>1. r[m] \in Views /\ r[m].phase = "open" /\ r[m].index = from + m \div 3 /\ r[m].part = "none"
      BY <1>2, <2>2, <2>6, <2>7
    <3> QED BY <1>2, <3>1 DEF In
  <2> QED BY <2>9, <2>10
<1>6. Turns(api, <<"open", "none", from>>, q, <<"open", "none", from + n>>)
  BY <1>3, <1>5 DEF Turns
<1> QED BY <1>1, <1>6

(* Where the locals of a handler say that its answer stands. *)
Bares == {"chat", "console_chat", "build_chat"}
Ready == {"console_messages", "console_responses", "build_messages"}
Numbered == {"messages", "responses"}

PartOf(api, l) ==
  IF api \in Bares THEN "bare"
  ELSE IF api \in Ready \/ l.text THEN "text"
  ELSE IF l.thinking /\ ~l.closed THEN (IF api = "messages" THEN "thinking" ELSE "reasoning")
  ELSE "none"

NumberOf(api, l) ==
  IF api = "messages" THEN l.index
  ELSE IF api = "responses" /\ l.thinking /\ (l.text \/ l.closed) THEN 1 ELSE 0

Stage(api, l) == <<"open", PartOf(api, l), NumberOf(api, l)>>

(* Thinking that was followed by text is closed. *)
Coherent(l) == (l.text /\ l.thinking => l.closed) /\ (l.closed => l.thinking)

Flows(api, l, r) == Issues(r) /\ Turns(api, Stage(api, l), r.out, Stage(api, r.h))

LEMMA FlowsBy ==
  ASSUME NEW api, NEW l, NEW k \in Locals, NEW q, Turns(api, Stage(api, l), q, Stage(api, k)),
         NEW r, r = Sends(k, q)
  PROVE  Flows(api, l, r) /\ r.h = k /\ r.out = q
<1>1. r.h = k /\ r.out = q
  BY DEF Sends
<1>2. q \in Seq(Chunks)
  BY DEF Turns
<1>3. Issues(r)
  BY <1>1, <1>2 DEF Issues
<1> QED BY <1>1, <1>3 DEF Flows

LEMMA FlowsNothing ==
  ASSUME NEW api, NEW l, NEW k \in Locals, Stage(api, l) = Stage(api, k), NEW r, r = Sends(k, <<>>)
  PROVE  Flows(api, l, r) /\ r.h = k
<1>1. PICK none, p : none = <<>> /\ p = Stage(api, k)
  OBVIOUS
<1>2. Turns(api, p, none, p)
  BY <1>1, TurnsNone
<1> QED BY <1>1, <1>2, FlowsBy

LEMMA OpenedTurns ==
  ASSUME NEW api, NEW kind \in Opened, NEW n \in Nat, NEW s \in Seq(Pieces), NEW open \in BOOLEAN
  PROVE  Turns(api, <<"open", IF open THEN kind ELSE "none", n>>,
               (IF open THEN <<>> ELSE <<Open(kind, n)>>) \o <<Write(kind, n, s)>>,
               <<"open", kind, n>>)
<1>1. PICK first, second, p : /\ first = (IF open THEN <<>> ELSE <<Open(kind, n)>>)
                              /\ second = <<Write(kind, n, s)>>
                              /\ p = <<"open", IF open THEN kind ELSE "none", n>>
  OBVIOUS
<1>2. PICK q : q = <<"open", kind, n>>
  OBVIOUS
<1>3. Turns(api, p, first, q)
  <2>1. CASE open
    <3>1. first = <<>> /\ p = q
      BY <1>1, <1>2, <2>1
    <3> QED BY <3>1, TurnsNone
  <2>2. CASE ~open
    <3>1. first = <<Open(kind, n)>> /\ p = <<"open", "none", n>>
      BY <1>1, <2>2
    <3> QED BY <1>2, <3>1, OpenTurns
  <2> QED BY <2>1, <2>2
<1>4. Turns(api, q, second, q)
  <2>1. Fits(kind, kind) /\ kind \in Opened \cup {"annotation"} /\ kind \in Opened \cup {"bare"}
    BY DEF Fits
  <2> QED BY <1>1, <1>2, <2>1, WriteTurns
<1>5. Turns(api, p, first \o second, q)
  BY <1>3, <1>4, TurnsConcat
<1> QED BY <1>1, <1>2, <1>5

LEMMA BareTurns ==
  ASSUME NEW api, NEW kind \in Opened, NEW s \in Seq(Pieces)
  PROVE  Turns(api, <<"open", "bare", 0>>, <<Write(kind, 0, s)>>, <<"open", "bare", 0>>)
<1>1. PICK part, n : part = "bare" /\ n = 0
  OBVIOUS
<1>2. part \in Opened \cup {"bare"} /\ n \in Nat /\ kind \in Opened \cup {"annotation"}
  BY <1>1
<1>3. Fits(part, kind)
  BY <1>1 DEF Fits
<1>4. Turns(api, <<"open", part, n>>, <<Write(kind, n, s)>>, <<"open", part, n>>)
  BY <1>2, <1>3, WriteTurns
<1> QED BY <1>1, <1>4

LEMMA TextTurns ==
  ASSUME NEW api, NEW n \in Nat, NEW s \in Seq(Pieces), NEW kind \in {"text", "annotation"}
  PROVE  Turns(api, <<"open", "text", n>>, <<Write(kind, n, s)>>, <<"open", "text", n>>)
<1>1. PICK part : part = "text"
  OBVIOUS
<1>2. part \in Opened \cup {"bare"} /\ kind \in Opened \cup {"annotation"}
  BY <1>1 DEF Opened
<1>3. Fits(part, kind)
  BY <1>1 DEF Fits
<1>4. Turns(api, <<"open", part, n>>, <<Write(kind, n, s)>>, <<"open", part, n>>)
  BY <1>2, <1>3, WriteTurns
<1> QED BY <1>1, <1>4

(* Text *)
LEMMA TextFlows ==
  ASSUME NEW api \in Grok \cup Console \cup Build, NEW l \in Locals, NEW s \in Seq(Pieces),
         api \in Numbered => (l.thinking => l.closed)
  PROVE  /\ Flows(api, l, Text(api, l, s))
         /\ Text(api, l, s).h.thinking = l.thinking /\ Text(api, l, s).h.closed = l.closed
         /\ api \in Numbered /\ s = <<>> => Text(api, l, s).h = l
         /\ Text(api, l, s).h.text => l.text \/ (api \in Numbered /\ s # <<>>)
<1>1. PICK r : r = Text(api, l, s)
  OBVIOUS
<1>2. CASE api \in Bares
  <2>1. PICK p : p = <<"open", "bare", 0>>
    OBVIOUS
  <2>2. Stage(api, l) = p
    BY <1>2, <2>1 DEF Stage, PartOf, NumberOf, Bares
  <2>3. PICK q : q = IF api = "chat" /\ s = <<>> THEN <<>> ELSE <<Write("text", 0, s)>>
    OBVIOUS
  <2>4. Turns(api, p, q, p)
    <3>1. CASE api = "chat" /\ s = <<>>
      BY <2>3, <3>1, TurnsNone
    <3>2. CASE ~(api = "chat" /\ s = <<>>)
      <4>1. "text" \in Opened
        BY DEF Opened
      <4> QED BY <2>1, <2>3, <3>2, <4>1, BareTurns
    <3> QED BY <3>1, <3>2
  <2>5. r = Sends(l, q)
    BY <1>1, <1>2, <2>3 DEF Text, ChatText, ConsoleChatText, BuildChatText, Bares
  <2>6. Flows(api, l, r) /\ r.h = l
    BY <2>2, <2>4, <2>5, FlowsBy
  <2> QED BY <1>1, <2>6
<1>3. CASE api \in Ready
  <2>1. PICK p, q, n, part : p = <<"open", part, n>> /\ n = 0 /\ part = "text" /\ q = <<Write("text", n, s)>>
    OBVIOUS
  <2>2. Stage(api, l) = p
    BY <1>3, <2>1 DEF Stage, PartOf, NumberOf, Bares, Ready
  <2>3. Turns(api, p, q, p)
    <3>1. n \in Nat
      BY <2>1
    <3> QED BY <2>1, <3>1, TextTurns
  <2>4. r = Sends(l, q)
    BY <1>1, <1>3, <2>1 DEF Text, ConsoleMessagesText, ConsoleResponsesText, BuildMessagesText, Ready
  <2>5. Flows(api, l, r) /\ r.h = l
    BY <2>2, <2>3, <2>4, FlowsBy
  <2> QED BY <1>1, <2>5
<1>4. CASE api \in Numbered /\ s = <<>>
  <2>1. r = Sends(l, <<>>)
    BY <1>1, <1>4 DEF Text, MessagesText, ResponsesText, Numbered
  <2>2. Flows(api, l, r) /\ r.h = l
    BY <2>1, FlowsNothing
  <2> QED BY <1>1, <2>2
<1>5. CASE api \in Numbered /\ s # <<>>
  <2>1. PICK i, open, k, yes :
          /\ i = (IF api = "messages" THEN l.index ELSE NextItem(l))
          /\ open = l.text /\ yes = TRUE /\ k = [l EXCEPT !.text = yes]
    OBVIOUS
  <2>2. i \in Nat /\ open \in BOOLEAN
    BY <2>1 DEF Locals, NextItem
  <2>3. yes \in BOOLEAN
    BY <2>1
  <2>4. /\ k \in Locals /\ k.thinking = l.thinking /\ k.closed = l.closed /\ k.index = l.index
        /\ k.text = yes
    BY <2>1, <2>3 DEF Locals
  <2>5. PICK q : q = (IF open THEN <<>> ELSE <<Open("text", i)>>) \o <<Write("text", i, s)>>
    OBVIOUS
  <2>6. r = Sends(k, q)
    BY <1>1, <1>5, <2>1, <2>5 DEF Text, MessagesText, ResponsesText, Numbered
  <2>7. NumberOf(api, l) = i /\ NumberOf(api, k) = i
    BY <1>5, <2>1, <2>4 DEF NumberOf, NextItem, Numbered
  <2>8. PartOf(api, l) = (IF open THEN "text" ELSE "none") /\ PartOf(api, k) = "text"
    BY <1>5, <2>1, <2>4 DEF PartOf, Numbered, Bares, Ready
  <2>9. Turns(api, <<"open", IF open THEN "text" ELSE "none", i>>, q, <<"open", "text", i>>)
    <3>1. PICK kind : kind = "text"
      OBVIOUS
    <3>2. kind \in Opened
      BY <3>1 DEF Opened
    <3> QED BY <2>2, <2>5, <3>1, <3>2, OpenedTurns
  <2>10. Turns(api, Stage(api, l), q, Stage(api, k))
    BY <2>7, <2>8, <2>9 DEF Stage
  <2>11. Flows(api, l, r) /\ r.h = k
    BY <2>4, <2>6, <2>10, FlowsBy
  <2> QED BY <1>1, <1>5, <2>4, <2>11
<1>6. api \in Bares \cup Ready \cup Numbered
  BY DEF Bares, Ready, Numbered, Grok, Console, Build
<1> QED BY <1>2, <1>3, <1>4, <1>5, <1>6

(* The first text closes the thinking. *)
LEMMA CloseThinkingFlows ==
  ASSUME NEW api, NEW l \in Locals, api \in Numbered => Coherent(l)
  PROVE  /\ Flows(api, l, CloseThinking(api, l))
         /\ LET k == CloseThinking(api, l).h
            IN  /\ k \in Locals /\ k.text = l.text /\ k.thinking = l.thinking
                /\ api \in Numbered => (k.thinking => k.closed) /\ Coherent(k)
                /\ api \notin Numbered => k = l
<1>1. PICK r : r = CloseThinking(api, l)
  OBVIOUS
<1>2. CASE api \notin Numbered \/ ~(l.thinking /\ ~l.closed)
  <2>1. r = Sends(l, <<>>)
    BY <1>1, <1>2 DEF CloseThinking, MessagesCloseThinking, ResponsesCloseThinking, Numbered
  <2>2. Flows(api, l, r) /\ r.h = l
    BY <2>1, FlowsNothing
  <2> QED BY <1>1, <1>2, <2>2
<1>3. CASE api \in Numbered /\ l.thinking /\ ~l.closed
  <2>1. PICK yes, i, g, k :
          /\ yes = TRUE /\ i = (IF api = "messages" THEN l.index + 1 ELSE l.index)
          /\ g = [l EXCEPT !.closed = yes] /\ k = [g EXCEPT !.index = i]
    OBVIOUS
  <2>2. i \in Nat /\ l.index \in Nat
    BY <2>1 DEF Locals
  <2>3. yes \in BOOLEAN
    BY <2>1
  <2>4. /\ g \in Locals /\ g.thinking = l.thinking /\ g.closed = yes /\ g.text = l.text
        /\ g.index = l.index
    BY <2>1, <2>3 DEF Locals
  <2>5. /\ k \in Locals /\ k.thinking = g.thinking /\ k.closed = yes /\ k.text = g.text
        /\ k.index = i
    BY <2>1, <2>2, <2>4 DEF Locals
  <2>6. PICK kind, n : /\ kind = (IF api = "messages" THEN "thinking" ELSE "reasoning")
                       /\ n = (IF api = "messages" THEN l.index ELSE 0)
    OBVIOUS
  <2>7. n \in Nat /\ kind \in Opened
    <3>1. n \in Nat
      BY <2>2, <2>6
    <3>2. kind \in Opened
      BY <2>6 DEF Opened
    <3> QED BY <3>1, <3>2
  <2>8. r = Sends(k, <<Close(kind, n)>>)
    <3>1. CASE api = "messages"
      <4>1. k = [l EXCEPT !.closed = TRUE, !.index = @ + 1]
        BY <2>1, <3>1
      <4> QED BY <1>1, <1>3, <2>6, <3>1, <4>1 DEF CloseThinking, MessagesCloseThinking
    <3>2. CASE api = "responses"
      <4>1. i = g.index
        BY <2>1, <2>4, <3>2
      <4>2. k = g
        BY <2>1, <2>4, <4>1 DEF Locals
      <4> QED BY <1>1, <1>3, <2>1, <2>6, <3>2, <4>2 DEF CloseThinking, ResponsesCloseThinking
    <3> QED BY <1>3, <3>1, <3>2 DEF Numbered
  <2>9. ~l.text
    BY <1>3 DEF Coherent
  <2>10. PartOf(api, l) = kind /\ PartOf(api, k) = "none"
    BY <1>3, <2>1, <2>4, <2>5, <2>6, <2>9 DEF PartOf, Numbered, Bares, Ready
  <2>11. NumberOf(api, l) = n /\ NumberOf(api, k) = n + 1
    <3>1. CASE api = "messages"
      BY <2>1, <2>5, <2>6, <3>1 DEF NumberOf
    <3>2. CASE api = "responses"
      <4>1. 0 + 1 = 1
        OBVIOUS
      <4>2. k.closed /\ k.thinking
        BY <1>3, <2>1, <2>4, <2>5
      <4> QED BY <1>3, <2>6, <2>9, <3>2, <4>1, <4>2 DEF NumberOf
    <3> QED BY <1>3, <3>1, <3>2 DEF Numbered
  <2>12. Turns(api, Stage(api, l), <<Close(kind, n)>>, Stage(api, k))
    BY <2>7, <2>10, <2>11, CloseTurns DEF Stage
  <2>13. Flows(api, l, r) /\ r.h = k
    BY <2>5, <2>8, <2>12, FlowsBy
  <2>14. k.closed /\ k.thinking /\ Coherent(k)
    BY <1>3, <2>1, <2>4, <2>5 DEF Coherent
  <2> QED BY <1>1, <1>3, <2>4, <2>5, <2>13, <2>14
<1> QED BY <1>2, <1>3

(* Thinking, while there is no text *)
LEMMA ThinkingFlows ==
  ASSUME NEW api \in Grok, NEW l \in Locals, api \in Numbered => ~l.text /\ ~l.closed
  PROVE  /\ Flows(api, l, Thinking(api, l))
         /\ LET k == Thinking(api, l).h
            IN  k \in Locals /\ k.text = l.text /\ k.closed = l.closed
<1>1. PICK r, none : r = Thinking(api, l) /\ none = <<>>
  OBVIOUS
<1>2. none \in Seq(Pieces)
  BY <1>1, NoText
<1>3. CASE api = "chat"
  <2>1. PICK p : p = <<"open", "bare", 0>>
    OBVIOUS
  <2>2. Stage(api, l) = p
    BY <1>3, <2>1 DEF Stage, PartOf, NumberOf, Bares
  <2>3. "thinking" \in Opened
    BY DEF Opened
  <2>4. Turns(api, p, <<Write("thinking", 0, none)>>, p)
    BY <1>2, <2>1, <2>3, BareTurns
  <2>5. r = Sends(l, <<Write("thinking", 0, none)>>)
    BY <1>1, <1>3 DEF Thinking, ChatThinking
  <2> QED BY <1>1, <2>2, <2>4, <2>5, FlowsBy
<1>4. CASE api \in Numbered
  <2>1. PICK kind, n, k, open, yes :
          /\ kind = (IF api = "messages" THEN "thinking" ELSE "reasoning")
          /\ n = (IF api = "messages" THEN l.index ELSE 0)
          /\ yes = TRUE /\ k = [l EXCEPT !.thinking = yes] /\ open = l.thinking
    OBVIOUS
  <2>2. open \in BOOLEAN
    BY <2>1 DEF Locals
  <2>3. yes \in BOOLEAN
    BY <2>1
  <2>4. n \in Nat
    <3>1. l.index \in Nat
      BY DEF Locals
    <3> QED BY <2>1, <3>1
  <2>5. kind \in Opened
    BY <2>1 DEF Opened
  <2>6. /\ k \in Locals /\ k.thinking = yes /\ k.closed = l.closed /\ k.text = l.text
        /\ k.index = l.index
    BY <2>1, <2>3 DEF Locals
  <2>7. PICK q : q = (IF open THEN <<>> ELSE <<Open(kind, n)>>) \o <<Write(kind, n, none)>>
    OBVIOUS
  <2>8. r = Sends(k, q)
    BY <1>1, <1>4, <2>1, <2>7 DEF Thinking, MessagesThinking, ResponsesThinking, Numbered
  <2>9. PartOf(api, l) = (IF open THEN kind ELSE "none") /\ PartOf(api, k) = kind
    BY <1>4, <2>1, <2>6 DEF PartOf, Numbered, Bares, Ready
  <2>10. NumberOf(api, l) = n /\ NumberOf(api, k) = n
    BY <1>4, <2>1, <2>6 DEF NumberOf, Numbered
  <2>11. Turns(api, <<"open", IF open THEN kind ELSE "none", n>>, q, <<"open", kind, n>>)
    BY <1>2, <2>2, <2>4, <2>5, <2>7, OpenedTurns
  <2>12. Turns(api, Stage(api, l), q, Stage(api, k))
    BY <2>9, <2>10, <2>11 DEF Stage
  <2> QED BY <1>1, <2>6, <2>8, <2>12, FlowsBy
<1> QED BY <1>3, <1>4 DEF Grok, Numbered

LEMMA NoteFlows ==
  ASSUME NEW api \in Grok, NEW l \in Locals
  PROVE  /\ Flows(api, l, Note(api, l))
         /\ LET k == Note(api, l).h
            IN  k \in Locals /\ k.text = l.text /\ k.closed = l.closed /\ k.thinking = l.thinking
<1>1. PICK r, m, k : r = Note(api, l) /\ m = l.notes + 1 /\ k = [l EXCEPT !.notes = m]
  OBVIOUS
<1>2. m \in Nat
  BY <1>1 DEF Locals
<1>3. /\ k \in Locals /\ k.thinking = l.thinking /\ k.closed = l.closed /\ k.text = l.text
      /\ k.index = l.index
  BY <1>1, <1>2 DEF Locals
<1>4. Stage(api, k) = Stage(api, l)
  BY <1>3 DEF Stage, PartOf, NumberOf
<1>5. CASE api # "responses"
  <2>1. r = Sends(k, <<>>)
    BY <1>1, <1>5 DEF Note, ChatNote
  <2> QED BY <1>1, <1>3, <1>4, <2>1, FlowsNothing
<1>6. CASE api = "responses" /\ ~l.text
  <2>1. r = Sends(l, <<>>)
    BY <1>1, <1>6 DEF Note, ResponsesNote
  <2> QED BY <1>1, <2>1, FlowsNothing
<1>7. CASE api = "responses" /\ l.text
  <2>1. PICK none, i : none = <<>> /\ i = NextItem(l)
    OBVIOUS
  <2>2. i \in Nat
    BY <2>1 DEF NextItem
  <2>3. none \in Seq(Pieces)
    BY <2>1, NoText
  <2>4. PICK q : q = <<Write("annotation", i, none)>>
    OBVIOUS
  <2>5. r = Sends(k, q)
    BY <1>1, <1>7, <2>1, <2>4 DEF Note, ResponsesNote
  <2>6. Turns(api, <<"open", "text", i>>, q, <<"open", "text", i>>)
    BY <2>2, <2>3, <2>4, TextTurns
  <2>7. PartOf(api, l) = "text" /\ NumberOf(api, l) = i
    BY <1>7, <2>1 DEF PartOf, NumberOf, NextItem, Bares, Ready
  <2>8. Turns(api, Stage(api, l), q, Stage(api, k))
    BY <1>4, <2>6, <2>7 DEF Stage
  <2>9. Flows(api, l, r) /\ r.h = k
    BY <1>3, <2>5, <2>8, FlowsBy
  <2> QED BY <1>1, <1>3, <2>9
<1> QED BY <1>5, <1>6, <1>7

(* The finish and the end *)
LEMMA PairIs ==
  ASSUME NEW f, NEW e
  PROVE  <<f>> \o <<e>> = <<f, e>>
<1>1. PICK X, p, q, r, t : X = {f, e} /\ p = <<f>> /\ q = <<e>> /\ r = p \o q /\ t = <<f, e>>
  OBVIOUS
<1>2. p \in Seq(X) /\ q \in Seq(X) /\ Len(p) = 1 /\ Len(q) = 1 /\ p[1] = f /\ q[1] = e
  BY <1>1
<1>3. t \in Seq(X) /\ Len(t) = 2 /\ t[1] = f /\ t[2] = e
  BY <1>1
<1>4. /\ r \in Seq(X) /\ Len(r) = 2
      /\ \A i \in 1..2 : r[i] = IF i <= 1 THEN p[i] ELSE q[i - 1]
  BY <1>1, <1>2, ConcatProperties
<1>5. r[1] = f /\ r[2] = e
  BY <1>2, <1>4
<1>6. \A i \in 1..2 : i = 1 \/ i = 2
  OBVIOUS
<1>7. r = t
  BY <1>3, <1>4, <1>5, <1>6, SeqEqual
<1> QED BY <1>1, <1>7

LEMMA OverTurns ==
  ASSUME NEW api, NEW part \in {"none", "bare", "reasoning"}, NEW n \in Nat,
         NEW reason \in {"tool_calls", "stop", "tool_use", "end_turn", "completed"}
  PROVE  Turns(api, <<"open", part, n>>, <<Finish(reason), End>>, <<"ended", part, n>>)
<1>1. PICK f, e, p, q : f = Finish(reason) /\ e = End /\ p = <<f>> /\ q = <<e>>
  OBVIOUS
<1>2. Turns(api, <<"open", part, n>>, p, <<"finished", part, n>>)
  BY <1>1, FinishTurns
<1>3. Turns(api, <<"finished", part, n>>, q, <<"ended", part, n>>)
  <2>1. PICK phase : phase = "finished"
    OBVIOUS
  <2>2. phase \in {"finished", "failed"}
    BY <2>1
  <2> QED BY <1>1, <2>1, <2>2, EndTurns
<1>4. Turns(api, <<"open", part, n>>, p \o q, <<"ended", part, n>>)
  BY <1>2, <1>3, TurnsConcat
<1>5. p \o q = <<f, e>>
  BY <1>1, PairIs
<1> QED BY <1>1, <1>4, <1>5

(* After a block of calls Chat is over, and no part of the others is open.  *)
Shut(api, p) ==
  /\ api \in Grok
  /\ IF api = "chat" THEN p = <<"ended", "bare", 0>> ELSE \E n \in Nat : p = <<"open", "none", n>>

LEMMA ChatCallsTurn ==
  ASSUME NEW api, api = "chat", NEW l \in Locals, NEW safe \in Seq(Pieces), NEW n \in Nat
  PROVE  Turns(api, Stage(api, l), ChatCalls(l, safe, n).out, <<"ended", "bare", 0>>)
<1>1. PICK none, zero, p, part, call :
        /\ none = <<>> /\ zero = 0 /\ part = "bare" /\ p = <<"open", part, zero>> /\ call = "call"
  OBVIOUS
<1>2. none \in Seq(Pieces) /\ zero \in Nat
  BY <1>1, NoText
<1>3. part \in Opened \cup {"bare"} /\ part \in {"none", "bare", "reasoning"} /\ call \in Opened
  BY <1>1 DEF Opened
<1>4. PICK a, b, c : /\ a = ChatText(l, safe).out /\ b = [i \in 1..n |-> Write(call, zero, none)]
                     /\ c = <<Finish("tool_calls"), End>>
  OBVIOUS
<1>5. Stage(api, l) = p
  BY <1>1 DEF Stage, PartOf, NumberOf, Bares
<1>6. Turns(api, p, a, p)
  <2>1. CASE safe = <<>>
    <3>1. a = <<>>
      BY <1>4, <2>1 DEF ChatText, Sends
    <3> QED BY <3>1, TurnsNone
  <2>2. CASE safe # <<>>
    <3>1. a = <<Write("text", 0, safe)>>
      BY <1>4, <2>2 DEF ChatText, Sends
    <3>2. "text" \in Opened
      BY DEF Opened
    <3> QED BY <1>1, <3>1, <3>2, BareTurns
  <2> QED BY <2>1, <2>2
<1>7. Turns(api, p, b, p)
  <2>1. Fits(part, call)
    BY <1>1 DEF Fits
  <2> QED BY <1>1, <1>2, <1>3, <1>4, <2>1, RepeatTurns
<1>8. Turns(api, p, c, <<"ended", part, zero>>)
  BY <1>1, <1>2, <1>3, <1>4, OverTurns
<1>9. Turns(api, p, a \o b, p)
  BY <1>6, <1>7, TurnsConcat
<1>10. Turns(api, p, a \o b \o c, <<"ended", part, zero>>)
  BY <1>8, <1>9, TurnsConcat
<1>11. ChatCalls(l, safe, n).out = a \o b \o c
  BY <1>1, <1>4 DEF ChatCalls, Sends
<1> QED BY <1>1, <1>5, <1>10, <1>11

(* Calls found in the stream *)
LEMMA CallsTurn ==
  ASSUME NEW api \in Grok, NEW l \in Locals, NEW safe \in Seq(Pieces), NEW n \in Nat,
         api \in Numbered => ~l.text /\ (l.thinking => l.closed)
  PROVE  \E p : Shut(api, p) /\ Turns(api, Stage(api, l), Calls(api, l, safe, n).out, p)
<1>1. CASE api = "chat"
  <2>1. Calls(api, l, safe, n) = ChatCalls(l, safe, n)
    BY <1>1 DEF Calls
  <2> QED BY <1>1, <2>1, ChatCallsTurn DEF Shut
<1>2. CASE api \in Numbered
  <2>1. PICK i, m : i = (IF api = "messages" THEN l.index ELSE NextItem(l)) /\ m = i + n
    OBVIOUS
  <2>2. i \in Nat /\ m \in Nat
    BY <2>1 DEF Locals, NextItem
  <2>3. Stage(api, l) = <<"open", "none", i>>
    BY <1>2, <2>1 DEF Stage, PartOf, NumberOf, NextItem, Numbered, Bares, Ready
  <2>4. Turns(api, <<"open", "none", i>>, MessagesBlocks(i, n), <<"open", "none", m>>)
    BY <2>1, <2>2, BlocksTurn
  <2>5. Calls(api, l, safe, n).out = MessagesBlocks(i, n)
    BY <1>2, <2>1 DEF Calls, MessagesCalls, ResponsesCalls, Sends, Numbered
  <2>6. Shut(api, <<"open", "none", m>>)
    BY <1>2, <2>2 DEF Shut, Numbered
  <2> QED BY <2>3, <2>4, <2>5, <2>6
<1> QED BY <1>1, <1>2 DEF Grok, Numbered

(* Calls found at its end, where Messages closes the text first *)
LEMMA CallsAtEndTurn ==
  ASSUME NEW api \in Grok, NEW l \in Locals, NEW n \in Nat,
         api \in Numbered => (l.thinking => l.closed), api = "responses" => ~l.text
  PROVE  \E p : Shut(api, p) /\ Turns(api, Stage(api, l), CallsAtEnd(api, l, n).out, p)
<1>1. CASE api = "chat"
  <2>1. CallsAtEnd(api, l, n) = ChatCalls(l, <<>>, n)
    BY <1>1 DEF CallsAtEnd
  <2>2. PICK none : none = <<>>
    OBVIOUS
  <2>3. none \in Seq(Pieces)
    BY <2>2, NoText
  <2>4. Turns(api, Stage(api, l), ChatCalls(l, none, n).out, <<"ended", "bare", 0>>)
    BY <1>1, <2>3, ChatCallsTurn
  <2> QED BY <1>1, <2>1, <2>2, <2>4 DEF Shut
<1>2. CASE api = "messages"
  <2>1. PICK i, from, m, q, text : /\ i = l.index /\ from = (IF l.text THEN l.index + 1 ELSE l.index)
                                   /\ m = from + n /\ q = MessagesBlocks(from, n) /\ text = "text"
    OBVIOUS
  <2>2. i \in Nat /\ from \in Nat /\ m \in Nat
    BY <2>1 DEF Locals
  <2>3. Turns(api, <<"open", "none", from>>, q, <<"open", "none", m>>)
    BY <2>1, <2>2, BlocksTurn
  <2>4. PICK shut : shut = IF l.text THEN <<Close(text, i)>> ELSE <<>>
    OBVIOUS
  <2>5. Turns(api, Stage(api, l), shut, <<"open", "none", from>>)
    <3>1. CASE l.text
      <4>1. Stage(api, l) = <<"open", text, i>>
        BY <1>2, <2>1, <3>1 DEF Stage, PartOf, NumberOf, Bares, Ready
      <4>2. shut = <<Close(text, i)>> /\ from = i + 1
        BY <2>1, <2>4, <3>1
      <4>3. text \in Opened
        BY <2>1 DEF Opened
      <4> QED BY <2>2, <4>1, <4>2, <4>3, CloseTurns
    <3>2. CASE ~l.text
      <4>1. Stage(api, l) = <<"open", "none", from>>
        BY <1>2, <2>1, <3>2 DEF Stage, PartOf, NumberOf, Numbered, Bares, Ready
      <4>2. shut = <<>>
        BY <2>4, <3>2
      <4> QED BY <4>1, <4>2, TurnsNone
    <3> QED BY <3>1, <3>2
  <2>6. Turns(api, Stage(api, l), shut \o q, <<"open", "none", m>>)
    BY <2>3, <2>5, TurnsConcat
  <2>7. CallsAtEnd(api, l, n).out = shut \o q
    BY <1>2, <2>1, <2>4 DEF CallsAtEnd, MessagesCallsAtEnd, Sends
  <2>8. Shut(api, <<"open", "none", m>>)
    BY <1>2, <2>2 DEF Shut
  <2> QED BY <2>6, <2>7, <2>8
<1>3. CASE api = "responses"
  <2>1. PICK i, m : i = NextItem(l) /\ m = i + n
    OBVIOUS
  <2>2. i \in Nat /\ m \in Nat
    BY <2>1 DEF NextItem
  <2>3. Stage(api, l) = <<"open", "none", i>>
    BY <1>3, <2>1 DEF Stage, PartOf, NumberOf, NextItem, Numbered, Bares, Ready
  <2>4. Turns(api, <<"open", "none", i>>, MessagesBlocks(i, n), <<"open", "none", m>>)
    BY <2>1, <2>2, BlocksTurn
  <2>5. CallsAtEnd(api, l, n).out = MessagesBlocks(i, n)
    BY <1>3, <2>1 DEF CallsAtEnd, ResponsesCalls, Sends
  <2>6. Shut(api, <<"open", "none", m>>)
    BY <1>3, <2>2 DEF Shut
  <2> QED BY <2>3, <2>4, <2>5, <2>6
<1> QED BY <1>1, <1>2, <1>3 DEF Grok

(* The images and the sources at the end of the text *)
LEMMA TailTurns ==
  ASSUME NEW api, NEW part \in {"bare", "text"}, NEW n \in Nat, NEW images \in Nat, NEW sources
  PROVE  Turns(api, <<"open", part, n>>,
               [j \in 1..images |-> Write("text", n, <<"g">>)]
                 \o (IF sources THEN <<Write("text", n, <<"s">>)>> ELSE <<>>),
               <<"open", part, n>>)
<1>1. PICK g, s, kind, p : g = <<"g">> /\ s = <<"s">> /\ kind = "text" /\ p = <<"open", part, n>>
  OBVIOUS
<1>2. g \in Seq(Pieces) /\ s \in Seq(Pieces)
  BY <1>1 DEF Pieces
<1>3. kind \in Opened /\ kind \in Opened \cup {"annotation"} /\ part \in Opened \cup {"bare"}
  BY <1>1 DEF Opened
<1>4. Fits(part, kind)
  BY <1>1 DEF Fits
<1>5. PICK a, b : /\ a = [j \in 1..images |-> Write(kind, n, g)]
                  /\ b = (IF sources THEN <<Write(kind, n, s)>> ELSE <<>>)
  OBVIOUS
<1>6. Turns(api, p, a, p)
  BY <1>1, <1>2, <1>3, <1>4, <1>5, RepeatTurns
<1>7. Turns(api, p, b, p)
  <2>1. CASE sources
    <3>1. b = <<Write(kind, n, s)>>
      BY <1>5, <2>1
    <3> QED BY <1>1, <1>2, <1>3, <1>4, <3>1, WriteTurns
  <2>2. CASE ~sources
    <3>1. b = <<>>
      BY <1>5, <2>2
    <3> QED BY <3>1, TurnsNone
  <2> QED BY <2>1, <2>2
<1>8. Turns(api, p, a \o b, p)
  BY <1>6, <1>7, TurnsConcat
<1> QED BY <1>1, <1>5, <1>8

(* What is left to send after calls: nothing in Chat, the end in the others. *)
LEMMA ShutTurns ==
  ASSUME NEW api \in Grok, NEW l, NEW a, NEW where, where # "", NEW p, Shut(api, p)
  PROVE  \E s : Turns(api, p, Finishing(api, l, a, where).out, s)
<1>1. CASE api = "chat"
  <2>1. Finishing(api, l, a, where).out = <<>>
    BY <1>1 DEF Finishing, Sends
  <2> QED BY <2>1, TurnsNone
<1>2. CASE api # "chat"
  <2>1. PICK n \in Nat : p = <<"open", "none", n>>
    BY <1>2 DEF Shut
  <2>2. PICK reason, part : /\ reason = (IF api = "messages" THEN "tool_use" ELSE "completed")
                            /\ part = "none"
    OBVIOUS
  <2>3. Finishing(api, l, a, where).out = <<Finish(reason), End>>
    BY <1>2, <2>2 DEF Finishing, MessagesFinish, ResponsesFinish, Sends, Grok
  <2>4. part \in {"none", "bare", "reasoning"}
    BY <2>2
  <2>5. reason \in {"tool_calls", "stop", "tool_use", "end_turn", "completed"}
    BY <2>2
  <2>6. Turns(api, <<"open", part, n>>, <<Finish(reason), End>>, <<"ended", part, n>>)
    BY <2>4, <2>5, OverTurns
  <2> QED BY <2>1, <2>2, <2>3, <2>6
<1> QED BY <1>1, <1>2

LEMMA ChatFinishTurns ==
  ASSUME NEW api, NEW l, NEW images \in Nat, NEW sources, NEW part, part = "bare", NEW n, n = 0
  PROVE  Turns(api, <<"open", part, n>>, ChatFinish(l, images, sources).out, <<"ended", part, n>>)
<1>1. PICK a, b : /\ a = [j \in 1..images |-> Write("text", n, <<"g">>)]
                         \o (IF sources THEN <<Write("text", n, <<"s">>)>> ELSE <<>>)
                  /\ b = <<Finish("stop"), End>>
  OBVIOUS
<1>2. n \in Nat
  OBVIOUS
<1>3. part \in {"bare", "text"} /\ part \in {"none", "bare", "reasoning"}
  OBVIOUS
<1>4. Turns(api, <<"open", part, n>>, a, <<"open", part, n>>)
  BY <1>1, <1>2, <1>3, TailTurns
<1>5. Turns(api, <<"open", part, n>>, b, <<"ended", part, n>>)
  BY <1>1, <1>2, <1>3, OverTurns
<1>6. Turns(api, <<"open", part, n>>, a \o b, <<"ended", part, n>>)
  BY <1>4, <1>5, TurnsConcat
<1>7. ChatFinish(l, images, sources).out = a \o b
  BY <1>1 DEF ChatFinish, Sends
<1> QED BY <1>6, <1>7

(* A part that is closed before the answer is finished *)
LEMMA LastTurns ==
  ASSUME NEW api, NEW kind \in Opened, NEW n \in Nat,
         NEW reason \in {"tool_calls", "stop", "tool_use", "end_turn", "completed"}
  PROVE  Turns(api, <<"open", kind, n>>, <<Close(kind, n)>> \o <<Finish(reason), End>>,
               <<"ended", "none", n + 1>>)
<1>1. PICK part, m : part = "none" /\ m = n + 1
  OBVIOUS
<1>2. part \in {"none", "bare", "reasoning"}
  BY <1>1
<1>3. m \in Nat
  BY <1>1
<1>4. Turns(api, <<"open", kind, n>>, <<Close(kind, n)>>, <<"open", part, m>>)
  BY <1>1, CloseTurns
<1>5. Turns(api, <<"open", part, m>>, <<Finish(reason), End>>, <<"ended", part, m>>)
  BY <1>2, <1>3, OverTurns
<1> QED BY <1>1, <1>4, <1>5, TurnsConcat

LEMMA MessagesFinishTurns ==
  ASSUME NEW api, api = "messages", NEW l \in Locals, Coherent(l), NEW images \in Nat, NEW sources
  PROVE  \E s : Turns(api, Stage(api, l), MessagesFinish(l, images, sources, FALSE).out, s)
<1>1. PICK i, over, none : i = l.index /\ over = <<Finish("end_turn"), End>> /\ none = <<>>
  OBVIOUS
<1>2. i \in Nat /\ Len(none) = 0
  BY <1>1 DEF Locals
<1>3. PICK sent : sent = MessagesFinish(l, images, sources, FALSE).out
  OBVIOUS
<1>4. PICK text, kind : text = "text" /\ kind = "thinking"
  OBVIOUS
<1>5. text \in Opened /\ kind \in Opened /\ text \in {"bare", "text"}
  BY <1>4 DEF Opened
<1>6. over \in Seq(Chunks)
  <2>1. Turns(api, <<"open", "none", i>>, over, <<"ended", "none", i>>)
    <3>1. PICK part : part = "none"
      OBVIOUS
    <3>2. part \in {"none", "bare", "reasoning"}
      BY <3>1
    <3> QED BY <1>1, <1>2, <3>1, <3>2, OverTurns
  <2> QED BY <2>1 DEF Turns
<1>7. CASE l.text
  <2>1. PICK a, c : /\ a = [j \in 1..images |-> Write("text", i, <<"g">>)]
                            \o (IF sources THEN <<Write("text", i, <<"s">>)>> ELSE <<>>)
                    /\ c = <<Close(text, i)>>
    OBVIOUS
  <2>2. Turns(api, <<"open", text, i>>, a, <<"open", text, i>>)
    BY <1>2, <1>4, <1>5, <2>1, TailTurns
  <2>3. Turns(api, <<"open", text, i>>, c, <<"open", "none", i + 1>>)
    BY <1>2, <1>5, <2>1, CloseTurns
  <2>4. Turns(api, <<"open", text, i>>, c \o over, <<"ended", "none", i + 1>>)
    BY <1>1, <1>2, <1>5, <2>1, LastTurns
  <2>5. Turns(api, <<"open", text, i>>, a \o (c \o over), <<"ended", "none", i + 1>>)
    BY <2>2, <2>4, TurnsConcat
  <2>6. a \in Seq(Chunks) /\ c \in Seq(Chunks)
    BY <2>2, <2>3 DEF Turns
  <2>7. i + 0 = i
    BY <1>2
  <2>8. sent = a \o none \o c \o over
    <3>1. ~(l.thinking /\ ~l.closed)
      BY <1>7 DEF Coherent
    <3> QED BY <1>1, <1>2, <1>3, <1>4, <1>7, <2>1, <2>7, <3>1 DEF MessagesFinish, Sends
  <2>9. a \o none \o c \o over = a \o (c \o over)
    <3>1. a \o none = a
      BY <1>1, <2>6
    <3>2. (a \o c) \o over = a \o (c \o over)
      BY <1>6, <2>6
    <3> QED BY <3>1, <3>2
  <2>10. Stage(api, l) = <<"open", text, i>>
    BY <1>1, <1>4, <1>7 DEF Stage, PartOf, NumberOf, Bares, Ready
  <2> QED BY <1>3, <2>5, <2>8, <2>9, <2>10
<1>8. CASE ~l.text /\ l.thinking /\ ~l.closed
  <2>1. PICK c : c = <<Close(kind, i)>>
    OBVIOUS
  <2>2. Turns(api, <<"open", kind, i>>, c \o over, <<"ended", "none", i + 1>>)
    BY <1>1, <1>2, <1>5, <2>1, LastTurns
  <2>3. c \in Seq(Chunks)
    BY <1>2, <1>4, <2>1, CloseOne
  <2>4. sent = none \o c \o none \o over
    BY <1>1, <1>3, <1>4, <1>8, <2>1 DEF MessagesFinish, Sends
  <2>5. none \o c \o none \o over = c \o over
    <3>1. none \o c = c /\ c \o none = c
      BY <1>1, <2>3
    <3> QED BY <3>1
  <2>6. Stage(api, l) = <<"open", kind, i>>
    BY <1>1, <1>4, <1>8 DEF Stage, PartOf, NumberOf, Bares, Ready
  <2> QED BY <1>3, <2>2, <2>4, <2>5, <2>6
<1>9. CASE ~l.text /\ ~(l.thinking /\ ~l.closed)
  <2>1. PICK part : part = "none"
    OBVIOUS
  <2>2. part \in {"none", "bare", "reasoning"}
    BY <2>1
  <2>3. Turns(api, <<"open", part, i>>, over, <<"ended", part, i>>)
    BY <1>1, <1>2, <2>2, OverTurns
  <2>4. sent = none \o none \o none \o over
    BY <1>1, <1>3, <1>9 DEF MessagesFinish, Sends
  <2>5. none \o none \o none \o over = over
    <3>1. none \o none = none /\ none \o over = over
      BY <1>1, <1>6
    <3> QED BY <3>1
  <2>6. Stage(api, l) = <<"open", part, i>>
    BY <1>1, <1>9, <2>1 DEF Stage, PartOf, NumberOf, Bares, Ready
  <2> QED BY <1>3, <2>3, <2>4, <2>5, <2>6
<1> QED BY <1>7, <1>8, <1>9

LEMMA ResponsesFinishTurns ==
  ASSUME NEW api, api = "responses", NEW l \in Locals, Coherent(l), NEW images \in Nat, NEW sources
  PROVE  \E s : Turns(api, Stage(api, l), ResponsesFinish(l, images, sources, FALSE).out, s)
<1>1. PICK i, over, none : i = NextItem(l) /\ over = <<Finish("completed"), End>> /\ none = <<>>
  OBVIOUS
<1>2. i \in Nat
  BY <1>1 DEF NextItem
<1>3. PICK sent, text : sent = ResponsesFinish(l, images, sources, FALSE).out /\ text = "text"
  OBVIOUS
<1>4. CASE l.text
  <2>1. PICK a, b, c : /\ a = [j \in 1..images |-> Write("text", i, <<"g">>)]
                       /\ b = (IF sources THEN <<Write("text", i, <<"s">>)>> ELSE <<>>)
                       /\ c = <<Close(text, i)>>
    OBVIOUS
  <2>2. text \in Opened /\ text \in {"bare", "text"}
    BY <1>3 DEF Opened
  <2>3. Turns(api, <<"open", text, i>>, a \o b, <<"open", text, i>>)
    BY <1>2, <1>3, <2>1, <2>2, TailTurns
  <2>4. Turns(api, <<"open", text, i>>, c \o over, <<"ended", "none", i + 1>>)
    BY <1>1, <1>2, <2>1, <2>2, LastTurns
  <2>5. Turns(api, <<"open", text, i>>, (a \o b) \o (c \o over), <<"ended", "none", i + 1>>)
    BY <2>3, <2>4, TurnsConcat
  <2>6. sent = ((a \o b) \o c) \o over
    BY <1>1, <1>3, <1>4, <2>1 DEF ResponsesFinish, Sends
  <2>7. ((a \o b) \o c) \o over = (a \o b) \o (c \o over)
    <3>1. PICK ab : ab = a \o b
      OBVIOUS
    <3>2. ab \in Seq(Chunks)
      BY <2>3, <3>1 DEF Turns
    <3>3. c \in Seq(Chunks)
      BY <1>2, <1>3, <2>1, CloseOne
    <3>4. over \in Seq(Chunks)
      <4>1. PICK part : part = "none"
        OBVIOUS
      <4>2. part \in {"none", "bare", "reasoning"}
        BY <4>1
      <4>3. Turns(api, <<"open", part, i>>, over, <<"ended", part, i>>)
        BY <1>1, <1>2, <4>2, OverTurns
      <4> QED BY <4>3 DEF Turns
    <3>5. (ab \o c) \o over = ab \o (c \o over)
      BY <3>2, <3>3, <3>4
    <3> QED BY <3>1, <3>5
  <2>8. Stage(api, l) = <<"open", text, i>>
    BY <1>1, <1>3, <1>4 DEF Stage, PartOf, NumberOf, NextItem, Bares, Ready
  <2> QED BY <1>3, <2>5, <2>6, <2>7, <2>8
<1>5. CASE ~l.text
  <2>1. PICK part, n : part = PartOf(api, l) /\ n = NumberOf(api, l)
    OBVIOUS
  <2>2. part \in {"none", "bare", "reasoning"}
    BY <1>5, <2>1 DEF PartOf, Bares, Ready
  <2>3. n \in Nat
    BY <2>1 DEF NumberOf
  <2>4. Turns(api, <<"open", part, n>>, over, <<"ended", part, n>>)
    BY <1>1, <2>2, <2>3, OverTurns
  <2>5. sent = none \o over
    BY <1>1, <1>3, <1>5 DEF ResponsesFinish, Sends
  <2>6. none \o over = over
    <3>1. over \in Seq(Chunks)
      BY <2>4 DEF Turns
    <3> QED BY <1>1, <3>1
  <2> QED BY <1>3, <2>1, <2>4, <2>5, <2>6 DEF Stage
<1> QED BY <1>4, <1>5

(* The end of an answer without calls *)
LEMMA FinishingTurns ==
  ASSUME NEW api \in Grok \cup Console \cup Build, NEW l \in Locals, NEW a,
         api \in Numbered => Coherent(l), api \in Grok => a.images \in Nat
  PROVE  \E s : Turns(api, Stage(api, l), Finishing(api, l, a, "").out, s)
<1>1. PICK sent : sent = Finishing(api, l, a, "").out
  OBVIOUS
<1>2. CASE api = "chat"
  <2>1. PICK part, n, images, sources : part = "bare" /\ n = 0 /\ images = a.images /\ sources = a.sources
    OBVIOUS
  <2>2. images \in Nat
    BY <1>2, <2>1 DEF Grok
  <2>3. sent = ChatFinish(l, images, sources).out
    BY <1>1, <1>2, <2>1 DEF Finishing
  <2>4. Turns(api, <<"open", part, n>>, ChatFinish(l, images, sources).out, <<"ended", part, n>>)
    BY <2>1, <2>2, ChatFinishTurns
  <2>5. Stage(api, l) = <<"open", part, n>>
    BY <1>2, <2>1 DEF Stage, PartOf, NumberOf, Bares
  <2> QED BY <1>1, <2>3, <2>4, <2>5
<1>3. CASE api \in Numbered
  <2>1. PICK images, sources : images = a.images /\ sources = a.sources
    OBVIOUS
  <2>2. images \in Nat
    BY <1>3, <2>1 DEF Grok, Numbered
  <2>3. CASE api = "messages"
    <3>1. sent = MessagesFinish(l, images, sources, FALSE).out
      BY <1>1, <2>1, <2>3 DEF Finishing
    <3> QED BY <1>1, <1>3, <2>2, <2>3, <3>1, MessagesFinishTurns
  <2>4. CASE api = "responses"
    <3>1. sent = ResponsesFinish(l, images, sources, FALSE).out
      BY <1>1, <2>1, <2>4 DEF Finishing
    <3> QED BY <1>1, <1>3, <2>2, <2>4, <3>1, ResponsesFinishTurns
  <2> QED BY <1>3, <2>3, <2>4 DEF Numbered
<1>4. CASE api \in {"console_chat", "build_chat"}
  <2>1. PICK part, n, reason : part = "bare" /\ n = 0 /\ reason = "stop"
    OBVIOUS
  <2>2. part \in {"none", "bare", "reasoning"}
    BY <2>1
  <2>3. n \in Nat
    BY <2>1
  <2>4. reason \in {"tool_calls", "stop", "tool_use", "end_turn", "completed"}
    BY <2>1
  <2>5. Turns(api, <<"open", part, n>>, <<Finish(reason), End>>, <<"ended", part, n>>)
    BY <2>2, <2>3, <2>4, OverTurns
  <2>6. sent = <<Finish(reason), End>>
    BY <1>1, <1>4, <2>1 DEF Finishing, ConsoleChatFinish, BuildChatFinish, Sends
  <2>7. Stage(api, l) = <<"open", part, n>>
    BY <1>4, <2>1 DEF Stage, PartOf, NumberOf, Bares
  <2> QED BY <1>1, <2>5, <2>6, <2>7
<1>5. CASE api \in Ready
  <2>1. PICK part, n, reason : /\ part = "text" /\ n = 0
                               /\ reason = (IF api = "console_responses" THEN "completed" ELSE "end_turn")
    OBVIOUS
  <2>2. part \in Opened
    BY <2>1 DEF Opened
  <2>3. n \in Nat
    BY <2>1
  <2>4. reason \in {"tool_calls", "stop", "tool_use", "end_turn", "completed"}
    BY <2>1
  <2>5. Stage(api, l) = <<"open", part, n>>
    BY <1>5, <2>1 DEF Stage, PartOf, NumberOf, Bares, Ready
  <2>6. PICK c, f, e : c = Close(part, n) /\ f = Finish(reason) /\ e = End
    OBVIOUS
  <2>7. CASE api # "build_messages"
    <3>1. sent = <<c, f, e>>
      BY <1>1, <1>5, <2>1, <2>6, <2>7 DEF Finishing, ConsoleMessagesFinish, ConsoleResponsesFinish, Sends, Ready
    <3>2. <<c, f, e>> = <<c>> \o <<f, e>>
      BY Prefixed
    <3>3. Turns(api, <<"open", part, n>>, <<c>> \o <<f, e>>, <<"ended", "none", n + 1>>)
      BY <2>2, <2>3, <2>4, <2>6, LastTurns
    <3> QED BY <1>1, <2>5, <3>1, <3>2, <3>3
  <2>8. CASE api = "build_messages"
    <3>1. sent = <<c, f>>
      BY <1>1, <2>1, <2>6, <2>8 DEF Finishing, BuildMessagesFinish, Sends
    <3>2. <<c, f>> = <<c>> \o <<f>>
      BY PairIs
    <3>3. PICK none, m : none = "none" /\ m = n + 1
      OBVIOUS
    <3>4. none \in {"none", "bare", "reasoning"}
      BY <3>3
    <3>5. m \in Nat
      BY <2>3, <3>3
    <3>6. Turns(api, <<"open", part, n>>, <<c>>, <<"open", none, m>>)
      BY <2>2, <2>3, <2>6, <3>3, CloseTurns
    <3>7. Turns(api, <<"open", none, m>>, <<f>>, <<"finished", none, m>>)
      BY <2>4, <2>6, <3>4, <3>5, FinishTurns
    <3>8. Turns(api, <<"open", part, n>>, <<c>> \o <<f>>, <<"finished", none, m>>)
      BY <3>6, <3>7, TurnsConcat
    <3> QED BY <1>1, <2>5, <3>1, <3>2, <3>8
  <2> QED BY <2>7, <2>8
<1>6. api \in Bares \cup Ready \cup Numbered
  BY DEF Bares, Ready, Numbered, Grok, Console, Build
<1> QED BY <1>2, <1>3, <1>4, <1>5, <1>6 DEF Bares

(* An answer begins, or begins again. *)
LEMMA OpeningTurns ==
  ASSUME NEW api \in Grok \cup Console \cup Build, NEW phase \in {"idle", "open"}, NEW part, NEW n
  PROVE  Turns(api, <<phase, part, n>>, Opening(api), Stage(api, NewLocals))
<1>1. PICK first, zero : first = First(api) /\ zero = 0
  OBVIOUS
<1>2. Turns(api, <<phase, part, n>>, <<Begin>>, <<"open", first, zero>>)
  BY <1>1, BeginTurns
<1>3. ~NewLocals.thinking /\ ~NewLocals.text /\ NewLocals.index = zero
  BY <1>1 DEF NewLocals
<1>4. CASE api \notin Ready
  <2>1. Opening(api) = <<Begin>>
    BY <1>4 DEF Opening, ChatBegin, MessagesBegin, ResponsesBegin, ConsoleChatBegin, BuildChatBegin,
                Ready, Grok, Console, Build
  <2>2. PartOf(api, NewLocals) = first
    BY <1>1, <1>3, <1>4 DEF PartOf, First, Bares, Ready
  <2>3. NumberOf(api, NewLocals) = zero
    BY <1>1, <1>3 DEF NumberOf
  <2> QED BY <1>2, <2>1, <2>2, <2>3 DEF Stage
<1>5. CASE api \in Ready
  <2>1. PICK text : text = "text"
    OBVIOUS
  <2>2. text \in Opened /\ zero \in Nat
    BY <1>1, <2>1 DEF Opened
  <2>3. first = "none"
    BY <1>1, <1>5 DEF First, Ready
  <2>4. Turns(api, <<"open", first, zero>>, <<Open(text, zero)>>, <<"open", text, zero>>)
    BY <2>2, <2>3, OpenTurns
  <2>5. Turns(api, <<phase, part, n>>, <<Begin>> \o <<Open(text, zero)>>, <<"open", text, zero>>)
    BY <1>2, <2>4, TurnsConcat
  <2>6. Opening(api) = <<Begin, Open(text, zero)>>
    BY <1>1, <1>5, <2>1 DEF Opening, ConsoleMessagesBegin, ConsoleResponsesBegin, BuildMessagesBegin, Ready
  <2>7. <<Begin, Open(text, zero)>> = <<Begin>> \o <<Open(text, zero)>>
    BY PairIs
  <2>8. PartOf(api, NewLocals) = text
    BY <1>5, <2>1 DEF PartOf, Bares, Ready
  <2>9. NumberOf(api, NewLocals) = zero
    BY <1>1, <1>5 DEF NumberOf, Ready
  <2> QED BY <2>5, <2>6, <2>7, <2>8, <2>9 DEF Stage
<1> QED BY <1>4, <1>5

(* It is given up. *)
LEMMA ErrorTurns ==
  ASSUME NEW api, NEW phase \in {"idle", "open"}, NEW part, NEW n
  PROVE  Turns(api, <<phase, part, n>>, <<Error, End>>, <<"ended", part, n>>)
<1>1. PICK failed, p, q : failed = "failed" /\ p = <<Error>> /\ q = <<End>>
  OBVIOUS
<1>2. failed \in {"finished", "failed"}
  BY <1>1
<1>3. Turns(api, <<phase, part, n>>, p, <<failed, part, n>>)
  BY <1>1, BeginTurns
<1>4. Turns(api, <<failed, part, n>>, q, <<"ended", part, n>>)
  BY <1>1, <1>2, EndTurns
<1>5. Turns(api, <<phase, part, n>>, p \o q, <<"ended", part, n>>)
  BY <1>3, <1>4, TurnsConcat
<1>6. p \o q = <<Error, End>>
  BY <1>1, PairIs
<1> QED BY <1>5, <1>6

-----------------------------------------------------------------------------
(* The events of the parts alone: what Messages and Responses send while    *)
(* they read, in whatever order, before a finish and an end.                *)
Bits == {e \in Chunks : e.t \in {"open", "write", "close"}}

Closing(q) ==
  /\ q \in Seq(Chunks) /\ Len(q) >= 2
  /\ \A i \in 1..Len(q) - 2 : q[i] \in Bits
  /\ q[Len(q) - 1].t \in {"finish", "error"} /\ q[Len(q)].t = "end"

LEMMA BitsAre ==
  ASSUME NEW q \in Seq(Bits)
  PROVE  q \in Seq(Chunks) /\ Len(q) \in Nat /\ \A i \in 1..Len(q) : q[i] \in Bits /\ q[i] \in Chunks
<1>1. Len(q) \in Nat /\ \A i \in 1..Len(q) : q[i] \in Bits
  OBVIOUS
<1>2. \A i \in 1..Len(q) : q[i] \in Chunks
  BY <1>1 DEF Bits
<1>3. q \in Seq(Chunks)
  BY <1>1, <1>2, SeqDef
<1> QED BY <1>1, <1>2, <1>3

LEMMA NoBits == <<>> \in Seq(Bits)
OBVIOUS

LEMMA BitsJoin ==
  ASSUME NEW p \in Seq(Bits), NEW q \in Seq(Bits)
  PROVE  p \o q \in Seq(Bits)
OBVIOUS

LEMMA OneBit ==
  ASSUME NEW e \in Chunks, e.t \in {"open", "write", "close"}, NEW p
  PROVE  /\ e \in Bits /\ <<e>> \in Seq(Bits)
         /\ (IF p THEN <<e>> ELSE <<>>) \in Seq(Bits) /\ (IF p THEN <<>> ELSE <<e>>) \in Seq(Bits)
<1>1. PICK one, none : one = <<e>> /\ none = <<>>
  OBVIOUS
<1>2. e \in Bits
  BY DEF Bits
<1>3. one \in Seq(Bits) /\ none \in Seq(Bits)
  BY <1>1, <1>2
<1> QED BY <1>1, <1>2, <1>3

LEMMA OpenedBits ==
  ASSUME NEW kind \in Opened, NEW n \in Nat, NEW s \in Seq(Pieces), NEW open
  PROVE  (IF open THEN <<>> ELSE <<Open(kind, n)>>) \o <<Write(kind, n, s)>> \in Seq(Bits)
<1>1. PICK d, e : d = Open(kind, n) /\ e = Write(kind, n, s)
  OBVIOUS
<1>2. d \in Chunks /\ d.t = "open" /\ e \in Chunks /\ e.t = "write"
  BY <1>1, OpenIs, WriteIs DEF Opened
<1>3. (IF open THEN <<>> ELSE <<d>>) \in Seq(Bits) /\ <<e>> \in Seq(Bits)
  BY <1>2, OneBit
<1>4. (IF open THEN <<>> ELSE <<d>>) \o <<e>> \in Seq(Bits)
  BY <1>3, BitsJoin
<1> QED BY <1>1, <1>4

LEMMA CloseBits ==
  ASSUME NEW kind \in Opened, NEW n \in Nat, NEW p
  PROVE  <<Close(kind, n)>> \in Seq(Bits) /\ (IF p THEN <<Close(kind, n)>> ELSE <<>>) \in Seq(Bits)
<1>1. PICK e : e = Close(kind, n)
  OBVIOUS
<1>2. e \in Chunks /\ e.t = "close"
  BY <1>1, CloseIs DEF Opened
<1> QED BY <1>1, <1>2, OneBit

LEMMA BlocksBits ==
  ASSUME NEW from \in Nat, NEW n \in Nat
  PROVE  MessagesBlocks(from, n) \in Seq(Bits)
<1>1. PICK none : none = <<>>
  OBVIOUS
<1>2. none \in Seq(Pieces)
  BY <1>1, NoText
<1> DEFINE Block(j) == LET i == from + (j - 1) \div 3
                       IN  CASE j % 3 = 1 -> Open("call", i) [] j % 3 = 2 -> Write("call", i, none)
                             [] j % 3 = 0 -> Close("call", i)
<1>3. MessagesBlocks(from, n) = [j \in 1..3 * n |-> Block(j)]
  BY <1>1 DEF MessagesBlocks
<1>4. ASSUME NEW j \in 1..3 * n PROVE Block(j) \in Bits
  <2>1. PICK i, a, b, c : /\ i = from + (j - 1) \div 3
                          /\ a = Open("call", i) /\ b = Write("call", i, none) /\ c = Close("call", i)
    OBVIOUS
  <2>2. i \in Nat /\ j % 3 \in 0..2
    BY <2>1
  <2>3. a \in Chunks /\ a.t = "open" /\ b \in Chunks /\ b.t = "write" /\ c \in Chunks /\ c.t = "close"
    BY <1>2, <2>1, <2>2, OpenIs, WriteIs, CloseIs
  <2>4. a \in Bits /\ b \in Bits /\ c \in Bits
    BY <2>3 DEF Bits
  <2>5. j % 3 = 0 \/ j % 3 = 1 \/ j % 3 = 2
    BY <2>2
  <2> QED BY <2>1, <2>4, <2>5
<1>5. 3 * n \in Nat
  OBVIOUS
<1> HIDE DEF Block
<1> QED BY <1>3, <1>4, <1>5

LEMMA TailBits ==
  ASSUME NEW i \in Nat, NEW images \in Nat, NEW sources
  PROVE  /\ [j \in 1..images |-> Write("text", i, <<"g">>)] \in Seq(Bits)
         /\ (IF sources THEN <<Write("text", i, <<"s">>)>> ELSE <<>>) \in Seq(Bits)
<1>1. PICK g, s : g = <<"g">> /\ s = <<"s">>
  OBVIOUS
<1>2. g \in Seq(Pieces) /\ s \in Seq(Pieces)
  BY <1>1 DEF Pieces
<1>3. PICK d, e : d = Write("text", i, g) /\ e = Write("text", i, s)
  OBVIOUS
<1>4. d \in Chunks /\ d.t = "write" /\ e \in Chunks /\ e.t = "write"
  BY <1>2, <1>3, WriteIs
<1>5. d \in Bits /\ (IF sources THEN <<e>> ELSE <<>>) \in Seq(Bits)
  BY <1>4, OneBit
<1>6. [j \in 1..images |-> d] \in Seq(Bits)
  BY <1>5
<1> QED BY <1>1, <1>3, <1>5, <1>6

(* What Messages and Responses send for an event *)
LEMMA EventBits ==
  ASSUME NEW api \in Numbered, NEW l \in Locals, NEW s \in Seq(Pieces)
  PROVE  /\ Text(api, l, s).out \in Seq(Bits) /\ CloseThinking(api, l).out \in Seq(Bits)
         /\ Thinking(api, l).out \in Seq(Bits) /\ Note(api, l).out \in Seq(Bits)
<1>1. PICK i, zero, none : i = (IF api = "messages" THEN l.index ELSE NextItem(l)) /\ zero = 0 /\ none = <<>>
  OBVIOUS
<1>2. i \in Nat /\ zero \in Nat /\ l.index \in Nat /\ none \in Seq(Pieces)
  BY <1>1, NoText DEF Locals, NextItem
<1>3. {"text", "thinking", "reasoning"} \subseteq Opened
  BY DEF Opened
<1>4. Text(api, l, s).out \in Seq(Bits)
  <2>1. CASE s = <<>>
    BY <2>1, NoBits DEF Text, MessagesText, ResponsesText, Sends, Numbered
  <2>2. CASE s # <<>>
    <3>1. Text(api, l, s).out = (IF l.text THEN <<>> ELSE <<Open("text", i)>>) \o <<Write("text", i, s)>>
      BY <1>1, <2>2 DEF Text, MessagesText, ResponsesText, Sends, Numbered
    <3> QED BY <1>2, <1>3, <3>1, OpenedBits
  <2> QED BY <2>1, <2>2
<1>5. CloseThinking(api, l).out \in Seq(Bits)
  <2>1. CASE ~(l.thinking /\ ~l.closed)
    BY <2>1, NoBits DEF CloseThinking, MessagesCloseThinking, ResponsesCloseThinking, Sends, Numbered
  <2>2. CASE l.thinking /\ ~l.closed /\ api = "messages"
    <3>1. CloseThinking(api, l).out = <<Close("thinking", l.index)>>
      BY <2>2 DEF CloseThinking, MessagesCloseThinking, Sends
    <3> QED BY <1>2, <1>3, <3>1, CloseBits
  <2>3. CASE l.thinking /\ ~l.closed /\ api = "responses"
    <3>1. CloseThinking(api, l).out = <<Close("reasoning", zero)>>
      BY <1>1, <2>3 DEF CloseThinking, ResponsesCloseThinking, Sends
    <3> QED BY <1>2, <1>3, <3>1, CloseBits
  <2> QED BY <2>1, <2>2, <2>3 DEF Numbered
<1>6. Thinking(api, l).out \in Seq(Bits)
  <2>1. CASE l.closed
    BY <2>1, NoBits DEF Thinking, MessagesThinking, ResponsesThinking, Sends, Numbered
  <2>2. CASE ~l.closed /\ api = "messages"
    <3>1. Thinking(api, l).out = (IF l.thinking THEN <<>> ELSE <<Open("thinking", l.index)>>)
                                 \o <<Write("thinking", l.index, none)>>
      BY <1>1, <2>2 DEF Thinking, MessagesThinking, Sends
    <3> QED BY <1>2, <1>3, <3>1, OpenedBits
  <2>3. CASE ~l.closed /\ api = "responses"
    <3>1. Thinking(api, l).out = (IF l.thinking THEN <<>> ELSE <<Open("reasoning", zero)>>)
                                 \o <<Write("reasoning", zero, none)>>
      BY <1>1, <2>3 DEF Thinking, ResponsesThinking, Sends
    <3> QED BY <1>2, <1>3, <3>1, OpenedBits
  <2> QED BY <2>1, <2>2, <2>3 DEF Numbered
<1>7. Note(api, l).out \in Seq(Bits)
  <2>1. CASE api = "responses" /\ l.text
    <3>1. PICK e : e = Write("annotation", i, none)
      OBVIOUS
    <3>2. e \in Chunks /\ e.t = "write"
      BY <1>2, <3>1, WriteIs
    <3>3. Note(api, l).out = <<e>>
      BY <1>1, <2>1, <3>1 DEF Note, ResponsesNote, Sends
    <3> QED BY <3>2, <3>3, OneBit
  <2>2. CASE ~(api = "responses" /\ l.text)
    BY <2>2, NoBits DEF Note, ChatNote, ResponsesNote, Sends, Numbered
  <2> QED BY <2>1, <2>2
<1> QED BY <1>4, <1>5, <1>6, <1>7

(* And for calls, which change no more than the number of the next part, or *)
(* at the end close the text first.                                         *)
LEMMA CallBits ==
  ASSUME NEW api \in Numbered, NEW l \in Locals, NEW safe, NEW n \in Nat
  PROVE  /\ Calls(api, l, safe, n).out \in Seq(Bits) /\ CallsAtEnd(api, l, n).out \in Seq(Bits)
         /\ LET k == Calls(api, l, safe, n).h
            IN  k.text = l.text /\ k.thinking = l.thinking /\ k.closed = l.closed
         /\ LET k == CallsAtEnd(api, l, n).h
            IN  /\ k.thinking = l.thinking /\ k.closed = l.closed
                /\ k.text = (IF api = "messages" THEN FALSE ELSE l.text)
<1>1. CASE api = "messages"
  <2>1. PICK i, from, m, n1, no : /\ i = l.index /\ from = (IF l.text THEN l.index + 1 ELSE l.index)
                                  /\ m = i + n /\ n1 = from + n /\ no = FALSE
    OBVIOUS
  <2>2. i \in Nat /\ from \in Nat /\ m \in Nat /\ n1 \in Nat
    BY <2>1 DEF Locals
  <2>3. no \in BOOLEAN
    BY <2>1
  <2>4. PICK g, k, j : /\ g = [l EXCEPT !.index = n1] /\ k = [g EXCEPT !.text = no]
                       /\ j = [l EXCEPT !.index = m]
    OBVIOUS
  <2>5. /\ g \in Locals /\ g.text = l.text /\ g.thinking = l.thinking /\ g.closed = l.closed
        /\ j \in Locals /\ j.text = l.text /\ j.thinking = l.thinking /\ j.closed = l.closed
    BY <2>2, <2>4 DEF Locals
  <2>6. k \in Locals /\ k.text = no /\ k.thinking = l.thinking /\ k.closed = l.closed
    BY <2>3, <2>4, <2>5 DEF Locals
  <2>7. MessagesBlocks(from, n) \in Seq(Bits) /\ MessagesBlocks(i, n) \in Seq(Bits)
    BY <2>2, BlocksBits
  <2>8. Calls(api, l, safe, n).out = MessagesBlocks(i, n) /\ Calls(api, l, safe, n).h = j
    BY <1>1, <2>1, <2>4 DEF Calls, MessagesCalls, Sends
  <2>9. PICK shut : shut = IF l.text THEN <<Close("text", i)>> ELSE <<>>
    OBVIOUS
  <2>10. shut \in Seq(Bits)
    BY <2>2, <2>9, CloseBits DEF Opened
  <2>11. CallsAtEnd(api, l, n).out = shut \o MessagesBlocks(from, n)
    BY <1>1, <2>1, <2>9 DEF CallsAtEnd, MessagesCallsAtEnd, Sends
  <2>12. CallsAtEnd(api, l, n).h = k
    BY <1>1, <2>1, <2>4 DEF CallsAtEnd, MessagesCallsAtEnd, Sends
  <2>13. shut \o MessagesBlocks(from, n) \in Seq(Bits)
    BY <2>7, <2>10, BitsJoin
  <2> QED BY <1>1, <2>1, <2>5, <2>6, <2>7, <2>8, <2>11, <2>12, <2>13
<1>2. CASE api = "responses"
  <2>1. NextItem(l) \in Nat
    BY DEF NextItem
  <2>2. MessagesBlocks(NextItem(l), n) \in Seq(Bits)
    BY <2>1, BlocksBits
  <2>3. /\ Calls(api, l, safe, n).out = MessagesBlocks(NextItem(l), n) /\ Calls(api, l, safe, n).h = l
        /\ CallsAtEnd(api, l, n).out = MessagesBlocks(NextItem(l), n) /\ CallsAtEnd(api, l, n).h = l
    BY <1>2 DEF Calls, CallsAtEnd, ResponsesCalls, Sends
  <2> QED BY <1>2, <2>2, <2>3
<1> QED BY <1>1, <1>2 DEF Numbered

(* Whatever came before, an answer of Messages or Responses ends with a     *)
(* finish and an end, and the finish changes no local.                      *)
LEMMA CallsAtEndKeep ==
  ASSUME NEW api \in Numbered, NEW l \in Locals, NEW n \in Nat, NEW k, k = CallsAtEnd(api, l, n).h
  PROVE  k.thinking = l.thinking /\ k.closed = l.closed /\ (api = "responses" => k.text = l.text)
<1>1. CASE api = "messages"
  <2>1. PICK m, no : /\ m = (IF l.text THEN l.index + 1 ELSE l.index) + n /\ no = FALSE
                     /\ k = [l EXCEPT !.index = m, !.text = no]
    BY <1>1 DEF CallsAtEnd, MessagesCallsAtEnd, Sends
  <2> QED BY <1>1, <2>1 DEF Locals
<1>2. CASE api = "responses"
  BY <1>2 DEF CallsAtEnd, ResponsesCalls, Sends
<1> QED BY <1>1, <1>2 DEF Numbered

LEMMA FinishCloses ==
  ASSUME NEW front \in Seq(Bits),
         NEW reason \in {"tool_calls", "stop", "tool_use", "end_turn", "completed"}
  PROVE  Closing(front \o <<Finish(reason), End>>)
<1>1. PICK f, e, two, all : f = Finish(reason) /\ e = End /\ two = <<f, e>> /\ all = front \o two
  OBVIOUS
<1>2. f \in Chunks /\ f.t = "finish" /\ e \in Chunks /\ e.t = "end"
  BY <1>1, FinishIs, OtherChunks
<1>3. two \in Seq(Chunks) /\ Len(two) = 2 /\ two[1] = f /\ two[2] = e
  BY <1>1, <1>2
<1>4. front \in Seq(Chunks) /\ Len(front) \in Nat /\ \A i \in 1..Len(front) : front[i] \in Bits
  BY BitsAre
<1>5. PICK n : n = Len(front)
  OBVIOUS
<1>6. /\ all \in Seq(Chunks) /\ Len(all) = n + 2
      /\ \A i \in 1..n + 2 : all[i] = IF i <= n THEN front[i] ELSE two[i - n]
  BY <1>1, <1>3, <1>4, <1>5, ConcatProperties
<1>7. all[n + 1] = f /\ all[n + 2] = e /\ (n + 2) - 1 = n + 1 /\ (n + 2) - 2 = n
  <2>1. n + 1 \in 1..n + 2 /\ n + 2 \in 1..n + 2 /\ ~(n + 1 <= n) /\ ~(n + 2 <= n)
    BY <1>4, <1>5
  <2>2. (n + 1) - n = 1 /\ (n + 2) - n = 2 /\ (n + 2) - 1 = n + 1 /\ (n + 2) - 2 = n
    BY <1>4, <1>5
  <2> QED BY <1>3, <1>6, <2>1, <2>2
<1>8. \A i \in 1..n : all[i] \in Bits
  <2>1. \A i \in 1..n : i \in 1..n + 2 /\ i <= n
    BY <1>4, <1>5
  <2> QED BY <1>4, <1>5, <1>6, <2>1
<1>9. Closing(all)
  BY <1>2, <1>4, <1>5, <1>6, <1>7, <1>8 DEF Closing
<1> QED BY <1>1, <1>9

LEMMA ClosingAfter ==
  ASSUME NEW p \in Seq(Bits), NEW q, Closing(q)
  PROVE  Closing(p \o q)
<1>1. PICK all, m, n : all = p \o q /\ m = Len(p) /\ n = Len(q)
  OBVIOUS
<1>2. /\ q \in Seq(Chunks) /\ n \in Nat /\ n >= 2
      /\ \A i \in 1..n - 2 : q[i] \in Bits
      /\ q[n - 1].t \in {"finish", "error"} /\ q[n].t = "end"
  BY <1>1 DEF Closing
<1>3. p \in Seq(Chunks) /\ m \in Nat /\ \A i \in 1..m : p[i] \in Bits
  BY <1>1, BitsAre
<1>4. /\ all \in Seq(Chunks) /\ Len(all) = m + n
      /\ \A i \in 1..m + n : all[i] = IF i <= m THEN p[i] ELSE q[i - m]
  BY <1>1, <1>2, <1>3, ConcatProperties
<1>5. ASSUME NEW i \in 1..(m + n) - 2 PROVE all[i] \in Bits
  <2>1. i \in 1..m + n /\ (i <= m => i \in 1..m) /\ (~(i <= m) => i - m \in 1..n - 2)
    BY <1>2, <1>3
  <2> QED BY <1>2, <1>3, <1>4, <2>1
<1>6. all[(m + n) - 1] = q[n - 1] /\ all[m + n] = q[n]
  <2>1. /\ (m + n) - 1 \in 1..m + n /\ m + n \in 1..m + n
        /\ ~((m + n) - 1 <= m) /\ ~(m + n <= m)
        /\ ((m + n) - 1) - m = n - 1 /\ (m + n) - m = n
    BY <1>2, <1>3
  <2> QED BY <1>4, <2>1
<1>7. m + n >= 2
  BY <1>2, <1>3
<1>8. Closing(all)
  BY <1>2, <1>4, <1>5, <1>6, <1>7 DEF Closing
<1> QED BY <1>1, <1>8

LEMMA NumberedCloses ==
  ASSUME NEW api \in Numbered, NEW l \in Locals, NEW a, a.images \in Nat, NEW where
  PROVE  Closing(Finishing(api, l, a, where).out)
<1>1. PICK none : none = <<>>
  OBVIOUS
<1>2. none \in Seq(Bits)
  BY <1>1, NoBits
<1>3. ASSUME NEW reason \in {"tool_calls", "stop", "tool_use", "end_turn", "completed"}
      PROVE  Closing(<<Finish(reason), End>>)
  <2>1. PICK over : over = <<Finish(reason), End>>
    OBVIOUS
  <2>2. Closing(none \o over)
    BY <1>2, <2>1, FinishCloses
  <2>3. over \in Seq(Chunks)
    <3>1. PICK f, e : f = Finish(reason) /\ e = End
      OBVIOUS
    <3>2. f \in Chunks /\ e \in Chunks
      BY <3>1, FinishIs, OtherChunks
    <3> QED BY <2>1, <3>1, <3>2
  <2>4. none \o over = over
    BY <1>1, <2>3
  <2> QED BY <2>1, <2>2, <2>4
<1>4. CASE where # ""
  <2>1. CASE api = "messages"
    BY <1>3, <1>4, <2>1 DEF Finishing, MessagesFinish, Sends
  <2>2. CASE api = "responses"
    BY <1>3, <1>4, <2>2 DEF Finishing, ResponsesFinish, Sends
  <2> QED BY <2>1, <2>2 DEF Numbered
<1>5. CASE where = "" /\ api = "messages"
  <2>1. PICK i, p, q, shut, n :
          /\ i = l.index /\ p = [j \in 1..a.images |-> Write("text", i, <<"g">>)]
          /\ q = (IF a.sources THEN <<Write("text", i, <<"s">>)>> ELSE <<>>)
          /\ shut = (IF l.thinking /\ ~l.closed THEN <<Close("thinking", i)>> ELSE <<>>)
          /\ n = i + Len(shut)
    OBVIOUS
  <2>2. i \in Nat
    BY <2>1 DEF Locals
  <2>3. p \in Seq(Bits) /\ q \in Seq(Bits) /\ shut \in Seq(Bits)
    BY <2>1, <2>2, TailBits, CloseBits DEF Opened
  <2>4. n \in Nat
    <3>1. Len(shut) \in Nat
      BY <2>3, BitsAre
    <3> QED BY <2>1, <2>2, <3>1
  <2>5. PICK tail, last, front :
          /\ tail = (IF l.text THEN p \o q ELSE none)
          /\ last = (IF l.text THEN <<Close("text", n)>> ELSE none)
          /\ front = (tail \o shut) \o last
    OBVIOUS
  <2>6. tail \in Seq(Bits) /\ last \in Seq(Bits)
    <3>1. p \o q \in Seq(Bits)
      BY <2>3, BitsJoin
    <3>2. <<Close("text", n)>> \in Seq(Bits)
      BY <2>4, CloseBits DEF Opened
    <3> QED BY <1>2, <2>5, <3>1, <3>2
  <2>7. front \in Seq(Bits)
    BY <2>3, <2>5, <2>6, BitsJoin
  <2>8. Finishing(api, l, a, where).out = front \o <<Finish("end_turn"), End>>
    BY <1>1, <1>5, <2>1, <2>5 DEF Finishing, MessagesFinish, Sends
  <2> QED BY <2>7, <2>8, FinishCloses
<1>6. CASE where = "" /\ api = "responses"
  <2>1. PICK i, p, q, last :
          /\ i = NextItem(l) /\ p = [j \in 1..a.images |-> Write("text", i, <<"g">>)]
          /\ q = (IF a.sources THEN <<Write("text", i, <<"s">>)>> ELSE <<>>)
          /\ last = <<Close("text", i)>>
    OBVIOUS
  <2>2. i \in Nat
    BY <2>1 DEF NextItem
  <2>3. p \in Seq(Bits) /\ q \in Seq(Bits) /\ last \in Seq(Bits)
    BY <2>1, <2>2, TailBits, CloseBits DEF Opened
  <2>4. PICK front : front = IF l.text THEN (p \o q) \o last ELSE none
    OBVIOUS
  <2>5. (p \o q) \o last \in Seq(Bits)
    BY <2>3, BitsJoin
  <2>6. front \in Seq(Bits)
    BY <1>2, <2>4, <2>5
  <2>7. Finishing(api, l, a, where).out = front \o <<Finish("completed"), End>>
    BY <1>1, <1>6, <2>1, <2>4 DEF Finishing, ResponsesFinish, Sends
  <2> QED BY <2>6, <2>7, FinishCloses
<1> QED BY <1>4, <1>5, <1>6 DEF Numbered

LEMMA FinishingKeeps ==
  ASSUME NEW api \in Grok \cup Console \cup Build, NEW l, NEW a, NEW where
  PROVE  Finishing(api, l, a, where).h = l
BY DEF Finishing, ChatFinish, MessagesFinish, ResponsesFinish, ConsoleChatFinish,
       ConsoleMessagesFinish, ConsoleResponsesFinish, BuildChatFinish, BuildMessagesFinish, Sends,
       Grok, Console, Build

(* What may still be yielded of an answer that is tangled, by its phase.    *)
Decent(phase, q) ==
  \/ q = <<>>
  \/ phase = "open" /\ (q \in Seq(Bits) \/ Closing(q))
  \/ phase \in {"finished", "failed"} /\ q \in Seq(Chunks) /\ Len(q) = 1 /\ q[1].t = "end"

Proceeds(v, q, e, u, t) ==
  /\ u \in Views /\ Decent(u.phase, t)
  /\ \/ e.t \in {"open", "write", "close"} /\ v.phase = "open" /\ u.phase = "open"
     \/ e.t = "finish" /\ v.phase = "open"
     \/ e.t = "error" /\ v.phase = "open"
     \/ e.t = "end" /\ v.phase \in {"finished", "failed"}
  /\ q \in Seq(Bits) => t \in Seq(Bits) /\ v.phase = u.phase

LEMMA DecentHead ==
  ASSUME NEW api, NEW v \in Views, NEW q \in Seq(Chunks), q # <<>>, Decent(v.phase, q), NEW e, e = Head(q),
         NEW u, u = Shape(api, v, e), NEW t, t = Tail(q)
  PROVE  Proceeds(v, q, e, u, t)
<1>1. PICK n : n = Len(q)
  OBVIOUS
<1>2. n \in Nat /\ n > 0 /\ e = q[1] /\ e \in Chunks
  BY <1>1, HeadTailProperties
<1>3. /\ t \in Seq(Chunks) /\ Len(t) = n - 1 /\ \A i \in 1..n - 1 : t[i] = q[i + 1]
  BY <1>1, HeadTailProperties
<1>4. ASSUME e \in Bits
      PROVE  e.t \in {"open", "write", "close"} /\ u \in Views /\ u.phase = v.phase
  <2>1. e.t \in {"open", "write", "close"}
    BY <1>4 DEF Bits
  <2>2. CASE e.t = "open"
    BY <1>2, <2>2, ShapeOpens
  <2>3. CASE e.t = "write"
    BY <1>2, <2>3, ShapeMarks
  <2>4. CASE e.t = "close"
    BY <1>2, <2>4, ShapeCloses
  <2> QED BY <2>1, <2>2, <2>3, <2>4
<1>5. CASE q \in Seq(Bits)
  <2>1. e \in Bits /\ t \in Seq(Bits)
    BY <1>5
  <2>2. v.phase = "open"
    <3>1. ~(q[1].t = "end")
      BY <1>2, <2>1 DEF Bits
    <3>2. ~Closing(q)
      <4> SUFFICES ASSUME Closing(q) PROVE FALSE
        OBVIOUS
      <4>1. n \in 1..n /\ q[n].t = "end"
        BY <1>1, <1>2 DEF Closing
      <4>2. q[n] \in Bits
        BY <1>1, <1>5, <4>1, BitsAre
      <4> QED BY <4>1, <4>2 DEF Bits
    <3> QED BY <3>1, <3>2 DEF Decent
  <2> QED BY <1>4, <2>1, <2>2 DEF Decent, Proceeds
<1>6. CASE q \notin Seq(Bits) /\ v.phase = "open" /\ Closing(q)
  <2>1. /\ n >= 2 /\ q[n - 1].t \in {"finish", "error"} /\ q[n].t = "end"
        /\ \A i \in 1..n - 2 : q[i] \in Bits
    BY <1>1, <1>6 DEF Closing
  <2>2. CASE n = 2
    <3>1. e.t \in {"finish", "error"} /\ Len(t) = 1 /\ t[1] = q[2] /\ t[1].t = "end"
      <4>1. n - 1 = 1 /\ 1 \in 1..n - 1 /\ 1 + 1 = 2
        BY <2>2
      <4> QED BY <1>2, <1>3, <2>1, <2>2, <4>1
    <3>2. u \in Views /\ u.phase \in {"finished", "failed"}
      BY <1>2, <3>1, ShapeFinishes, ShapeFails
    <3>3. Decent(u.phase, t)
      BY <1>3, <3>1, <3>2 DEF Decent
    <3> QED BY <1>6, <3>1, <3>2, <3>3 DEF Proceeds
  <2>3. CASE n # 2
    <3>1. n > 2 /\ 1 \in 1..n - 2 /\ e \in Bits
      BY <1>2, <2>1, <2>3
    <3>2. Closing(t)
      <4>1. PICK m : m = n - 1
        OBVIOUS
      <4>2. m \in Nat /\ m >= 2 /\ Len(t) = m /\ m - 1 \in 1..n - 1 /\ m \in 1..n - 1
            /\ (m - 1) + 1 = n - 1 /\ m + 1 = n
        BY <1>2, <1>3, <3>1, <4>1
      <4>3. t[m - 1] = q[n - 1] /\ t[m] = q[n]
        BY <1>3, <4>2
      <4>4. \A i \in 1..m - 2 : t[i] \in Bits
        <5>1. \A i \in 1..m - 2 : i \in 1..n - 1 /\ i + 1 \in 1..n - 2
          BY <1>2, <4>1
        <5> QED BY <1>3, <2>1, <5>1
      <4> QED BY <1>3, <2>1, <4>2, <4>3, <4>4 DEF Closing
    <3>3. Decent(u.phase, t)
      BY <1>4, <1>6, <3>1, <3>2 DEF Decent
    <3> QED BY <1>4, <1>6, <3>1, <3>3 DEF Proceeds
  <2> QED BY <2>2, <2>3
<1>7. CASE q \notin Seq(Bits) /\ v.phase \in {"finished", "failed"} /\ Len(q) = 1 /\ q[1].t = "end"
  <2>1. t = <<>>
    BY <1>1, <1>3, <1>7
  <2>2. u \in Views
    BY <1>2, <1>7, ShapeStops
  <2>3. Decent(u.phase, t)
    BY <2>1 DEF Decent
  <2> QED BY <1>2, <1>7, <2>2, <2>3 DEF Proceeds
<1> QED BY <1>5, <1>6, <1>7 DEF Decent

-----------------------------------------------------------------------------
(* The events of a frame, as the protocol sees them: while the handler      *)
(* reads, its locals say where the answer stands, until it is tangled by    *)
(* calls after text, which end the frame, or by thinking after text, which  *)
(* comes only with the end of the thinking and of the frame: late.          *)
Stands(api, v, q, p) == \E w : In(w, p) /\ Leads(api, v, q, w)

Coupled(c, l, begun) == c.api \in Numbered => (l.closed => l.thinking) /\ (l.text => begun)

Speaks(c, v, st, begun, late) ==
  /\ st \in States /\ (st.called = "stream" => st.ended)
  /\ c.api \in Numbered => st.out \in Seq(Bits)
  /\ IF Mixed(c.api, st.h, st.called) THEN st.called = "stream" \/ late
     ELSE IF st.called = "stream" THEN \E p : Shut(c.api, p) /\ Stands(c.api, v, st.out, p)
     ELSE Stands(c.api, v, st.out, Stage(c.api, st.h)) /\ Coupled(c, st.h, begun)

Plain(c, l) == ~Mixed(c.api, l, "")

LEMMA MixedIs ==
  ASSUME NEW api, NEW l
  PROVE  /\ Mixed(api, l, "") <=> api \in Numbered /\ l.thinking /\ ~l.closed /\ l.text
         /\ \A where : where # "" =>
              (Mixed(api, l, where) <=> api \in Numbered /\ (l.text \/ (l.thinking /\ ~l.closed)))
BY DEF Mixed, Numbered

LEMMA StandsMore ==
  ASSUME NEW api, NEW v, NEW q \in Seq(Chunks), NEW p, Stands(api, v, q, p), NEW x, NEW s,
         Turns(api, p, x, s)
  PROVE  Stands(api, v, q \o x, s)
<1>1. PICK w : In(w, p) /\ Leads(api, v, q, w)
  BY DEF Stands
<1>2. x \in Seq(Chunks)
  BY DEF Turns
<1>3. PICK u : In(u, s) /\ Leads(api, w, x, u)
  BY <1>1 DEF Turns
<1>4. Leads(api, v, q \o x, u)
  BY <1>1, <1>2, <1>3, LeadsConcat
<1> QED BY <1>3, <1>4 DEF Stands

LEMMA SpeaksMore ==
  ASSUME NEW c, NEW v, NEW st, NEW begun, NEW late, Speaks(c, v, st, begun, late), ~st.ended,
         Plain(c, st.h), NEW r, Flows(c.api, st.h, r), Coupled(c, r.h, begun),
         c.api \in Numbered => r.out \in Seq(Bits), Plain(c, r.h)
  PROVE  /\ Speaks(c, v, Sent(st, r), begun, late) /\ Sent(st, r).ended = st.ended
         /\ Sent(st, r).called = st.called /\ Sent(st, r).h = r.h /\ Sent(st, r).sieve = st.sieve
<1>1. st \in States /\ st.called = ""
  BY DEF Speaks, States
<1>2. PICK q, x, w : q = st.out /\ x = r.out /\ w = Sent(st, r)
  OBVIOUS
<1>3. q \in Seq(Chunks) /\ (c.api \in Numbered => q \in Seq(Bits))
  BY <1>1, <1>2 DEF States, Speaks
<1>4. Issues(r) /\ Turns(c.api, Stage(c.api, st.h), x, Stage(c.api, r.h))
  BY <1>2 DEF Flows
<1>5. /\ w \in States /\ w.h = r.h /\ w.out = q \o x /\ w.sieve = st.sieve
      /\ w.called = st.called /\ w.ended = st.ended
  BY <1>1, <1>2, <1>4, SentIs
<1>6. Stands(c.api, v, q, Stage(c.api, st.h))
  BY <1>1, <1>2 DEF Speaks, Plain
<1>7. Stands(c.api, v, q \o x, Stage(c.api, r.h))
  BY <1>3, <1>4, <1>6, StandsMore
<1>8. c.api \in Numbered => w.out \in Seq(Bits)
  BY <1>2, <1>3, <1>5, BitsJoin
<1>9. w.called = "" /\ w.called # "stream"
  BY <1>1, <1>5
<1>10. ~Mixed(c.api, w.h, w.called)
  BY <1>5, <1>9 DEF Plain
<1>11. Speaks(c, v, w, begun, late)
  BY <1>5, <1>7, <1>8, <1>9, <1>10 DEF Speaks
<1> QED BY <1>1, <1>2, <1>5, <1>11

(* What a frame says first may be text, and what else it says is not.       *)
Begins(c, st, begun) ==
  /\ c.api \in Numbered => begun
  /\ c.tools => \E sent \in Seq(Pieces) : Buffers(st.sieve, sent)

Continues(c, ev, begun, late) ==
  /\ c.api \in Grok /\ ev.kind # "text"
  /\ ev.kind = "thinking" /\ c.api \in Numbered => ~begun \/ late

Framed(c, st, events, begun, late) ==
  /\ \A i \in 1..Len(events) : IF events[i].kind = "text" THEN i = 1
                                ELSE Continues(c, events[i], begun, late)
  /\ Len(events) > 0 /\ events[1].kind = "text" => Begins(c, st, begun)

(* Text, which closes the thinking, and may be followed by a block of calls *)
LEMMA TextSpeaks ==
  ASSUME NEW c \in Configs, NEW v, NEW st, NEW begun, NEW late, Speaks(c, v, st, begun, late), ~st.ended,
         Plain(c, st.h), NEW s \in Seq(Pieces), Begins(c, st, begun)
  PROVE  Speaks(c, v, HandleText(c, st, s), begun, late)
<1>1. PICK api, close, shut, sv, l :
        /\ api = c.api /\ close = CloseThinking(api, st.h) /\ shut = Sent(st, close)
        /\ sv = st.sieve /\ l = close.h
  OBVIOUS
<1>2. api \in Grok \cup Console \cup Build /\ (c.tools => api \in Grok)
  BY <1>1, ConfigsAssumption
<1>3. st \in States /\ st.called = "" /\ st.h \in Locals /\ sv \in Sieves /\ Coupled(c, st.h, begun)
  <2>1. st \in States /\ st.called = "" /\ st.h \in Locals /\ sv \in Sieves
    BY <1>1 DEF Speaks, States
  <2> QED BY <2>1 DEF Speaks, Plain
<1>4. /\ Flows(api, st.h, close) /\ l \in Locals /\ l.text = st.h.text
      /\ api \in Numbered => (l.thinking => l.closed) /\ (l.closed => l.thinking)
  <2>1. api \in Numbered => Coherent(st.h)
    BY <1>1, <1>3, MixedIs DEF Coupled, Coherent, Plain
  <2> QED BY <1>1, <1>3, <2>1, CloseThinkingFlows DEF Coherent
<1>5. Coupled(c, l, begun) /\ Plain(c, l)
  BY <1>1, <1>3, <1>4, MixedIs DEF Coupled, Plain
<1>6. /\ Speaks(c, v, shut, begun, late) /\ ~shut.ended /\ shut.called = "" /\ shut.h = l
      /\ shut.sieve = sv
  <2>1. /\ Flows(c.api, st.h, close) /\ Coupled(c, close.h, begun) /\ Plain(c, close.h)
        /\ c.api \in Numbered => close.out \in Seq(Bits)
    BY <1>1, <1>3, <1>4, <1>5, EventBits
  <2>2. /\ Speaks(c, v, Sent(st, close), begun, late) /\ Sent(st, close).ended = st.ended
        /\ Sent(st, close).called = st.called /\ Sent(st, close).h = close.h
        /\ Sent(st, close).sieve = st.sieve
    BY <2>1, SpeaksMore
  <2> QED BY <1>1, <1>3, <2>2
<1>7. ASSUME NEW said \in Seq(Pieces), NEW r, r = Text(api, l, said)
      PROVE  /\ Flows(api, l, r) /\ Coupled(c, r.h, begun) /\ Plain(c, r.h)
             /\ api \in Numbered => r.out \in Seq(Bits)
             /\ Speaks(c, v, Sent(shut, r), begun, late) /\ Sent(shut, r).ended = shut.ended
             /\ Sent(shut, r).called = shut.called
  <2>1. Flows(api, l, r) /\ r.h.thinking = l.thinking /\ r.h.closed = l.closed
    BY <1>2, <1>4, <1>7, TextFlows
  <2>2. api \in Numbered => r.out \in Seq(Bits)
    BY <1>4, <1>7, EventBits
  <2>3. Coupled(c, r.h, begun) /\ Plain(c, r.h)
    BY <1>1, <1>4, <2>1, MixedIs DEF Coupled, Begins, Plain
  <2>4. /\ Speaks(c, v, shut, begun, late) /\ ~shut.ended /\ Plain(c, shut.h)
        /\ Flows(c.api, shut.h, r) /\ (c.api \in Numbered => r.out \in Seq(Bits))
    BY <1>1, <1>5, <1>6, <2>1, <2>2
  <2>5. Speaks(c, v, Sent(shut, r), begun, late) /\ Sent(shut, r).ended = shut.ended
        /\ Sent(shut, r).called = shut.called
    BY <2>3, <2>4, SpeaksMore
  <2> QED BY <2>1, <2>2, <2>3, <2>5
<1>8. CASE ~c.tools
  <2>1. PICK r : r = Text(api, l, s)
    OBVIOUS
  <2>2. HandleText(c, st, s) = Sent(shut, r)
    BY <1>1, <1>6, <1>8, <2>1 DEF HandleText
  <2> QED BY <1>7, <2>1, <2>2
<1>9. CASE c.tools
  <2>1. PICK fed, safe, sv2 : fed = Feed(sv, s) /\ safe = fed.safe /\ sv2 = fed.sieve
    OBVIOUS
  <2>2. PICK sent \in Seq(Pieces) : Buffers(sv, sent)
    BY <1>1, <1>9 DEF Begins
  <2>3. sv2 \in Sieves /\ safe \in Seq(Pieces) /\ fed.calls \in Nat
    BY <1>3, <2>1, <2>2, FeedSifts DEF Sifts
  <2>4. CASE fed.found
    <3>1. PICK r, w, x, y, z, yes, where :
            /\ r = Calls(api, l, safe, fed.calls) /\ w = Sent(shut, r)
            /\ yes = TRUE /\ where = "stream"
            /\ x = [w EXCEPT !.sieve = sv2] /\ y = [x EXCEPT !.called = where]
            /\ z = [y EXCEPT !.ended = yes]
      OBVIOUS
    <3>2. HandleText(c, st, s) = z
      <4>1. HandleText(c, st, s) = [w EXCEPT !.sieve = sv2, !.called = where, !.ended = yes]
        BY <1>1, <1>6, <1>9, <2>1, <2>4, <3>1 DEF HandleText
      <4> QED BY <3>1, <4>1
    <3>3. Issues(r) /\ api \in Grok
      BY <1>2, <1>4, <1>9, <2>3, <3>1, CallsIssue
    <3>4. PICK q, more : q = shut.out /\ more = r.out
      OBVIOUS
    <3>5. shut \in States /\ q \in Seq(Chunks) /\ (api \in Numbered => q \in Seq(Bits))
      BY <1>1, <1>6, <3>4 DEF Speaks, States
    <3>6. w \in States /\ w.out = q \o more /\ w.h = r.h
      BY <3>1, <3>3, <3>4, <3>5, SentIs
    <3>7. x \in States /\ x.out = w.out /\ x.h = w.h
      BY <2>3, <3>1, <3>6 DEF States
    <3>8. where \in {"", "stream"} /\ yes \in BOOLEAN
      BY <3>1
    <3>9. y \in States /\ y.out = x.out /\ y.called = where /\ y.h = x.h
      BY <3>1, <3>7, <3>8 DEF States
    <3>10. z \in States /\ z.out = y.out /\ z.called = y.called /\ z.h = y.h
      BY <3>1, <3>8, <3>9 DEF States
    <3>11. z.ended
      BY <3>1, <3>9 DEF States
    <3>12. z.called = "stream" /\ z.out = q \o more /\ z.h = r.h
      BY <3>1, <3>6, <3>7, <3>9, <3>10
    <3>13. api \in Numbered =>
             r.h.text = l.text /\ r.h.thinking = l.thinking /\ r.h.closed = l.closed /\ more \in Seq(Bits)
      <4>1. ASSUME NEW n \in Nat, n = fed.calls, api \in Numbered
            PROVE  /\ r.h.text = l.text /\ r.h.thinking = l.thinking /\ r.h.closed = l.closed
                   /\ more \in Seq(Bits)
        <5>1. PICK k, calls : calls = Calls(api, l, safe, n) /\ k = calls.h
          OBVIOUS
        <5>2. calls.out \in Seq(Bits)
          BY <1>4, <4>1, <5>1, CallBits
        <5>3. k.text = l.text /\ k.thinking = l.thinking /\ k.closed = l.closed
          <6>1. l \in Locals /\ n \in Nat
            BY <1>4, <4>1
          <6>2. CASE api = "messages"
            <7>1. k = [l EXCEPT !.index = @ + n]
              BY <5>1, <6>2 DEF Calls, MessagesCalls, Sends
            <7> QED BY <6>1, <7>1 DEF Locals
          <6>3. CASE api = "responses"
            <7>1. k = l
              BY <5>1, <6>3 DEF Calls, ResponsesCalls, Sends
            <7> QED BY <7>1
          <6> QED BY <4>1, <6>2, <6>3 DEF Numbered
        <5> QED BY <3>1, <3>4, <4>1, <5>1, <5>2, <5>3
      <4> QED BY <2>3, <4>1
    <3>14. api \in Numbered => z.out \in Seq(Bits)
      BY <3>5, <3>12, <3>13, BitsJoin
    <3>15. ASSUME ~Mixed(api, z.h, z.called)
           PROVE  \E p : Shut(api, p) /\ Stands(api, v, z.out, p)
      <4>1. api \in Numbered => ~l.text /\ (l.thinking => l.closed)
        <5>1. PICK k : k = r.h
          OBVIOUS
        <5>2. ~Mixed(api, k, where) /\ where # ""
          BY <3>1, <3>12, <3>15, <5>1
        <5> QED BY <3>13, <5>1, <5>2, MixedIs
      <4>2. PICK p : Shut(api, p) /\ Turns(api, Stage(api, l), r.out, p)
        BY <1>4, <2>3, <3>1, <3>3, <4>1, CallsTurn
      <4>3. Stands(api, v, q, Stage(api, l))
        BY <1>1, <1>5, <1>6, <3>4 DEF Speaks, Plain
      <4>4. Stands(api, v, q \o more, p)
        BY <3>4, <3>5, <4>2, <4>3, StandsMore
      <4> QED BY <3>12, <4>2, <4>4
    <3>16. Speaks(c, v, z, begun, late)
      BY <1>1, <3>10, <3>11, <3>12, <3>14, <3>15 DEF Speaks
    <3> QED BY <3>2, <3>16
  <2>5. CASE ~fed.found
    <3>1. PICK r, w, x : r = Text(api, l, safe) /\ w = Sent(shut, r) /\ x = [w EXCEPT !.sieve = sv2]
      OBVIOUS
    <3>2. HandleText(c, st, s) = x
      BY <1>1, <1>6, <1>9, <2>1, <2>5, <3>1 DEF HandleText
    <3>3. Speaks(c, v, w, begun, late) /\ w \in States
      BY <1>7, <2>3, <3>1 DEF Speaks
    <3>4. /\ x \in States /\ x.out = w.out /\ x.h = w.h /\ x.called = w.called /\ x.ended = w.ended
      BY <2>3, <3>1, <3>3 DEF States
    <3>5. Speaks(c, v, x, begun, late)
      BY <3>3, <3>4 DEF Speaks
    <3> QED BY <3>2, <3>5
  <2> QED BY <2>4, <2>5
<1> QED BY <1>8, <1>9

(* Thinking after text is where Messages and Responses tangle the answer.   *)
LEMMA ThinkingSpeaks ==
  ASSUME NEW c, NEW v, NEW st, NEW begun, NEW late, Speaks(c, v, st, begun, late), ~st.ended,
         c.api \in Grok, c.api \in Numbered => ~begun \/ late
  PROVE  Speaks(c, v, Sent(st, Thinking(c.api, st.h)), begun, late)
<1>1. PICK api, l, r, w : api = c.api /\ l = st.h /\ r = Thinking(api, l) /\ w = Sent(st, r)
  OBVIOUS
<1>2. st \in States /\ st.called = "" /\ l \in Locals
  BY <1>1 DEF Speaks, States
<1>3. CASE ~Mixed(api, l, "") /\ ~(api \in Numbered /\ (l.closed \/ l.text))
  <2>1. Flows(api, l, r) /\ r.h \in Locals /\ r.h.text = l.text /\ r.h.closed = l.closed
    BY <1>1, <1>2, <1>3, ThinkingFlows
  <2>2. Coupled(c, r.h, begun) /\ ~Mixed(api, r.h, "")
    BY <1>1, <1>3, <2>1, MixedIs DEF Coupled
  <2>3. api \in Numbered => r.out \in Seq(Bits)
    BY <1>1, <1>2, NoText, EventBits
  <2> QED BY <1>1, <1>3, <2>1, <2>2, <2>3, SpeaksMore DEF Plain
<1>4. CASE ~Mixed(api, l, "") /\ api \in Numbered /\ l.closed
  <2>1. r = Sends(l, <<>>)
    BY <1>1, <1>4 DEF Thinking, MessagesThinking, ResponsesThinking, Numbered
  <2>2. Flows(api, l, r) /\ r.h = l /\ r.out \in Seq(Bits)
    BY <1>1, <1>2, <1>4, <2>1, FlowsNothing, NoText, EventBits
  <2>3. Coupled(c, l, begun)
    BY <1>1, <1>2, <1>4 DEF Speaks
  <2> QED BY <1>1, <1>4, <2>2, <2>3, SpeaksMore DEF Plain
<1>5. CASE api \in Numbered /\ ~l.closed /\ l.text
  <2>1. late
    <3>1. CASE Mixed(api, l, "")
      <4>1. Mixed(c.api, st.h, st.called) /\ st.called # "stream"
        BY <1>1, <1>2, <3>1
      <4> QED BY <4>1 DEF Speaks
    <3>2. CASE ~Mixed(api, l, "")
      <4>1. Coupled(c, l, begun)
        BY <1>1, <1>2, <3>2 DEF Speaks
      <4> QED BY <1>1, <1>5, <4>1 DEF Coupled
    <3> QED BY <3>1, <3>2
  <2>2. PICK yes, k : yes = TRUE /\ k = [l EXCEPT !.thinking = yes]
    OBVIOUS
  <2>3. yes \in BOOLEAN
    BY <2>2
  <2>4. k \in Locals /\ k.thinking = yes /\ k.closed = l.closed /\ k.text = l.text
    BY <1>2, <2>2, <2>3 DEF Locals
  <2>5. r.h = k
    BY <1>1, <1>5, <2>2 DEF Thinking, MessagesThinking, ResponsesThinking, Sends, Numbered
  <2>6. r.out \in Seq(Bits)
    BY <1>1, <1>2, <1>5, NoText, EventBits
  <2>7. Issues(r)
    BY <2>4, <2>5, <2>6, BitsAre DEF Issues
  <2>8. PICK q, more : q = st.out /\ more = r.out
    OBVIOUS
  <2>9. w \in States /\ w.h = k /\ w.out = q \o more /\ w.called = ""
    BY <1>1, <1>2, <2>5, <2>7, <2>8, SentIs
  <2>10. q \in Seq(Bits)
    BY <1>1, <1>5, <2>8 DEF Speaks
  <2>11. w.out \in Seq(Bits)
    BY <2>6, <2>8, <2>9, <2>10, BitsJoin
  <2>12. Mixed(api, k, "")
    BY <1>5, <2>2, <2>4, MixedIs
  <2>13. Mixed(api, w.h, w.called) /\ w.called # "stream"
    BY <2>9, <2>12
  <2>14. Speaks(c, v, w, begun, late)
    BY <1>1, <2>1, <2>9, <2>11, <2>13 DEF Speaks
  <2> QED BY <1>1, <2>14
<1> QED BY <1>3, <1>4, <1>5, MixedIs

LEMMA HandleSpeaks ==
  ASSUME NEW c, NEW v, NEW st, NEW begun, NEW late, Speaks(c, v, st, begun, late),
         NEW ev \in AdapterEvents, Continues(c, ev, begun, late)
  PROVE  Speaks(c, v, Handle(c, st, ev), begun, late)
<1>1. PICK kind : kind = ev.kind
  OBVIOUS
<1>2. kind \in {"thinking", "annotation", "soft_stop", "image"} /\ c.api \in Grok
  BY <1>1 DEF AdapterEvents, Continues
<1>3. st \in States /\ st.h \in Locals
  BY DEF Speaks, States
<1>4. CASE st.ended
  <2>1. Handle(c, st, ev) = st
    BY <1>4 DEF Handle
  <2> QED BY <2>1
<1>5. CASE ~st.ended /\ kind = "thinking" /\ c.think
  <2>1. Handle(c, st, ev) = Sent(st, Thinking(c.api, st.h))
    BY <1>1, <1>5 DEF Handle
  <2>2. c.api \in Numbered => ~begun \/ late
    BY <1>1, <1>5 DEF Continues
  <2> QED BY <1>2, <1>5, <2>1, <2>2, ThinkingSpeaks
<1>6. CASE ~st.ended /\ kind = "annotation"
  <2>1. PICK r, w, l : r = Note(c.api, st.h) /\ w = Sent(st, r) /\ l = st.h
    OBVIOUS
  <2>2. Handle(c, st, ev) = w
    BY <1>1, <1>6, <2>1 DEF Handle
  <2>3. st.called = ""
    BY <1>3, <1>6 DEF Speaks, States
  <2>4. /\ Flows(c.api, l, r) /\ r.h \in Locals /\ r.h.text = l.text /\ r.h.closed = l.closed
        /\ r.h.thinking = l.thinking
    BY <1>2, <1>3, <2>1, NoteFlows
  <2>5. c.api \in Numbered => r.out \in Seq(Bits)
    BY <1>3, <2>1, NoText, EventBits
  <2>6. Mixed(c.api, r.h, "") <=> Mixed(c.api, l, "")
    <3>1. PICK k : k = r.h
      OBVIOUS
    <3> QED BY <2>4, <3>1, MixedIs
  <2>7. CASE ~Mixed(c.api, l, "")
    <3>1. Coupled(c, l, begun)
      BY <2>1, <2>3, <2>7 DEF Speaks
    <3>2. Coupled(c, r.h, begun)
      BY <2>4, <3>1 DEF Coupled
    <3> QED BY <1>6, <2>1, <2>2, <2>4, <2>5, <2>6, <2>7, <3>2, SpeaksMore DEF Plain
  <2>8. CASE Mixed(c.api, l, "")
    <3>1. Issues(r)
      BY <2>4 DEF Flows
    <3>2. PICK q, more : q = st.out /\ more = r.out
      OBVIOUS
    <3>3. w \in States /\ w.h = r.h /\ w.out = q \o more /\ w.called = ""
      BY <1>3, <2>1, <2>3, <3>1, <3>2, SentIs
    <3>4. late
      <4>1. Mixed(c.api, st.h, st.called) /\ st.called # "stream"
        BY <2>1, <2>3, <2>8
      <4> QED BY <4>1 DEF Speaks
    <3>5. c.api \in Numbered => q \in Seq(Bits)
      BY <3>2 DEF Speaks
    <3>6. c.api \in Numbered => w.out \in Seq(Bits)
      BY <2>5, <3>2, <3>3, <3>5, BitsJoin
    <3>7. Mixed(c.api, w.h, w.called) /\ w.called # "stream"
      BY <2>6, <2>8, <3>3
    <3>8. Speaks(c, v, w, begun, late)
      BY <3>3, <3>4, <3>6, <3>7 DEF Speaks
    <3> QED BY <2>2, <3>8
  <2> QED BY <2>7, <2>8
<1>7. CASE ~st.ended /\ ((kind = "thinking" /\ ~c.think) \/ kind = "image")
  <2>1. Handle(c, st, ev) = st
    BY <1>1, <1>7 DEF Handle
  <2> QED BY <2>1
<1>8. CASE ~st.ended /\ kind = "soft_stop"
  <2>1. PICK yes, u : yes = TRUE /\ u = [st EXCEPT !.ended = yes]
    OBVIOUS
  <2>2. Handle(c, st, ev) = u
    BY <1>1, <1>8, <2>1 DEF Handle
  <2>3. yes \in BOOLEAN
    BY <2>1
  <2>4. u \in States /\ u.called = st.called /\ u.out = st.out /\ u.h = st.h /\ u.ended = yes
    BY <1>3, <2>1, <2>3 DEF States
  <2>5. u.ended
    BY <2>1, <2>4
  <2>6. Speaks(c, v, u, begun, late)
    BY <2>4, <2>5 DEF Speaks
  <2> QED BY <2>2, <2>6
<1> QED BY <1>2, <1>4, <1>5, <1>6, <1>7, <1>8

(* A stop ends the frame. *)
LEMMA StopEnds ==
  ASSUME NEW c, NEW st \in States, NEW ev, ev.kind = "soft_stop"
  PROVE  Handle(c, st, ev).ended
<1>1. CASE st.ended
  BY <1>1 DEF Handle
<1>2. CASE ~st.ended
  <2>1. PICK u, yes : yes = TRUE /\ u = [st EXCEPT !.ended = yes]
    OBVIOUS
  <2>2. u.ended = yes
    BY <2>1 DEF States
  <2>3. Handle(c, st, ev) = u
    BY <1>2, <2>1 DEF Handle
  <2> QED BY <2>1, <2>2, <2>3
<1> QED BY <1>1, <1>2

LEMMA FrameSpeaks ==
  ASSUME NEW c \in Configs, NEW v, NEW st, NEW begun, NEW late, Speaks(c, v, st, begun, late),
         Plain(c, st.h), NEW events \in Seq(AdapterEvents), Framed(c, st, events, begun, late)
  PROVE  /\ Speaks(c, v, Handled(c, st, events), begun, late)
         /\ Stops(events) => Handled(c, st, events).ended
<1>1. PICK r : Runs("handle", c, st, events, r) /\ Handled(c, st, events) = r[Len(events)]
  BY HandleRuns
<1>2. PICK n : n = Len(events)
  OBVIOUS
<1>3. n \in Nat
  BY <1>2
<1>4. \A i \in 1..n : events[i] \in AdapterEvents
  BY <1>2
<1> DEFINE S == {i \in Nat : Speaks(c, v, r[i], begun, late)}
<1>5. 0 \in S
  BY <1>1 DEF Runs
<1>6. ASSUME NEW i \in 0..n - 1, i \in S PROVE i + 1 \in S
  <2>1. i \in Nat /\ i + 1 \in 1..Len(events) /\ (i + 1) - 1 = i /\ i + 1 \in Nat
    BY <1>2, <1>3
  <2>2. PICK ev, now : ev = events[i + 1] /\ now = r[i]
    OBVIOUS
  <2>3. ev \in AdapterEvents
    BY <1>2, <1>4, <2>1, <2>2
  <2>4. r[i + 1] = Handle(c, now, ev)
    BY <1>1, <2>1, <2>2, StepIs DEF Runs
  <2>5. Speaks(c, v, now, begun, late)
    BY <1>6, <2>2
  <2>6. CASE ev.kind # "text"
    <3>1. Continues(c, ev, begun, late)
      BY <2>1, <2>2, <2>6 DEF Framed
    <3>2. Speaks(c, v, Handle(c, now, ev), begun, late)
      BY <2>3, <2>5, <3>1, HandleSpeaks
    <3> QED BY <2>1, <2>4, <3>2
  <2>7. CASE ev.kind = "text"
    <3>1. i + 1 = 1
      BY <2>1, <2>2, <2>7 DEF Framed
    <3>2. i = 0 /\ Len(events) > 0
      BY <2>1, <3>1
    <3>3. now = st /\ ev = events[1]
      BY <1>1, <2>2, <3>1, <3>2 DEF Runs
    <3>4. PICK s : s = ev.s
      OBVIOUS
    <3>5. s \in Seq(Pieces)
      BY <2>3, <3>4 DEF AdapterEvents
    <3>6. Begins(c, now, begun) /\ Plain(c, now.h)
      BY <2>7, <3>2, <3>3 DEF Framed
    <3>7. CASE now.ended
      <4>1. Handle(c, now, ev) = now
        BY <3>7 DEF Handle
      <4> QED BY <2>1, <2>4, <2>5, <4>1
    <3>8. CASE ~now.ended
      <4>1. Handle(c, now, ev) = HandleText(c, now, s)
        BY <2>7, <3>4, <3>8 DEF Handle
      <4>2. Speaks(c, v, HandleText(c, now, s), begun, late)
        BY <2>5, <3>5, <3>6, <3>8, TextSpeaks DEF Begins
      <4> QED BY <2>1, <2>4, <4>1, <4>2
    <3> QED BY <3>7, <3>8
  <2> QED BY <2>6, <2>7
<1> HIDE DEF S
<1>7. \A i \in 0..n : i \in S
  BY <1>3, <1>5, <1>6, UpTo
<1>8. Speaks(c, v, r[n], begun, late)
  BY <1>3, <1>7 DEF S
<1>9. ASSUME Stops(events) PROVE r[n].ended
  <2>1. n > 0 /\ events[n].kind = "soft_stop"
    BY <1>2, <1>9 DEF Stops
  <2>2. n \in 1..Len(events) /\ n - 1 \in 0..n
    BY <1>2, <1>3, <2>1
  <2>3. PICK ev, now : ev = events[n] /\ now = r[n - 1]
    OBVIOUS
  <2>4. r[n] = Handle(c, now, ev)
    BY <1>1, <2>2, <2>3, StepIs DEF Runs
  <2>5. now \in States
    BY <1>7, <2>2, <2>3 DEF S, Speaks
  <2> QED BY <2>1, <2>3, <2>4, <2>5, StopEnds
<1> QED BY <1>1, <1>2, <1>8, <1>9

LEMMA FreshSpeaks ==
  ASSUME NEW c, NEW v, NEW l \in Locals, NEW sv \in Sieves, NEW begun, NEW late,
         In(v, Stage(c.api, l)), Coupled(c, l, begun), ~Mixed(c.api, l, "")
  PROVE  Speaks(c, v, [h |-> l, sieve |-> sv, called |-> "", ended |-> FALSE, out |-> <<>>], begun, late)
<1>1. PICK where, no, none : where = "" /\ no = FALSE /\ none = <<>>
  OBVIOUS
<1>2. where \in {"", "stream"} /\ no \in BOOLEAN
  BY <1>1
<1>3. none \in Seq(Chunks) /\ Len(none) = 0 /\ none \in Seq(Bits)
  BY <1>1, NoChunks, NoBits
<1>4. PICK st : st = [h |-> l, sieve |-> sv, called |-> where, ended |-> no, out |-> none]
  OBVIOUS
<1>5. st \in States
  BY <1>2, <1>3, <1>4 DEF States
<1>6. st.called = where /\ st.sieve = sv /\ st.out = none /\ st.h = l
  BY <1>4
<1>7. Leads(c.api, v, none, v)
  BY <1>3, LeadsNone
<1>8. Stands(c.api, v, none, Stage(c.api, l))
  BY <1>7 DEF Stands
<1>9. st.called # "stream" /\ ~Mixed(c.api, st.h, st.called)
  BY <1>1, <1>6
<1>10. Speaks(c, v, st, begun, late)
  BY <1>3, <1>5, <1>6, <1>8, <1>9 DEF Speaks
<1> QED BY <1>1, <1>4, <1>10

LEMMA ReadSpeaks ==
  ASSUME AdapterInv, ClientInv, cfg.stream, pc = "read", NEW f \in Frames(cfg),
         In(view, Stage(cfg.api, h)), Coupled(cfg, h, adapter.started), Plain(cfg, h)
  PROVE  LET st == Handled(cfg, [h |-> h, sieve |-> sieve, called |-> "", ended |-> FALSE, out |-> <<>>],
                           FedBy(f).events)
         IN  /\ Speaks(cfg, view, st, FedBy(f).a.started, Stops(FedBy(f).events))
             /\ Stops(FedBy(f).events) => st.ended
<1>1. PICK c, v, l, sv, fed, events, begun, late, b :
        /\ c = cfg /\ v = view /\ l = h /\ sv = sieve /\ fed = FedBy(f) /\ events = fed.events
        /\ begun = fed.a.started /\ late = Stops(events)
        /\ b = [h |-> l, sieve |-> sv, called |-> "", ended |-> FALSE, out |-> <<>>]
  OBVIOUS
<1>2. cfg \in Configs /\ ClientTypes /\ Reads
  BY DEF AdapterInv, ClientInv
<1>3. c \in Configs /\ l \in Locals /\ sv \in Sieves
  BY <1>1, <1>2 DEF ClientTypes
<1>4. c.api \in Grok => Feeds(adapter, fed, f.k = "token")
  BY <1>1, ReadFeeds
<1>5. c.api \notin Grok => Tells(adapter, fed)
  BY <1>1, ReadFeeds
<1>6. events \in Seq(AdapterEvents)
  BY <1>1, <1>4, <1>5 DEF Feeds, Tells
<1>7. Coupled(c, l, begun)
  <2>1. c.api \in Numbered => c.api \in Grok
    BY DEF Numbered, Grok
  <2>2. c.api \in Numbered => (adapter.started => begun)
    BY <1>1, <1>4, <2>1 DEF Feeds
  <2> QED BY <1>1, <2>2 DEF Coupled
<1>8. Speaks(c, v, b, begun, late) /\ b.sieve = sv /\ b.h = l
  BY <1>1, <1>3, <1>7, FreshSpeaks DEF Plain
<1>9. ASSUME NEW i \in 1..Len(events)
      PROVE  IF events[i].kind = "text" THEN i = 1 ELSE Continues(c, events[i], begun, late)
  <2>1. CASE c.api \in Grok
    <3>1. events[i].kind = "text" => i = 1
      BY <1>1, <1>4, <1>9, <2>1 DEF Feeds
    <3>2. events[i].kind = "thinking" => ~begun \/ late
      BY <1>1, <1>4, <1>9, <2>1 DEF Feeds
    <3> QED BY <2>1, <3>1, <3>2 DEF Continues
  <2>2. CASE c.api \notin Grok
    BY <1>1, <1>5, <1>9, <2>2 DEF Tells
  <2> QED BY <2>1, <2>2
<1>10. ASSUME Len(events) > 0 /\ events[1].kind = "text" PROVE Begins(c, b, begun)
  <2>1. 1 \in 1..Len(events) /\ events # <<>>
    BY <1>6, <1>10
  <2>2. c.api \in Numbered => begun
    <3>1. c.api \in Numbered => c.api \in Grok
      BY DEF Numbered, Grok
    <3> QED BY <1>1, <1>4, <1>10, <2>1, <3>1 DEF Feeds
  <2>3. c.tools => \E sent \in Seq(Pieces) : Buffers(sv, sent)
    <3>1. Delivered(Going) \in Seq(Pieces)
      BY <1>2, GoingIs
    <3>2. Holds(cfg, sieve, Delivered(Going), adapter.text)
      BY <1>2 DEF Reads
    <3> QED BY <1>1, <3>1, <3>2 DEF Holds
  <2> QED BY <1>8, <2>2, <2>3 DEF Begins
<1>11. Plain(c, b.h)
  BY <1>1, <1>8
<1>12. Speaks(c, v, Handled(c, b, events), begun, late) /\ (Stops(events) => Handled(c, b, events).ended)
  <2>1. Framed(c, b, events, begun, late)
    BY <1>9, <1>10 DEF Framed
  <2> QED BY <1>3, <1>6, <1>8, <1>11, <2>1, FrameSpeaks
<1> QED BY <1>1, <1>12

-----------------------------------------------------------------------------
(* What is still to be yielded leads from what the client has to where the  *)
(* program thinks it is; and once the answer is tangled it is events of     *)
(* parts alone, or what ends an answer.                                     *)
Placed(w) ==
  /\ pc = "reserve" => /\ w.phase \in {"idle", "open"}
                       /\ cfg.api \in Build /\ attempt > 0 => In(w, Stage(cfg.api, h))
  /\ pc = "read" => In(w, Stage(cfg.api, h)) /\ Coupled(cfg, h, adapter.started)
  /\ pc = "flush" /\ called = "" =>
       In(w, Stage(cfg.api, h)) /\ Coupled(cfg, h, adapter.started)
  /\ pc = "flush" /\ called = "stream" => \E p : Shut(cfg.api, p) /\ In(w, p)
  /\ pc = "finally" /\ ~success /\ ~gone =>
       w.phase = "open" /\ (cfg.api \in Build => In(w, Stage(cfg.api, h)))

Jumbled ==
  /\ fail = 0 /\ pc \notin {"reserve", "read"}
  /\ Decent(view.phase, queue)
  /\ pc = "flush" => view.phase = "open" /\ queue \in Seq(Bits)
  /\ pc = "finally" /\ ~success /\ ~gone => view.phase = "open"

ProtocolInv ==
  cfg.stream => /\ view \in Views
                /\ pc \in {"read", "flush"} => fail = 0
                /\ IF Tangled THEN Jumbled
                   ELSE \E w \in Views : Leads(cfg.api, view, queue, w) /\ Placed(w)

LEMMA UnstartedIs == Unstarted \in Views /\ Unstarted.phase = "idle"
BY DEF Unstarted, Views, Parts

LEMMA NothingMixed == ~Mixed(cfg.api, NewLocals, "")
<1>1. PICK l : l = NewLocals
  OBVIOUS
<1>2. ~l.thinking
  BY <1>1 DEF NewLocals
<1> QED BY <1>1, <1>2, MixedIs

LEMMA ProtocolInit == Init => ProtocolInv
<1> SUFFICES ASSUME Init PROVE ProtocolInv
  OBVIOUS
<1>1. view = Unstarted /\ pc = "reserve" /\ attempt = 0 /\ queue = <<>> /\ h = NewLocals /\ called = ""
  BY DEF Init
<1>2. Len(queue) = 0
  BY <1>1
<1>3. Leads(cfg.api, view, queue, view)
  BY <1>2, LeadsNone
<1>4. Placed(view)
  <2>1. pc = "reserve" /\ attempt = 0 /\ view.phase = "idle"
    BY <1>1, UnstartedIs
  <2> QED BY <2>1 DEF Placed
<1>5. ~Tangled
  BY <1>1, NothingMixed DEF Tangled
<1>6. view \in Views
  BY <1>1, UnstartedIs
<1> QED BY <1>1, <1>3, <1>4, <1>5, <1>6 DEF ProtocolInv

(* A step that yields nothing: where the answer stood, and where it stands. *)
LEMMA ProtocolBy ==
  ASSUME UNCHANGED <<cfg, view>>, view \in Views, ~Tangled', pc' \in {"read", "flush"} => fail' = 0,
         NEW u, u \in Views, Leads(cfg.api, view, queue', u), Placed(u)'
  PROVE  ProtocolInv'
<1>1. cfg' = cfg /\ view' = view
  OBVIOUS
<1>2. Leads(cfg'.api, view', queue', u)
  BY <1>1
<1>3. view' \in Views
  BY <1>1
<1> QED BY <1>2, <1>3 DEF ProtocolInv

LEMMA JumbledBy ==
  ASSUME view' \in Views, Tangled', Jumbled'
  PROVE  ProtocolInv'
BY DEF ProtocolInv, Jumbled

LEMMA StillTangled ==
  ASSUME UNCHANGED <<cfg, h, called>>
  PROVE  Tangled' <=> Tangled
BY DEF Tangled

LEMMA JumbledHere ==
  ASSUME ProtocolInv, cfg.stream, Tangled
  PROVE  Jumbled /\ view \in Views /\ cfg.api \in Numbered
<1>1. Mixed(cfg.api, h, called)
  BY DEF Tangled
<1>2. cfg.api \in Numbered
  BY <1>1 DEF Mixed, Numbered
<1> QED BY <1>2 DEF ProtocolInv

LEMMA UnfailedHere ==
  ASSUME ProtocolInv, cfg.stream, pc \in {"read", "flush"}
  PROVE  fail = 0 /\ view \in Views
BY DEF ProtocolInv

(* Nothing is left to be yielded.                                           *)
LEMMA PlacedHere ==
  ASSUME ProtocolInv, cfg.stream, ~Tangled, queue = <<>>
  PROVE  view \in Views /\ Placed(view) /\ Leads(cfg.api, view, <<>>, view)
<1>1. PICK w \in Views : Leads(cfg.api, view, queue, w) /\ Placed(w)
  BY DEF ProtocolInv
<1>2. PICK q : q = queue
  OBVIOUS
<1>3. Len(q) = 0 /\ q = <<>>
  BY <1>2
<1>4. Leads(cfg.api, view, q, view) /\ (Leads(cfg.api, view, q, w) => w = view)
  BY <1>3, LeadsNone
<1>5. w = view
  BY <1>1, <1>2, <1>4
<1> QED BY <1>1, <1>3, <1>4, <1>5

LEMMA ProtocolReserve ==
  ASSUME AdapterInv, ProtocolInv, cfg.stream, Reserve
  PROVE  ProtocolInv'
<1>1. /\ pc = "reserve" /\ queue = <<>> /\ pc' = "read" /\ h' = NewLocals /\ sieve' = NewSieve
      /\ queue' = (IF cfg.api \notin Build \/ attempt = 0 THEN Opening(cfg.api) ELSE <<>>)
      /\ UNCHANGED <<cfg, view>>
  BY DEF Reserve
<1>0. ~Tangled
  BY <1>1, JumbledHere DEF Jumbled
<1>2. view \in Views /\ Placed(view) /\ Leads(cfg.api, view, <<>>, view)
  BY <1>0, <1>1, PlacedHere
<1>3. cfg.api \in Grok \cup Console \cup Build /\ attempt \in Nat
  BY ConfigsAssumption DEF AdapterInv
<1>4. PICK v, l, phase, part, n : v = view /\ l = NewLocals /\ phase = v.phase /\ part = v.part /\ n = v.index
  OBVIOUS
<1>5. \E u \in Views : In(u, Stage(cfg.api, l)) /\ Leads(cfg.api, v, queue', u)
  <2>1. CASE cfg.api \notin Build \/ attempt = 0
    <3>1. phase \in {"idle", "open"}
      BY <1>1, <1>2, <1>4 DEF Placed
    <3>2. In(v, <<phase, part, n>>)
      BY <1>2, <1>4 DEF In
    <3>3. Turns(cfg.api, <<phase, part, n>>, Opening(cfg.api), Stage(cfg.api, l))
      BY <1>3, <1>4, <3>1, OpeningTurns
    <3>4. PICK u : In(u, Stage(cfg.api, l)) /\ Leads(cfg.api, v, Opening(cfg.api), u)
      BY <3>2, <3>3 DEF Turns
    <3>5. u \in Views
      BY <3>4 DEF In
    <3> QED BY <1>1, <2>1, <3>4, <3>5
  <2>2. CASE ~(cfg.api \notin Build \/ attempt = 0)
    <3>1. cfg.api \in Build /\ attempt > 0
      BY <1>3, <2>2
    <3>2. In(v, Stage(cfg.api, h))
      BY <1>1, <1>2, <1>4, <3>1 DEF Placed
    <3>3. Stage(cfg.api, h) = Stage(cfg.api, l)
      BY <3>1 DEF Stage, PartOf, NumberOf, Build, Bares, Ready
    <3> QED BY <1>1, <1>2, <1>4, <2>2, <3>2, <3>3
  <2> QED BY <2>1, <2>2
<1>6. PICK u \in Views : In(u, Stage(cfg.api, l)) /\ Leads(cfg.api, v, queue', u)
  BY <1>5
<1>7. ASSUME NEW begun PROVE Coupled(cfg, l, begun)
  BY <1>4 DEF Coupled, NewLocals
<1>8. Placed(u)'
  <2>1. In(u, Stage(cfg.api, h)') /\ Coupled(cfg', h', adapter'.started)
    BY <1>1, <1>4, <1>6, <1>7
  <2> QED BY <1>1, <2>1 DEF Placed
<1>9. ~Tangled' /\ fail' = 0
  <2>1. cfg' = cfg /\ h' = NewLocals /\ called' = "" /\ fail' = 0
    BY DEF Reserve
  <2> QED BY <2>1, NothingMixed DEF Tangled
<1> QED BY <1>1, <1>2, <1>4, <1>6, <1>8, <1>9, ProtocolBy

(* An error is what is left.                                                *)
LEMMA ErrorCloses == Closing(<<Error, End>>)
<1>1. PICK f, e, q : f = Error /\ e = End /\ q = <<f, e>>
  OBVIOUS
<1>2. f \in Chunks /\ e \in Chunks /\ f.t = "error" /\ e.t = "end"
  BY <1>1, OtherChunks
<1>3. q \in Seq(Chunks) /\ Len(q) = 2 /\ q[1] = f /\ q[2] = e
  BY <1>1, <1>2
<1>4. PICK n : n = 2
  OBVIOUS
<1>5. n - 1 = 1 /\ 1..n - 2 = {} /\ n >= 2 /\ Len(q) = n /\ q[n - 1] = f /\ q[n] = e
  BY <1>3, <1>4
<1>6. Closing(q)
  BY <1>2, <1>3, <1>5 DEF Closing
<1> QED BY <1>1, <1>6

LEMMA ProtocolRaises ==
  ASSUME view \in Views, view.phase \in {"idle", "open"}, Tangled => view.phase = "open" /\ fail = 0,
         cfg.stream, Raise, UNCHANGED <<cfg, view, h, called, fail>>
  PROVE  ProtocolInv'
<1>1. PICK v, phase, part, n : v = view /\ phase = v.phase /\ part = v.part /\ n = v.index
  OBVIOUS
<1>2. In(v, <<phase, part, n>>) /\ phase \in {"idle", "open"}
  BY <1>1 DEF In
<1>3. Turns(cfg.api, <<phase, part, n>>, <<Error, End>>, <<"ended", part, n>>)
  BY <1>2, ErrorTurns
<1>4. PICK u : In(u, <<"ended", part, n>>) /\ Leads(cfg.api, v, <<Error, End>>, u)
  BY <1>2, <1>3 DEF Turns
<1>5. u \in Views
  BY <1>4 DEF In
<1>6. queue' = <<Error, End>> /\ pc' = "closing"
  BY DEF Raise
<1>7. Placed(u)'
  BY <1>6 DEF Placed
<1>8. Tangled' <=> Tangled
  BY StillTangled
<1>9. CASE ~Tangled
  BY <1>1, <1>4, <1>5, <1>6, <1>7, <1>8, <1>9, ProtocolBy
<1>10. CASE Tangled
  <2>1. Decent(view'.phase, queue')
    BY <1>6, <1>10, ErrorCloses DEF Decent
  <2>2. Jumbled'
    BY <1>6, <1>10, <2>1 DEF Jumbled
  <2> QED BY <1>8, <1>10, <2>2, JumbledBy
<1> QED BY <1>9, <1>10

LEMMA ProtocolNoAccount ==
  ASSUME ProtocolInv, cfg.stream, NoAccount
  PROVE  ProtocolInv'
<1>1. pc = "reserve" /\ queue = <<>> /\ Raise /\ UNCHANGED <<cfg, view, h, called, fail>>
  BY DEF NoAccount, loop, reader
<1>2. ~Tangled
  BY <1>1, JumbledHere DEF Jumbled
<1>3. view \in Views /\ Placed(view)
  BY <1>1, <1>2, PlacedHere
<1>4. view.phase \in {"idle", "open"}
  BY <1>1, <1>3 DEF Placed
<1> QED BY <1>1, <1>2, <1>3, <1>4, ProtocolRaises

LEMMA ProtocolYield ==
  ASSUME LoopInv, ClientInv, ProtocolInv, cfg.stream, Yield
  PROVE  ProtocolInv'
<1>1. /\ queue # <<>> /\ queue' = Tail(queue) /\ view' = Shape(cfg.api, view, Head(queue))
      /\ UNCHANGED <<cfg, pc, attempt, success, gone, fail, h, sieve, called, adapter>>
  BY DEF Yield, loop, reader
<1>2. queue \in Seq(Chunks)
  BY DEF ClientInv, ClientTypes
<1>3. PICK q, v, e, t, u : q = queue /\ v = view /\ e = Head(q) /\ t = Tail(q) /\ u = Shape(cfg.api, v, e)
  OBVIOUS
<1>4. q \in Seq(Chunks) /\ q # <<>>
  BY <1>1, <1>2, <1>3
<1>5. view' = u /\ queue' = t /\ cfg' = cfg /\ (Tangled' <=> Tangled)
  BY <1>1, <1>3, StillTangled
<1>6. CASE ~Tangled
  <2>1. PICK w \in Views : Leads(cfg.api, view, queue, w) /\ Placed(w)
    BY <1>6 DEF ProtocolInv
  <2>2. Leads(cfg.api, v, q, w)
    BY <1>3, <2>1
  <2>3. Leads(cfg.api, u, t, w)
    BY <1>3, <1>4, <2>2, LeadsHead
  <2>4. t \in Seq(Chunks)
    BY <1>3, <1>4
  <2>5. u \in Views
    <3>1. CASE t = <<>>
      <4>1. Len(t) = 0
        BY <3>1
      <4>2. w = u
        BY <2>3, <4>1, LeadsNone
      <4> QED BY <4>2
    <3>2. CASE t # <<>>
      BY <2>3, <2>4, <3>2, LeadsHead
    <3> QED BY <3>1, <3>2
  <2>6. Placed(w)'
    BY <1>1, <2>1 DEF Placed
  <2>7. view' \in Views /\ Leads(cfg'.api, view', queue', w)
    BY <1>5, <2>3, <2>5
  <2>8. pc' \in {"read", "flush"} => fail' = 0
    BY <1>1, UnfailedHere
  <2> QED BY <1>5, <1>6, <2>6, <2>7, <2>8 DEF ProtocolInv
<1>7. CASE Tangled
  <2>1. Jumbled /\ v \in Views
    BY <1>3, <1>7, JumbledHere
  <2>2. Decent(v.phase, q)
    BY <1>3, <2>1 DEF Jumbled
  <2>3. u \in Views /\ Decent(u.phase, t) /\ (q \in Seq(Bits) => t \in Seq(Bits) /\ v.phase = u.phase)
    <3>1. e = Head(q) /\ u = Shape(cfg.api, v, e) /\ t = Tail(q)
      BY <1>3
    <3>2. Proceeds(v, q, e, u, t)
      BY <1>4, <2>1, <2>2, <3>1, DecentHead
    <3> QED BY <3>2 DEF Proceeds
  <2>4. pc # "finally"
    BY <1>1 DEF LoopInv, Steps
  <2>5. pc = "flush" => u.phase = "open" /\ t \in Seq(Bits)
    BY <1>3, <2>1, <2>3 DEF Jumbled
  <2>6. fail = 0 /\ pc \notin {"reserve", "read"}
    BY <2>1 DEF Jumbled
  <2>7. Decent(view'.phase, queue')
    BY <1>5, <2>3
  <2>8. Jumbled'
    BY <1>1, <1>5, <2>4, <2>5, <2>6, <2>7 DEF Jumbled
  <2> QED BY <1>5, <1>7, <2>3, <2>8, JumbledBy
<1> QED BY <1>6, <1>7

LEMMA ProtocolRead ==
  ASSUME AdapterInv, ClientInv, ProtocolInv, cfg.stream, NEW f \in Frames(cfg), Read(f)
  PROVE  ProtocolInv'
<1>1. PICK st, begun, late :
        /\ st = Handled(cfg, [h |-> h, sieve |-> sieve, called |-> "", ended |-> FALSE, out |-> <<>>],
                        FedBy(f).events)
        /\ begun = FedBy(f).a.started /\ late = Stops(FedBy(f).events)
  OBVIOUS
<1>2. /\ pc = "read" /\ queue = <<>> /\ adapter' = FedBy(f).a
      /\ h' = st.h /\ sieve' = st.sieve /\ called' = st.called /\ queue' = st.out
      /\ pc' = (IF st.ended \/ (cfg.api \in Build /\ f.k = "stop") THEN "flush" ELSE "read")
      /\ UNCHANGED <<cfg, view, fail>>
  BY <1>1 DEF Read, loop
<1>3. ~Tangled /\ called = "" /\ fail = 0
  BY <1>2, JumbledHere, UnfailedHere DEF Jumbled, ClientInv, Reads
<1>4. view \in Views /\ Placed(view)
  BY <1>2, <1>3, PlacedHere
<1>5. In(view, Stage(cfg.api, h)) /\ Coupled(cfg, h, adapter.started)
  BY <1>2, <1>4 DEF Placed
<1>6. Plain(cfg, h)
  BY <1>3 DEF Plain, Tangled
<1>7. Speaks(cfg, view, st, begun, late) /\ (late => st.ended)
  BY <1>1, <1>2, <1>5, <1>6, ReadSpeaks
<1>8. st.called \in {"", "stream"} /\ (st.called = "stream" => st.ended)
  BY <1>7 DEF Speaks, States
<1>9. Tangled' <=> Mixed(cfg.api, st.h, st.called)
  BY <1>2 DEF Tangled
<1>10. CASE Mixed(cfg.api, st.h, st.called)
  <2>1. st.called = "stream" \/ late
    BY <1>7, <1>10 DEF Speaks
  <2>2. pc' = "flush"
    BY <1>2, <1>7, <1>8, <2>1
  <2>3. cfg.api \in Numbered
    BY <1>10 DEF Mixed, Numbered
  <2>4. queue' \in Seq(Bits)
    BY <1>2, <1>7, <2>3 DEF Speaks
  <2>5. view'.phase = "open"
    BY <1>2, <1>5 DEF In, Stage
  <2>6. Decent(view'.phase, queue')
    BY <2>4, <2>5 DEF Decent
  <2>7. Jumbled'
    BY <1>2, <1>3, <2>2, <2>4, <2>5, <2>6 DEF Jumbled
  <2> QED BY <1>2, <1>4, <1>9, <1>10, <2>7, JumbledBy
<1>11. CASE ~Mixed(cfg.api, st.h, st.called) /\ st.called = ""
  <2>1. Stands(cfg.api, view, st.out, Stage(cfg.api, st.h)) /\ Coupled(cfg, st.h, begun)
    BY <1>7, <1>11 DEF Speaks
  <2>2. PICK u : In(u, Stage(cfg.api, st.h)) /\ Leads(cfg.api, view, st.out, u)
    BY <2>1 DEF Stands
  <2>3. u \in Views
    BY <2>2 DEF In
  <2>4. Placed(u)'
    <3>1. In(u, Stage(cfg.api, h)') /\ Coupled(cfg', h', adapter'.started)
      BY <1>1, <1>2, <2>1, <2>2
    <3> QED BY <1>2, <1>11, <2>2, <3>1 DEF Placed
  <2>5. ~Tangled' /\ fail' = 0
    BY <1>2, <1>3, <1>9, <1>11
  <2> QED BY <1>2, <1>4, <2>2, <2>3, <2>4, <2>5, ProtocolBy
<1>12. CASE ~Mixed(cfg.api, st.h, st.called) /\ st.called = "stream"
  <2>1. PICK p : Shut(cfg.api, p) /\ Stands(cfg.api, view, st.out, p)
    BY <1>7, <1>12 DEF Speaks
  <2>2. PICK u : In(u, p) /\ Leads(cfg.api, view, st.out, u)
    BY <2>1 DEF Stands
  <2>3. u \in Views
    BY <2>2 DEF In
  <2>4. pc' = "flush" /\ called' = "stream"
    BY <1>2, <1>8, <1>12
  <2>5. Placed(u)'
    BY <1>2, <2>1, <2>2, <2>4 DEF Placed
  <2>6. ~Tangled' /\ fail' = 0
    BY <1>2, <1>3, <1>9, <1>12
  <2> QED BY <1>2, <1>4, <2>2, <2>3, <2>5, <2>6, ProtocolBy
<1> QED BY <1>8, <1>10, <1>11, <1>12

(* What is tangled stays so to the end of the attempt.                      *)
LEMMA FinishesTangled ==
  ASSUME AdapterInv, ClientInv, cfg.stream, Finishes
  PROVE  Tangled => Tangled'
<1>1. PICK flushed, late, calls, where, final :
        /\ flushed = Flush(sieve)
        /\ late = (called = "" /\ cfg.tools /\ flushed.calls > 0)
        /\ calls = (IF late THEN CallsAtEnd(cfg.api, h, flushed.calls) ELSE Sends(h, <<>>))
        /\ where = (IF late THEN "end" ELSE called)
        /\ final = Finishing(cfg.api, calls.h, adapter, where)
  OBVIOUS
<1>2. pc = "flush" /\ h' = final.h /\ called' = where /\ cfg' = cfg
  BY <1>1 DEF Finishes
<1>3. h \in Locals /\ sieve \in Sieves
  BY DEF ClientInv, ClientTypes
<1>4. cfg.api \in Grok \cup Console \cup Build
  BY ConfigsAssumption DEF AdapterInv
<1>5. PICK l, api, k : l = h /\ api = cfg.api /\ k = calls.h
  OBVIOUS
<1>6. final.h = k
  <2>1. final = Finishing(api, k, adapter, where) /\ api \in Grok \cup Console \cup Build
    BY <1>1, <1>4, <1>5
  <2>2. Finishing(api, k, adapter, where).h = k
    BY <2>1, FinishingKeeps
  <2> QED BY <2>1, <2>2
<1>7. (Tangled' <=> Mixed(api, k, where)) /\ (Tangled <=> Mixed(api, l, called))
  BY <1>2, <1>5, <1>6 DEF Tangled
<1>8. CASE ~late
  <2>1. k = l /\ where = called
    BY <1>1, <1>5, <1>8 DEF Sends
  <2> QED BY <1>7, <2>1
<1>9. CASE late /\ Tangled
  <2>1. called = "" /\ where # ""
    BY <1>1, <1>9
  <2>2. api \in Numbered /\ l.thinking /\ ~l.closed
    BY <1>7, <1>9, <2>1, MixedIs
  <2>3. PICK n : n = flushed.calls
    OBVIOUS
  <2>4. n \in Nat /\ k = CallsAtEnd(api, l, n).h
    BY <1>1, <1>3, <1>5, <1>9, <2>3, FlushIs
  <2>5. k.thinking /\ ~k.closed
    BY <1>3, <1>5, <2>2, <2>4, CallsAtEndKeep
  <2>6. Mixed(api, k, where)
    BY <2>1, <2>2, <2>5, MixedIs
  <2> QED BY <1>7, <2>6
<1> QED BY <1>8, <1>9

LEMMA ProtocolFinishes ==
  ASSUME AdapterInv, LoopInv, ClientInv, ProtocolInv, cfg.stream, Finishes
  PROVE  ProtocolInv'
<1>1. PICK flushed, late, calls, where, final :
        /\ flushed = Flush(sieve)
        /\ late = (called = "" /\ cfg.tools /\ flushed.calls > 0)
        /\ calls = (IF late THEN CallsAtEnd(cfg.api, h, flushed.calls) ELSE Sends(h, <<>>))
        /\ where = (IF late THEN "end" ELSE called)
        /\ final = Finishing(cfg.api, calls.h, adapter, where)
  OBVIOUS
<1>2. /\ pc = "flush" /\ queue = <<>> /\ pc' = "sent" /\ queue' = calls.out \o final.out
      /\ h' = final.h /\ called' = where /\ UNCHANGED <<cfg, view, fail>>
  BY <1>1 DEF Finishes, loop
<1>3. view \in Views /\ fail = 0
  BY <1>2, UnfailedHere
<1>4. h \in Locals /\ sieve \in Sieves /\ called \in {"", "stream"}
  BY <1>2 DEF ClientInv, ClientTypes, Flushes
<1>5. /\ cfg.api \in Grok \cup Console \cup Build /\ (cfg.tools => cfg.api \in Grok)
      /\ cfg.api \in Grok => IsAdapter(adapter)
  BY ConfigsAssumption DEF AdapterInv
<1>6. PICK v, a, l, api, k : v = view /\ a = adapter /\ l = h /\ api = cfg.api /\ k = calls.h
  OBVIOUS
<1>7. v \in Views /\ l \in Locals
  BY <1>3, <1>4, <1>6
<1>8. Tangled' <=> Mixed(api, k, where)
  <2>1. final.h = k
    <3>1. final = Finishing(api, k, adapter, where) /\ api \in Grok \cup Console \cup Build
      BY <1>1, <1>5, <1>6
    <3>2. Finishing(api, k, adapter, where).h = k
      BY <3>1, FinishingKeeps
    <3> QED BY <3>1, <3>2
  <2> QED BY <1>2, <1>6, <2>1 DEF Tangled
<1>9. ~late => k = l /\ calls.out = <<>> /\ where = called
  BY <1>1, <1>6 DEF Sends
<1>10. late => /\ called = "" /\ cfg.tools /\ api \in Grok /\ flushed.calls \in Nat /\ flushed.calls > 0
               /\ where = "end" /\ calls = CallsAtEnd(api, l, flushed.calls)
  BY <1>1, <1>4, <1>5, <1>6, FlushIs
<1>11. ASSUME api \in Numbered
       PROVE  /\ k \in Locals /\ calls.out \in Seq(Bits) /\ k.thinking = l.thinking /\ k.closed = l.closed
              /\ api = "responses" => k.text = l.text
  <2>1. CASE ~late
    BY <1>7, <1>9, <2>1, NoBits
  <2>2. CASE late
    <3>1. PICK n : n = flushed.calls
      OBVIOUS
    <3>2. n \in Nat /\ calls = CallsAtEnd(api, l, n) /\ api \in Grok
      BY <1>10, <2>2, <3>1
    <3>3. calls.out \in Seq(Bits)
      BY <1>7, <1>11, <3>2, CallBits
    <3>4. k \in Locals
      BY <1>6, <1>7, <3>2, CallsAtEndIssue DEF Issues
    <3>5. k.thinking = l.thinking /\ k.closed = l.closed /\ (api = "responses" => k.text = l.text)
      BY <1>6, <1>7, <1>11, <3>2, CallsAtEndKeep
    <3> QED BY <3>3, <3>4, <3>5
  <2> QED BY <2>1, <2>2
<1>12. Tangled <=> Mixed(api, l, called)
  BY <1>6 DEF Tangled
<1>13. Tangled => Tangled'
  BY FinishesTangled
<1>14. CASE Tangled'
  <2>1. api \in Numbered /\ api \in Grok
    BY <1>8, <1>14 DEF Mixed, Numbered, Grok
  <2>2. v.phase = "open"
    <3>1. CASE Tangled
      BY <1>2, <1>6, <3>1, JumbledHere DEF Jumbled
    <3>2. CASE ~Tangled
      <4>1. Placed(view)
        BY <1>2, <3>2, PlacedHere
      <4>2. called # "stream"
        <5> SUFFICES ASSUME called = "stream" PROVE FALSE
          OBVIOUS
        <5>1. ~late
          BY <1>10
        <5> QED BY <1>8, <1>9, <1>12, <1>14, <3>2, <5>1
      <4>3. called = ""
        BY <1>4, <4>2
      <4>4. In(v, Stage(api, l))
        BY <1>2, <1>6, <4>1, <4>3 DEF Placed
      <4> QED BY <4>4 DEF In, Stage
    <3> QED BY <3>1, <3>2
  <2>3. a.images \in Nat
    BY <1>5, <1>6, <2>1 DEF IsAdapter
  <2>4. Closing(final.out)
    BY <1>1, <1>6, <1>11, <2>1, <2>3, NumberedCloses
  <2>5. Closing(queue')
    BY <1>2, <1>11, <2>1, <2>4, ClosingAfter
  <2>6. Decent(view'.phase, queue')
    BY <1>2, <1>6, <2>2, <2>5 DEF Decent
  <2>7. Jumbled'
    BY <1>2, <1>3, <2>6 DEF Jumbled
  <2> QED BY <1>2, <1>3, <1>14, <2>7, JumbledBy
<1>15. CASE ~Tangled'
  <2>1. ~Tangled /\ Placed(view)
    BY <1>2, <1>13, <1>15, PlacedHere
  <2>2. \E u, s : In(u, s) /\ Leads(api, v, queue', u)
    <3>1. CASE late
      <4>1. In(v, Stage(api, l)) /\ api \in Grok /\ flushed.calls \in Nat /\ flushed.calls > 0
        BY <1>2, <1>6, <1>10, <2>1, <3>1 DEF Placed
      <4>2. (api \in Numbered => (l.thinking => l.closed)) /\ (api = "responses" => ~l.text)
        <5>1. where # "" /\ ~Mixed(api, k, where)
          BY <1>8, <1>10, <1>15, <3>1
        <5>2. api \in Numbered => ~k.text /\ ~(k.thinking /\ ~k.closed)
          BY <5>1, MixedIs
        <5>3. api = "responses" => api \in Numbered
          BY DEF Numbered
        <5> QED BY <1>11, <5>2, <5>3
      <4>3. PICK p : Shut(api, p) /\ Turns(api, Stage(api, l), CallsAtEnd(api, l, flushed.calls).out, p)
        BY <1>7, <4>1, <4>2, CallsAtEndTurn
      <4>4. calls.out = CallsAtEnd(api, l, flushed.calls).out /\ where = "end"
        BY <1>10, <3>1
      <4>5. PICK s : Turns(api, p, final.out, s)
        <5>1. where # ""
          BY <4>4
        <5>2. \E s : Turns(api, p, Finishing(api, k, a, where).out, s)
          BY <4>1, <4>3, <5>1, ShutTurns
        <5> QED BY <1>1, <1>6, <5>2
      <4>6. Turns(api, Stage(api, l), calls.out \o final.out, s)
        BY <4>3, <4>4, <4>5, TurnsConcat
      <4> QED BY <1>2, <4>1, <4>6 DEF Turns
    <3>2. CASE ~late
      <4>1. PICK none, sent : none = <<>> /\ sent = final.out
        OBVIOUS
      <4>2. k = l /\ calls.out = none /\ where = called
        BY <1>9, <3>2, <4>1
      <4>3. \E p, s : In(v, p) /\ Turns(api, p, sent, s)
        <5>1. CASE called = "stream"
          <6>1. PICK p : Shut(api, p) /\ In(v, p)
            BY <1>2, <1>6, <2>1, <5>1 DEF Placed
          <6>2. api \in Grok
            BY <6>1 DEF Shut
          <6>3. where # ""
            BY <4>2, <5>1
          <6>4. \E s : Turns(api, p, Finishing(api, l, a, where).out, s)
            BY <6>1, <6>2, <6>3, ShutTurns
          <6> QED BY <1>1, <1>6, <4>1, <4>2, <6>1, <6>4
        <5>2. CASE called = ""
          <6>1. In(v, Stage(api, l)) /\ Coupled(cfg, l, a.started)
            BY <1>2, <1>6, <2>1, <5>2 DEF Placed
          <6>2. api \in Numbered => Coherent(l)
            <7>1. ~Mixed(api, l, "")
              BY <1>12, <2>1, <5>2
            <7> QED BY <1>6, <6>1, <7>1, MixedIs DEF Coupled, Coherent
          <6>3. api \in Grok => a.images \in Nat
            BY <1>5, <1>6 DEF IsAdapter
          <6>4. \E s : Turns(api, Stage(api, l), Finishing(api, l, a, "").out, s)
            BY <1>5, <1>6, <1>7, <6>2, <6>3, FinishingTurns
          <6>5. sent = Finishing(api, l, a, "").out
            BY <1>1, <1>6, <4>1, <4>2, <5>2
          <6> QED BY <6>1, <6>4, <6>5
        <5> QED BY <1>4, <5>1, <5>2
      <4>4. PICK p, s : In(v, p) /\ Turns(api, p, sent, s)
        BY <4>3
      <4>5. PICK u : In(u, s) /\ Leads(api, v, sent, u)
        BY <4>4 DEF Turns
      <4>6. none \o sent = sent
        <5>1. sent \in Seq(Chunks)
          BY <4>4 DEF Turns
        <5> QED BY <4>1, <5>1
      <4>7. queue' = sent
        BY <1>2, <4>1, <4>2, <4>6
      <4> QED BY <4>5, <4>7
    <3> QED BY <3>1, <3>2
  <2>3. PICK u, s : In(u, s) /\ Leads(api, v, queue', u)
    BY <2>2
  <2>4. u \in Views
    BY <2>3 DEF In
  <2>5. Placed(u)'
    BY <1>2 DEF Placed
  <2>6. fail' = 0
    BY <1>2, <1>3
  <2> QED BY <1>2, <1>3, <1>6, <1>15, <2>3, <2>4, <2>5, <2>6, ProtocolBy
<1> QED BY <1>14, <1>15

(* The client goes away: what was to be yielded is dropped.                 *)
LEMMA ProtocolLeaves ==
  ASSUME ProtocolInv, cfg.stream, Leave
  PROVE  ProtocolInv'
<1>1. /\ gone' /\ queue' = <<>> /\ pc' \in {"finally", "done"}
      /\ UNCHANGED <<cfg, view, h, called, fail>>
  BY DEF Leave, reader
<1>2. view \in Views /\ (Tangled' <=> Tangled)
  BY <1>1, StillTangled DEF ProtocolInv
<1>3. PICK v, none : v = view /\ none = <<>>
  OBVIOUS
<1>4. Len(none) = 0
  BY <1>3
<1>5. Leads(cfg.api, v, none, v)
  BY <1>4, LeadsNone
<1>6. Placed(v)'
  BY <1>1 DEF Placed
<1>7. CASE ~Tangled
  BY <1>1, <1>2, <1>3, <1>5, <1>6, <1>7, ProtocolBy
<1>8. CASE Tangled
  <2>1. Decent(view'.phase, queue')
    BY <1>1 DEF Decent
  <2>2. fail = 0
    BY <1>8, JumbledHere DEF Jumbled
  <2>3. Jumbled'
    BY <1>1, <2>1, <2>2 DEF Jumbled
  <2> QED BY <1>1, <1>2, <1>8, <2>3, JumbledBy
<1> QED BY <1>7, <1>8

LEMMA ProtocolFinally ==
  ASSUME LoopInv, ProtocolInv, cfg.stream, Finally
  PROVE  ProtocolInv'
<1>1. pc = "finally" /\ queue = <<>> /\ UNCHANGED <<cfg, view, h, called, fail, attempt>>
  BY DEF Finally, LoopInv, Steps, reader
<1>2. Tangled' <=> Tangled
  BY <1>1, StillTangled
<1>3. PICK v : v = view
  OBVIOUS
<1>4. CASE ~Tangled
  <2>1. view \in Views /\ Placed(view) /\ Leads(cfg.api, view, <<>>, view)
    BY <1>1, <1>4, PlacedHere
  <2>2. CASE gone \/ success
    <3>1. pc' = "done" /\ queue' = queue
      BY <2>2 DEF Finally
    <3>2. Placed(v)'
      BY <3>1 DEF Placed
    <3> QED BY <1>1, <1>2, <1>3, <1>4, <2>1, <3>1, <3>2, ProtocolBy
  <2>3. CASE ~gone /\ ~success /\ Retries
    <3>1. pc' = "reserve" /\ queue' = queue
      BY <2>3 DEF Finally
    <3>2. v.phase = "open" /\ (cfg.api \in Build => In(v, Stage(cfg.api, h)))
      BY <1>1, <1>3, <2>1, <2>3 DEF Placed
    <3>3. Placed(v)'
      <4>1. cfg'.api \in Build => In(v, Stage(cfg.api, h)')
        BY <1>1, <3>2
      <4> QED BY <1>1, <3>1, <3>2, <4>1 DEF Placed
    <3> QED BY <1>1, <1>2, <1>3, <1>4, <2>1, <3>1, <3>3, ProtocolBy
  <2>4. CASE ~gone /\ ~success /\ ~Retries
    <3>1. Raise
      BY <2>4 DEF Finally
    <3>2. view.phase \in {"idle", "open"}
      BY <1>1, <2>1, <2>4 DEF Placed
    <3> QED BY <1>1, <1>4, <2>1, <3>1, <3>2, ProtocolRaises
  <2> QED BY <2>2, <2>3, <2>4
<1>5. CASE Tangled
  <2>1. Jumbled /\ view \in Views
    BY <1>5, JumbledHere
  <2>2. fail = 0
    BY <2>1 DEF Jumbled
  <2>3. CASE gone \/ success
    <3>1. pc' = "done" /\ queue' = <<>>
      BY <1>1, <2>3 DEF Finally
    <3>2. Decent(view'.phase, queue')
      BY <3>1 DEF Decent
    <3>3. Jumbled'
      BY <1>1, <2>2, <3>1, <3>2 DEF Jumbled
    <3> QED BY <1>1, <1>2, <1>5, <2>1, <3>3, JumbledBy
  <2>4. CASE ~gone /\ ~success
    <3>1. ~Retries
      BY <2>2 DEF Retries, RetryCodes
    <3>2. Raise
      BY <2>4, <3>1 DEF Finally
    <3>3. view.phase = "open"
      BY <1>1, <2>1, <2>4 DEF Jumbled
    <3> QED BY <1>1, <2>1, <2>2, <3>2, <3>3, ProtocolRaises
  <2> QED BY <2>3, <2>4
<1> QED BY <1>4, <1>5

(* Steps that only move on *)
LEMMA ProtocolMoves ==
  ASSUME LoopInv, ClientInv, ProtocolInv, cfg.stream,
         \/ EndOfStream \/ FinishRaises \/ Succeeds \/ Closed
         \/ \E status \in Failures : Fails(status)
         \/ \E cause \in {"usage limit", "load shed", "other"} : ErrorFrame(cause)
  PROVE  ProtocolInv'
<1>1. /\ queue = <<>> /\ queue' = queue
      /\ UNCHANGED <<cfg, view, h, sieve, adapter, called, attempt, gone>>
  BY DEF EndOfStream, FinishRaises, Succeeds, Closed, Fails, ErrorFrame, loop, reader, client
<1>2. Tangled' <=> Tangled
  BY <1>1, StillTangled
<1>3. PICK v : v = view
  OBVIOUS
<1>4. \/ pc = "read" /\ pc' = "flush" /\ fail' = fail
      \/ pc = "read" /\ pc' = "finally"
      \/ pc = "flush" /\ pc' = "finally" /\ called = "" /\ cfg.api \in Grok /\ fail' = fail
      \/ pc' = "finally" /\ success' /\ fail' = fail
      \/ pc' = "done" /\ fail' = fail
  BY DEF EndOfStream, FinishRaises, Succeeds, Closed, Fails, ErrorFrame, loop
<1>5. ASSUME NEW l, In(v, Stage(cfg.api, l)) PROVE v.phase = "open"
  BY <1>5 DEF In, Stage
<1>6. CASE ~Tangled
  <2>1. view \in Views /\ Placed(view) /\ Leads(cfg.api, view, <<>>, view)
    BY <1>1, <1>6, PlacedHere
  <2>2. ASSUME Placed(v)', pc' # "flush" \/ fail' = 0 PROVE ProtocolInv'
    <3>1. pc' \in {"read", "flush"} => fail' = 0
      BY <1>4, <2>2
    <3> QED BY <1>1, <1>2, <1>3, <1>6, <2>1, <2>2, <3>1, ProtocolBy
  <2>3. CASE pc = "read" /\ pc' = "flush" /\ fail' = fail
    <3>1. called = "" /\ In(v, Stage(cfg.api, h)) /\ Coupled(cfg, h, adapter.started)
      BY <1>3, <2>1, <2>3 DEF Placed, ClientInv, Reads
    <3>2. fail = 0
      BY <2>3, UnfailedHere
    <3>3. Placed(v)'
      <4>1. In(v, Stage(cfg.api, h)') /\ Coupled(cfg', h', adapter'.started)
        BY <1>1, <3>1
      <4> QED BY <1>1, <2>3, <3>1, <4>1 DEF Placed
    <3> QED BY <2>2, <2>3, <3>2, <3>3
  <2>4. CASE pc = "read" /\ pc' = "finally"
    <3>1. In(v, Stage(cfg.api, h))
      BY <1>3, <2>1, <2>4 DEF Placed
    <3>2. v.phase = "open"
      BY <1>5, <3>1
    <3>3. Placed(v)'
      <4>1. In(v, Stage(cfg.api, h)')
        BY <1>1, <3>1
      <4> QED BY <1>1, <2>4, <3>2, <4>1 DEF Placed
    <3> QED BY <2>2, <2>4, <3>3
  <2>5. CASE pc = "flush" /\ pc' = "finally" /\ called = "" /\ cfg.api \in Grok
    <3>1. v.phase = "open"
      BY <1>3, <1>5, <2>1, <2>5 DEF Placed
    <3>2. cfg.api \notin Build
      BY <2>5 DEF Grok, Build
    <3>3. Placed(v)'
      BY <1>1, <2>5, <3>1, <3>2 DEF Placed
    <3> QED BY <2>2, <2>5, <3>3
  <2>6. CASE (pc' = "finally" /\ success') \/ pc' = "done"
    <3>1. Placed(v)'
      BY <2>6 DEF Placed
    <3> QED BY <2>2, <2>6, <3>1
  <2> QED BY <1>4, <2>3, <2>4, <2>5, <2>6
<1>7. CASE Tangled
  <2>1. Jumbled /\ view \in Views
    BY <1>7, JumbledHere
  <2>2. fail = 0 /\ pc \notin {"reserve", "read"} /\ Decent(view.phase, queue)
    BY <2>1 DEF Jumbled
  <2>3. fail' = 0
    BY <1>4, <2>2
  <2>4. pc' = "finally" /\ ~success' /\ ~gone' => view'.phase = "open"
    BY <1>1, <1>4, <2>1, <2>2 DEF Jumbled
  <2>5. pc' \in {"finally", "done"}
    BY <1>4, <2>2
  <2>6. Decent(view'.phase, queue')
    BY <1>1, <2>2
  <2>7. Jumbled'
    BY <2>3, <2>4, <2>5, <2>6 DEF Jumbled
  <2> QED BY <1>1, <1>2, <1>7, <2>1, <2>7, JumbledBy
<1> QED BY <1>6, <1>7

LEMMA ProtocolStep ==
  ASSUME AdapterInv, LoopInv, ClientInv, ProtocolInv, [Next]_vars
  PROVE  ProtocolInv'
<1>1. cfg' = cfg
  BY DEF Next, vars, Reserve, NoAccount, Yield, EndOfStream, Finishes, FinishRaises, Succeeds, Leave,
         Finally, Answer, Closed, Read, Fails, ErrorFrame
<1>2. CASE ~cfg.stream
  BY <1>1, <1>2 DEF ProtocolInv
<1>3. CASE cfg.stream
  <2>1. CASE UNCHANGED vars
    <3>1. UNCHANGED <<cfg, view, queue, pc, attempt, h, sieve, adapter, called, success, gone, fail>>
      BY <2>1 DEF vars, loop, reader, client
    <3>2. (Tangled' <=> Tangled) /\ view \in Views /\ (pc' \in {"read", "flush"} => fail' = 0)
      BY <1>3, <3>1, StillTangled DEF ProtocolInv
    <3>3. CASE ~Tangled
      <4>1. PICK w \in Views : Leads(cfg.api, view, queue, w) /\ Placed(w)
        BY <1>3, <3>3 DEF ProtocolInv
      <4>2. Placed(w)'
        BY <3>1, <4>1 DEF Placed
      <4> QED BY <3>1, <3>2, <3>3, <4>1, <4>2, ProtocolBy
    <3>4. CASE Tangled
      <4>1. Jumbled
        BY <1>3, <3>4, JumbledHere
      <4>2. Jumbled'
        BY <3>1, <4>1 DEF Jumbled
      <4> QED BY <3>1, <3>2, <3>4, <4>2, JumbledBy
    <3> QED BY <3>3, <3>4
  <2>2. CASE Reserve
    BY <1>3, <2>2, ProtocolReserve
  <2>3. CASE NoAccount
    BY <1>3, <2>3, ProtocolNoAccount
  <2>4. CASE Yield
    BY <1>3, <2>4, ProtocolYield
  <2>5. CASE Finishes
    BY <1>3, <2>5, ProtocolFinishes
  <2>6. CASE Leave
    BY <1>3, <2>6, ProtocolLeaves
  <2>7. CASE Finally
    BY <1>3, <2>7, ProtocolFinally
  <2>8. CASE Answer
    BY <1>3, <2>8 DEF Answer, LoopInv, Steps
  <2>9. CASE \E f \in Frames(cfg) : Read(f)
    BY <1>3, <2>9, ProtocolRead
  <2>10. CASE \/ EndOfStream \/ FinishRaises \/ Succeeds \/ Closed
              \/ \E status \in Failures : Fails(status)
              \/ \E cause \in {"usage limit", "load shed", "other"} : ErrorFrame(cause)
    BY <1>3, <2>10, ProtocolMoves
  <2> QED BY <2>1, <2>2, <2>3, <2>4, <2>5, <2>6, <2>7, <2>8, <2>9, <2>10 DEF Next
<1> QED BY <1>2, <1>3

(* Each step is one of AnswerProtocol, or none of the client's business.    *)
LEMMA ProtocolYields ==
  ASSUME ClientInv, ProtocolInv, cfg.stream, Yield
  PROVE  Protocol!Event
<1>1. /\ queue # <<>> /\ out' = Append(out, Head(queue)) /\ queue' = Tail(queue)
      /\ view' = Shape(cfg.api, view, Head(queue)) /\ UNCHANGED <<cfg, h, called>>
  BY DEF Yield, reader
<1>2. queue \in Seq(Chunks) /\ out \in Seq(Chunks)
  BY DEF ClientInv, ClientTypes
<1>3. PICK q, v, e, u, api, t : /\ q = queue /\ v = view /\ e = Head(q) /\ api = cfg.api
                                /\ u = Shape(api, v, e) /\ t = Tail(q)
  OBVIOUS
<1>4. view = v /\ view' = u
  BY <1>1, <1>3
<1>5. q \in Seq(Chunks) /\ q # <<>>
  BY <1>1, <1>2, <1>3
<1>6. e \in Chunks
  BY <1>3, <1>5
<1>7. Tangled' = Tangled
  <2>1. Tangled \in BOOLEAN /\ Tangled' \in BOOLEAN
    BY DEF Tangled
  <2> QED BY <1>1, <2>1, StillTangled
<1>8. v \in Views
  BY <1>3 DEF ProtocolInv
<1>9. (IF cfg.stream THEN Len(out) ELSE 0)' = (IF cfg.stream THEN Len(out) ELSE 0) + 1
  <2>1. Len(out') = Len(out) + 1
    BY <1>1, <1>2, <1>3, <1>5, <1>6
  <2> QED BY <1>1, <2>1
<1>10. CASE ~Tangled
  <2>7. PICK w \in Views : Leads(api, v, q, w)
    BY <1>3, <1>10 DEF ProtocolInv
  <2>8. v \in Views /\ Legal(v, e)
    BY <1>3, <1>5, <2>7, LeadsHead
  <2>11. CASE e.t = "begin"
    <3>0. u = Shape(api, v, e)
      BY <1>3
    <3>1. u.phase = "open" /\ u.part = First(api) /\ u.index = 0 /\ u.at = 0
      BY <1>6, <1>8, <2>11, <3>0, <2>8, ShapeBegins, Zenon
    <3>2. v.phase \in {"idle", "open"}
      BY <2>8, <2>11 DEF Legal
    <3>3. u.part \in {"none", "bare"}
      BY <3>1 DEF First
    <3>4. Protocol!Begin
      BY <1>4, <1>10, <3>1, <3>2, <3>3 DEF Protocol!Begin
    <3> QED BY <1>7, <1>9, <3>4 DEF Protocol!Event
  <2>12. CASE e.t = "open"
    <3>1. u.phase = v.phase /\ u.part = e.kind /\ u.index = v.index /\ u.at = e.i
      BY <1>3, <1>6, <2>8, <2>12, ShapeOpens
    <3>2. /\ v.phase = "open" /\ v.part = "none" /\ e.i = v.index
          /\ e.kind \in {"thinking", "reasoning", "text", "call"}
      BY <2>8, <2>12 DEF Legal
    <3>3. Protocol!Open
      BY <1>4, <3>1, <3>2 DEF Protocol!Open
    <3> QED BY <1>7, <1>9, <3>3 DEF Protocol!Event
  <2>13. CASE e.t = "write"
    <3>1. u.phase = v.phase /\ u.part = v.part /\ u.index = v.index /\ u.at = e.i
      BY <1>3, <1>6, <2>8, <2>13, ShapeWrites
    <3>2. v.phase = "open" /\ v.part # "none" /\ e.i = v.index
      BY <2>8, <2>13 DEF Legal
    <3>3. Protocol!Write
      BY <1>4, <3>1, <3>2 DEF Protocol!Write
    <3> QED BY <1>7, <1>9, <3>3 DEF Protocol!Event
  <2>14. CASE e.t = "close"
    <3>1. u.phase = v.phase /\ u.part = "none" /\ u.index = v.index + 1 /\ u.at = e.i
      BY <1>3, <1>6, <2>8, <2>14, ShapeCloses
    <3>2. /\ v.phase = "open" /\ e.i = v.index
          /\ v.part \in {"thinking", "reasoning", "text", "call"}
      BY <2>8, <2>14 DEF Legal
    <3>3. Protocol!Close
      BY <1>4, <3>1, <3>2 DEF Protocol!Close
    <3> QED BY <1>7, <1>9, <3>3 DEF Protocol!Event
  <2>15. CASE e.t = "finish"
    <3>1. u.phase = "finished" /\ u.part = v.part /\ u.index = v.index /\ u.at = v.at
      BY <1>3, <1>6, <2>8, <2>15, ShapeFinishes
    <3>2. v.phase = "open" /\ v.part \in {"none", "bare", "reasoning"}
      BY <2>8, <2>15 DEF Legal
    <3>3. Protocol!Finish
      BY <1>4, <3>1, <3>2 DEF Protocol!Finish
    <3> QED BY <1>7, <1>9, <3>3 DEF Protocol!Event
  <2>16. CASE e.t = "error"
    <3>1. u.phase = "failed" /\ u.part = v.part /\ u.index = v.index /\ u.at = v.at
      BY <1>3, <1>6, <2>8, <2>16, ShapeFails
    <3>2. v.phase \in {"idle", "open"}
      BY <2>8, <2>16 DEF Legal
    <3>3. Protocol!Fail
      BY <1>4, <3>1, <3>2 DEF Protocol!Fail
    <3> QED BY <1>7, <1>9, <3>3 DEF Protocol!Event
  <2>17. CASE e.t = "end"
    <3>1. u.phase = "ended" /\ u.part = v.part /\ u.index = v.index /\ u.at = v.at
      BY <1>3, <1>6, <2>8, <2>17, ShapeStops
    <3>2. v.phase \in {"finished", "failed"}
      BY <2>8, <2>17 DEF Legal
    <3>3. Protocol!End
      BY <1>4, <3>1, <3>2 DEF Protocol!End
    <3> QED BY <1>7, <1>9, <3>3 DEF Protocol!Event
  <2> QED BY <2>8, <2>11, <2>12, <2>13, <2>14, <2>15, <2>16, <2>17 DEF Legal
<1>11. CASE Tangled
  <2>1. Jumbled
    BY <1>11, JumbledHere
  <2>2. Decent(v.phase, q)
    BY <1>3, <2>1 DEF Jumbled
  <2>3. \/ e.t \in {"open", "write", "close"} /\ v.phase = "open" /\ u.phase = "open"
        \/ e.t = "finish" /\ v.phase = "open"
        \/ e.t = "error" /\ v.phase = "open"
        \/ e.t = "end" /\ v.phase \in {"finished", "failed"}
    <3>1. e = Head(q) /\ u = Shape(api, v, e) /\ t = Tail(q)
      BY <1>3
    <3>2. Proceeds(v, q, e, u, t)
      BY <1>5, <1>8, <2>2, <3>1, DecentHead
    <3> QED BY <3>2 DEF Proceeds
  <2>4. CASE v.phase = "open" /\ u.phase = "open"
    <3>1. Protocol!Jumble
      BY <1>4, <1>11, <2>4 DEF Protocol!Jumble
    <3> QED BY <1>7, <1>9, <3>1 DEF Protocol!Event
  <2>5. CASE e.t = "finish" /\ v.phase = "open"
    <3>1. u.phase = "finished" /\ u.part = v.part /\ u.index = v.index /\ u.at = v.at
      BY <1>3, <1>6, <1>8, <2>5, ShapeFinishes
    <3>2. Protocol!Finish
      BY <1>4, <1>11, <2>5, <3>1 DEF Protocol!Finish
    <3> QED BY <1>7, <1>9, <3>2 DEF Protocol!Event
  <2>6. CASE e.t = "error" /\ v.phase = "open"
    <3>1. u.phase = "failed" /\ u.part = v.part /\ u.index = v.index /\ u.at = v.at
      BY <1>3, <1>6, <1>8, <2>6, ShapeFails
    <3>2. Protocol!Fail
      BY <1>4, <2>6, <3>1 DEF Protocol!Fail
    <3> QED BY <1>7, <1>9, <3>2 DEF Protocol!Event
  <2>7. CASE e.t = "end" /\ v.phase \in {"finished", "failed"}
    <3>1. u.phase = "ended" /\ u.part = v.part /\ u.index = v.index /\ u.at = v.at
      BY <1>3, <1>6, <1>8, <2>7, ShapeStops
    <3>2. Protocol!End
      BY <1>4, <2>7, <3>1 DEF Protocol!End
    <3> QED BY <1>7, <1>9, <3>2 DEF Protocol!Event
  <2> QED BY <2>3, <2>4, <2>5, <2>6, <2>7
<1> QED BY <1>10, <1>11

(* The order of the parts is lost before it shows, and for good until the   *)
(* next attempt.                                                            *)
LEMMA ProtocolTangles ==
  ASSUME AdapterInv, LoopInv, ClientInv, ProtocolInv, ProtocolInv', cfg.stream, Next, ~Yield
  PROVE  \/ Tangled' = Tangled
         \/ ~Tangled /\ Tangled' = TRUE /\ view.phase = "open"
<1>1. Tangled \in BOOLEAN /\ Tangled' \in BOOLEAN
  BY DEF Tangled
<1>2. \/ UNCHANGED <<cfg, h, called>> \/ Reserve \/ Finishes \/ \E f \in Frames(cfg) : Read(f)
  BY DEF Next, NoAccount, EndOfStream, FinishRaises, Succeeds, Leave, Finally, Answer, Closed, Fails,
         ErrorFrame, reader
<1>3. CASE UNCHANGED <<cfg, h, called>>
  BY <1>1, <1>3, StillTangled
<1>4. CASE Reserve
  <2>1. pc = "reserve" /\ cfg' = cfg /\ h' = NewLocals /\ called' = ""
    BY <1>4 DEF Reserve
  <2>2. ~Tangled
    BY <2>1, JumbledHere DEF Jumbled
  <2>3. ~Tangled'
    BY <2>1, NothingMixed DEF Tangled
  <2> QED BY <1>1, <2>2, <2>3
<1>5. CASE \E f \in Frames(cfg) : Read(f)
  <2>1. pc = "read" /\ queue = <<>>
    BY <1>5 DEF Read
  <2>2. ~Tangled
    BY <2>1, JumbledHere DEF Jumbled
  <2>3. Placed(view)
    BY <2>1, <2>2, PlacedHere
  <2>4. view.phase = "open"
    BY <2>1, <2>3 DEF Placed, In, Stage
  <2> QED BY <1>1, <2>2, <2>4
<1>6. CASE Finishes
  <2>1. pc = "flush" /\ queue = <<>> /\ UNCHANGED <<cfg, view>>
    BY <1>6 DEF Finishes
  <2>2. Tangled => Tangled'
    BY <1>6, FinishesTangled
  <2>3. ASSUME ~Tangled, Tangled' PROVE view.phase = "open"
    <3>1. Placed(view)
      BY <2>1, <2>3, PlacedHere
    <3>2. cfg.api \in Numbered
      BY <2>1, <2>3 DEF Tangled, Mixed, Numbered
    <3>3. called \in {"", "stream"}
      BY <2>1 DEF ClientInv, Flushes
    <3>4. CASE called = ""
      BY <2>1, <3>1, <3>4 DEF Placed, In, Stage
    <3>5. CASE called = "stream"
      <4>1. PICK p : Shut(cfg.api, p) /\ In(view, p)
        BY <2>1, <3>1, <3>5 DEF Placed
      <4>2. p[1] = "open"
        BY <3>2, <4>1 DEF Shut, Numbered
      <4> QED BY <4>1, <4>2 DEF In
    <3> QED BY <3>3, <3>4, <3>5
  <2> QED BY <1>1, <2>2, <2>3
<1> QED BY <1>2, <1>3, <1>4, <1>5, <1>6

LEMMA ProtocolStutters ==
  ASSUME AdapterInv, LoopInv, ClientInv, ProtocolInv, ProtocolInv', [Next]_vars
  PROVE  [Protocol!Next]_(Protocol!vars)
<1>1. CASE cfg.stream /\ Yield
  BY <1>1, ProtocolYields DEF Protocol!Next
<1>2. CASE ~(cfg.stream /\ Yield)
  <2>1. UNCHANGED <<cfg, view>>
    BY <1>2 DEF Next, vars, client, Reserve, NoAccount, Yield, EndOfStream, Finishes, FinishRaises,
                Succeeds, Leave, Finally, Answer, Closed, Read, Fails, ErrorFrame
  <2>2. (IF cfg.stream THEN Len(out) ELSE 0)' = (IF cfg.stream THEN Len(out) ELSE 0)
    <3>1. CASE cfg.stream
      <4>1. out' = out
        BY <1>2, <3>1 DEF Next, vars, client, Reserve, NoAccount, EndOfStream, Finishes, FinishRaises,
                          Succeeds, Leave, Finally, Answer, Closed, Read, Fails, ErrorFrame
      <4> QED BY <2>1, <4>1
    <3>2. CASE ~cfg.stream
      BY <2>1, <3>2
    <3> QED BY <3>1, <3>2
  <2>3. \/ Tangled' = Tangled
        \/ ~Tangled /\ Tangled' = TRUE /\ view.phase = "open"
    <3>1. CASE ~cfg.stream
      BY <2>1, <3>1 DEF Tangled
    <3>2. CASE cfg.stream /\ UNCHANGED vars
      <4>1. UNCHANGED <<cfg, h, called>>
        BY <3>2 DEF vars, reader
      <4>2. Tangled \in BOOLEAN /\ Tangled' \in BOOLEAN
        BY DEF Tangled
      <4> QED BY <4>1, <4>2, StillTangled
    <3>3. CASE cfg.stream /\ Next /\ ~Yield
      BY <3>3, ProtocolTangles
    <3> QED BY <1>2, <3>1, <3>2, <3>3
  <2>4. CASE Tangled' = Tangled
    BY <2>1, <2>2, <2>4 DEF Protocol!vars
  <2>5. CASE ~Tangled /\ Tangled' = TRUE /\ view.phase = "open"
    <3>1. Protocol!Tangle
      BY <2>1, <2>2, <2>5 DEF Protocol!Tangle
    <3> QED BY <3>1 DEF Protocol!Next
  <2> QED BY <2>3, <2>4, <2>5
<1> QED BY <1>1, <1>2

LEMMA ProtocolStarts == Init => Protocol!Init
<1> SUFFICES ASSUME Init PROVE Protocol!Init
  OBVIOUS
<1>1. view = Unstarted /\ out = <<>> /\ h = NewLocals /\ called = ""
  BY DEF Init
<1>2. view.phase = "idle" /\ view.part = "none" /\ view.index = 0 /\ view.at = 0
  BY <1>1 DEF Unstarted
<1>3. (IF cfg.stream THEN Len(out) ELSE 0) = 0
  BY <1>1
<1>4. ~Tangled
  BY <1>1, NothingMixed DEF Tangled
<1> QED BY <1>2, <1>3, <1>4 DEF Protocol!Init

(* The events every handler streams are those of AnswerProtocol, whatever   *)
(* the upstream sends, wherever it fails and whenever the client leaves: one*)
(* beginning for each attempt, one finish or error and one end; and, until  *)
(* calls or thinking that come while a text is open make it Tangled, parts  *)
(* one after the other, each under its own number.                          *)
THEOREM StreamsImplementProtocol == Spec => ProtocolSpec
<1>1. Init => Protocol!Init
  BY ProtocolStarts
<1>2. AdapterInv /\ LoopInv /\ ClientInv /\ ProtocolInv /\ ProtocolInv' /\ [Next]_vars
        => [Protocol!Next]_(Protocol!vars)
  BY ProtocolStutters
<1>3. Init => ProtocolInv
  BY ProtocolInit
<1>4. AdapterInv /\ LoopInv /\ ClientInv /\ ProtocolInv /\ [Next]_vars => ProtocolInv'
  BY ProtocolStep
<1> QED BY <1>1, <1>2, <1>3, <1>4, AdapterHolds, LoopHolds, ClientHolds, PTL
        DEF Spec, ProtocolSpec, Protocol!Spec
=============================================================================
