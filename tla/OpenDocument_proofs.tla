------------------------ MODULE OpenDocument_proofs ------------------------
(***************************************************************************)
(* Proofs about the open document, for every budget, every library and     *)
(* every file that holds a document.  First the history alone: its ranges, *)
(* head, cursor and budget hold together through every operation, and what *)
(* was packed is what an undo decodes.  Then what a step writes to a       *)
(* document, what a batch of intents leads to, what the canvas may raise   *)
(* and what a load repairs; and last the invariant of OpenDocument that    *)
(* rests on all four.                                                      *)
(***************************************************************************)
EXTENDS OpenDocument, FiniteSetTheorems, TLAPS

Ranges == [start : Nat, end : Nat]
\* A history of steps of S; the gesture held is one id with its steps.
Histories(S) ==
    [bytes : Seq(S), head : Nat, entries : Seq(Ranges), cursor : Nat,
     open : SUBSET [id : Nat, steps : Seq(S)]]

-----------------------------------------------------------------------------
\* A step's changes of ties, and what of it is more than a bare name.
Placed(set) ==
    {t \in DOMAIN set.ties : \/ set.ties[t].placed.from # {}
                            \/ set.ties[t].placed.to # {}}
IsTieChange(change) ==
    change = [placed |-> [from |-> change.placed.from, to |-> change.placed.to],
              selected |-> change.selected]
IsRouteChange(change) ==
    /\ change = [from |-> change.from, to |-> change.to]
    /\ IsRoute(change.from) /\ IsRoute(change.to)
IsTieSet(set) ==
    /\ set = [ties |-> set.ties, routes |-> set.routes]
    /\ \A t \in DOMAIN set.ties : IsTieChange(set.ties[t])
    /\ \A w \in DOMAIN set.routes : IsRouteChange(set.routes[w])
    /\ IsFiniteSet(Placed(set))
IsEntry(entry) ==
    entry.id \in Nat /\ IsDetached(entry.detached) /\ IsPlacement(entry.place)
Kinds == {"node", "positions", "input", "subscription", "ties", "selection",
          "depth", "value"}

\* A step as commit makes one: what it carries is finite.
IsStep(step) ==
    /\ step.kind \in Kinds
    /\ step.kind = "node" => IsEntry(step.entry) /\ IsTieSet(step.ties)
    /\ step.kind = "positions" =>
          step = [kind |-> "positions", moves |-> step.moves]
    /\ step.kind \in {"input", "subscription"} => IsTieSet(step.ties)
    /\ step.kind = "ties" =>
          step = [kind |-> "ties", set |-> step.set] /\ IsTieSet(step.set)
    /\ step.kind = "selection" => IsFiniteSet(step.toggled)
AreSteps(S) == \A x \in S : IsStep(x)
IsSteps(s) == \E S : AreSteps(S) /\ s \in Seq(S)
KeptBody(env, steps, x)   == Retain(steps, x)
FramesBody(env, steps, x) == FoldStep(steps, x)
Kept   == INSTANCE Recursion WITH Body <- KeptBody
Frames == INSTANCE Recursion WITH Body <- FramesBody

\* A step appended to steps gives steps.
LEMMA AppendIsSteps ==
    ASSUME NEW s, NEW x, IsSteps(s), IsStep(x)
    PROVE  IsSteps(Append(s, x))
<1>1. PICK S : AreSteps(S) /\ s \in Seq(S)
  BY DEF IsSteps
<1>2. s \in Seq(S \cup {x})
  BY <1>1
<1>3. Append(s, x) \in Seq(S \cup {x})
  BY <1>2
<1>4. AreSteps(S \cup {x})
  BY <1>1 DEF AreSteps
<1>. QED  BY <1>3, <1>4 DEF IsSteps

\* Two sequences of steps make one.
LEMMA ConcatIsSteps ==
    ASSUME NEW s, NEW t, IsSteps(s), IsSteps(t)
    PROVE  IsSteps(s \o t)
<1>1. PICK S : AreSteps(S) /\ s \in Seq(S)
  BY DEF IsSteps
<1>2. PICK T : AreSteps(T) /\ t \in Seq(T)
  BY DEF IsSteps
<1>3. s \in Seq(S \cup T) /\ t \in Seq(S \cup T)
  BY <1>1, <1>2
<1>4. s \o t \in Seq(S \cup T)
  BY <1>3
<1>5. AreSteps(S \cup T)
  BY <1>1, <1>2 DEF AreSteps
<1>. QED  BY <1>4, <1>5 DEF IsSteps

\* The empty sequence is one, and each step of a sequence is a step.
LEMMA StepsOfSteps ==
    /\ IsSteps(<<>>)
    /\ \A s : IsSteps(s) =>
          /\ Len(s) \in Nat /\ DOMAIN s = 1..Len(s)
          /\ \A k \in 1..Len(s) : IsStep(s[k])
<1>1. AreSteps({}) /\ <<>> \in Seq({})
  BY DEF AreSteps
<1>2. ASSUME NEW s, IsSteps(s)
      PROVE  /\ Len(s) \in Nat /\ DOMAIN s = 1..Len(s)
             /\ \A k \in 1..Len(s) : IsStep(s[k])
  <2>1. PICK S : AreSteps(S) /\ s \in Seq(S)
    BY <1>2 DEF IsSteps
  <2>. QED  BY <2>1 DEF AreSteps
<1>. QED  BY <1>1, <1>2 DEF IsSteps

\* What a set with its ties absorbed holds is what either held.
LEMMA AbsorbTiesIsTieSet ==
    ASSUME NEW set, NEW next, IsTieSet(set), IsTieSet(next)
    PROVE  IsTieSet(AbsorbTies(set, next))
<1>. DEFINE both == AbsorbTies(set, next)
            kept == [t \in DOMAIN set.ties |->
                       IF t \in DOMAIN next.ties
                       THEN [set.ties[t] EXCEPT
                               !.placed.to = next.ties[t].placed.to]
                       ELSE set.ties[t]]
            ways == [w \in DOMAIN set.routes |->
                       IF w \in DOMAIN next.routes
                       THEN [set.routes[w] EXCEPT !.to = next.routes[w].to]
                       ELSE set.routes[w]]
<1>1. /\ both.ties = Merge(next.ties, kept) /\ both.routes = Merge(next.routes, ways)
      /\ both = [ties |-> both.ties, routes |-> both.routes]
  BY DEF AbsorbTies
<1>2. DOMAIN both.ties = DOMAIN set.ties \cup DOMAIN next.ties
  BY <1>1 DEF Merge
<1>3. ASSUME NEW t \in DOMAIN set.ties
      PROVE  /\ both.ties[t] = kept[t] /\ IsTieChange(kept[t])
             /\ kept[t].placed.from = set.ties[t].placed.from
             /\ \/ kept[t].placed.to = set.ties[t].placed.to
                \/ /\ t \in DOMAIN next.ties
                   /\ kept[t].placed.to = next.ties[t].placed.to
  <2>1. both.ties[t] = kept[t]
    BY <1>1 DEF Merge
  <2>2. PICK c : c = set.ties[t]
    OBVIOUS
  <2>3. c = [placed |-> [from |-> c.placed.from, to |-> c.placed.to],
             selected |-> c.selected]
    BY <2>2 DEF IsTieSet, IsTieChange
  <2>4. CASE t \in DOMAIN next.ties
    <3>1. PICK v : v = next.ties[t].placed.to
      OBVIOUS
    <3>2. kept[t] = [c EXCEPT !.placed.to = v]
      BY <2>2, <2>4, <3>1
    <3>3. kept[t] = [placed |-> [from |-> c.placed.from, to |-> v],
                     selected |-> c.selected]
      BY <2>3, <3>2
    <3>. HIDE DEF kept
    <3>4. PICK d : d = kept[t]
      OBVIOUS
    <3>5. /\ d.placed.from = c.placed.from /\ d.placed.to = v
          /\ d.selected = c.selected /\ IsTieChange(d)
      BY <3>3, <3>4 DEF IsTieChange
    <3>. QED  BY <2>1, <2>2, <2>4, <3>1, <3>4, <3>5
  <2>5. CASE t \notin DOMAIN next.ties
    <3>1. kept[t] = c
      BY <2>2, <2>5
    <3>. QED  BY <2>1, <2>2, <2>3, <3>1 DEF IsTieChange
  <2>. QED  BY <2>4, <2>5
<1>4. ASSUME NEW t \in DOMAIN next.ties, t \notin DOMAIN set.ties
      PROVE  both.ties[t] = next.ties[t]
  BY <1>1, <1>4 DEF Merge
<1>8. \A w \in DOMAIN both.routes : IsRouteChange(both.routes[w])
  <2>1. SUFFICES ASSUME NEW w \in DOMAIN both.routes PROVE IsRouteChange(both.routes[w])
    OBVIOUS
  <2>2. /\ w \in DOMAIN next.routes \cup DOMAIN set.routes
        /\ both.routes[w] = IF w \in DOMAIN set.routes THEN ways[w] ELSE next.routes[w]
    BY <1>1 DEF Merge
  <2>3. CASE w \notin DOMAIN set.routes
    BY <2>2, <2>3 DEF IsTieSet
  <2>4. CASE w \in DOMAIN set.routes
    <3>1. PICK c : c = set.routes[w]
      OBVIOUS
    <3>2. IsRouteChange(c)
      BY <2>4, <3>1 DEF IsTieSet
    <3>3. CASE w \notin DOMAIN next.routes
      BY <2>2, <2>4, <3>1, <3>2, <3>3
    <3>4. CASE w \in DOMAIN next.routes
      <4>1. PICK to : to = next.routes[w].to
        OBVIOUS
      <4>2. IsRoute(to)
        BY <3>4, <4>1 DEF IsTieSet, IsRouteChange
      <4>3. PICK e : e = [c EXCEPT !.to = to]
        OBVIOUS
      <4>4. e = [from |-> c.from, to |-> to]
        BY <3>2, <4>3 DEF IsRouteChange
      <4>5. IsRouteChange(e)
        <5>1. e.from = c.from /\ e.to = to
          BY <4>4
        <5>. QED  BY Zenon, <3>2, <4>2, <4>4, <5>1 DEF IsRouteChange
      <4>. QED  BY <2>2, <2>4, <3>1, <3>4, <4>1, <4>3, <4>5
    <3>. QED  BY <3>3, <3>4
  <2>. QED  BY <2>3, <2>4
<1>. HIDE DEF both, kept
<1>5. \A t \in DOMAIN both.ties : IsTieChange(both.ties[t])
  <2>1. SUFFICES ASSUME NEW t \in DOMAIN both.ties PROVE IsTieChange(both.ties[t])
    OBVIOUS
  <2>2. CASE t \in DOMAIN set.ties
    BY Zenon, <1>3, <2>2
  <2>3. CASE t \notin DOMAIN set.ties
    BY Zenon, <1>2, <1>4, <2>3 DEF IsTieSet
  <2>. QED  BY <2>2, <2>3
<1>6. Placed(both) \subseteq Placed(set) \cup Placed(next)
  <2>1. SUFFICES ASSUME NEW t \in Placed(both)
                 PROVE  t \in Placed(set) \cup Placed(next)
    OBVIOUS
  <2>2. /\ t \in DOMAIN both.ties
        /\ both.ties[t].placed.from # {} \/ both.ties[t].placed.to # {}
    BY DEF Placed
  <2>3. CASE t \in DOMAIN set.ties
    BY <1>3, <2>2, <2>3 DEF Placed
  <2>4. CASE t \notin DOMAIN set.ties
    BY <1>2, <1>4, <2>2, <2>4 DEF Placed
  <2>. QED  BY <2>3, <2>4
<1>7. IsFiniteSet(Placed(both))
  <2>1. IsFiniteSet(Placed(set) \cup Placed(next))
    BY FS_Union DEF IsTieSet
  <2>. QED  BY <1>6, <2>1, FS_Subset
<1>. QED  BY <1>1, <1>5, <1>7, <1>8 DEF IsTieSet, both

\* A step that absorbed the next frame of its gesture is a step.
LEMMA AbsorbIsStep ==
    ASSUME NEW step, NEW next, IsStep(step), IsStep(next), Absorbs(step, next)
    PROVE  IsStep(Absorb(step, next))
<1>1. step.kind = next.kind /\ step.kind \in {"positions", "ties"}
  BY DEF Absorbs
<1>2. CASE step.kind = "positions"
  <2>1. step = [kind |-> "positions", moves |-> step.moves]
    BY <1>2 DEF IsStep
  <2>2. PICK m : m = AbsorbMoves(step.moves, next.moves)
    OBVIOUS
  <2>3. Absorb(step, next) = [kind |-> "positions", moves |-> m]
    BY <1>2, <2>1, <2>2 DEF Absorb
  <2>. QED  BY <2>3 DEF IsStep, Kinds
<1>3. CASE step.kind = "ties"
  <2>1. /\ step = [kind |-> "ties", set |-> step.set]
        /\ IsTieSet(step.set) /\ IsTieSet(next.set)
    BY <1>1, <1>3 DEF IsStep
  <2>2. PICK m : m = AbsorbTies(step.set, next.set)
    OBVIOUS
  <2>3. Absorb(step, next) = [kind |-> "ties", set |-> m]
    BY <1>3, <2>1, <2>2 DEF Absorb
  <2>4. IsTieSet(m)
    BY <2>1, <2>2, AbsorbTiesIsTieSet
  <2>. QED  BY <2>3, <2>4 DEF IsStep, Kinds
<1>. QED  BY <1>1, <1>2, <1>3

\* What seal retains of a gesture's steps is a sequence, empty if they are.
LEMMA WorthwhileIsSteps ==
    ASSUME NEW s, IsSteps(s)
    PROVE  IsSteps(Worthwhile(s)) /\ (s = <<>> => Worthwhile(s) = <<>>)
<1>1. Worthwhile(s) = Kept!FoldOf(0, <<>>, s)
  BY Zenon DEF Worthwhile, Kept!FoldOf, Kept!IsFolding, Kept!Largest, KeptBody, FoldLeft,
               MapThenFoldSet, Max
<1>2. PICK S : AreSteps(S) /\ s \in Seq(S)
  BY DEF IsSteps
<1>3. Len(s) \in Nat /\ DOMAIN s = 1..Len(s)
  BY <1>2
<1>4. <<>> \in Seq(S)
  OBVIOUS
<1>5. \A x \in Seq(S) : \A k \in 1..Len(s) : KeptBody(0, x, s[k]) \in Seq(S)
  BY <1>2 DEF Retain, KeptBody
<1>6. Kept!FoldOf(0, <<>>, s) \in Seq(S)
  BY <1>3, <1>4, <1>5, Kept!FoldKeeps
<1>7. ASSUME s = <<>> PROVE Kept!FoldOf(0, <<>>, s) = <<>>
  <2>1. DOMAIN s = {}
    BY <1>7
  <2>. QED  BY <2>1, Kept!FoldOfNothing
<1>. QED  BY <1>1, <1>2, <1>6, <1>7 DEF IsSteps

\* Frames folded into a gesture leave a sequence of steps.
LEMMA FoldedIsSteps ==
    ASSUME NEW s, NEW more, IsSteps(s), IsSteps(more)
    PROVE  IsSteps(FoldFrames(s, more))
<1>1. FoldFrames(s, more) = Frames!FoldOf(0, s, more)
  BY Zenon DEF FoldFrames, Frames!FoldOf, Frames!IsFolding, Frames!Largest, FramesBody,
               FoldLeft, MapThenFoldSet, Max
<1>2. /\ Len(more) \in Nat /\ DOMAIN more = 1..Len(more)
      /\ \A k \in 1..Len(more) : IsStep(more[k])
  BY StepsOfSteps
<1>3. PICK f : Frames!Unfolds(f, 0, s, more, Len(more))
  BY <1>2, Frames!FoldUnfolds
<1>4. /\ Frames!FoldOf(0, s, more) = f[1..Len(more)]
      /\ f[{}] = s
      /\ \A k \in 1..Len(more) : f[1..k] = FoldStep(f[1..(k - 1)], more[k])
  BY <1>3 DEF Frames!Unfolds, FramesBody
<1>5. ASSUME NEW x, IsSteps(x), NEW k \in 1..Len(more)
      PROVE  IsSteps(FoldStep(x, more[k]))
  <2>1. PICK T : AreSteps(T) /\ x \in Seq(T)
    BY <1>5 DEF IsSteps
  <2>2. ASSUME x # <<>> PROVE IsSteps(Front(x)) /\ IsStep(Last(x))
    <3>1. SubSeq(x, 1, Len(x) - 1) \in Seq(T) /\ x[Len(x)] \in T
      BY <2>1, <2>2
    <3>. QED  BY <2>1, <3>1 DEF IsSteps, AreSteps, Front, Last
  <2>3. IsStep(more[k])
    BY <1>2
  <2>4. CASE x # <<>> /\ Absorbs(Last(x), more[k])
    <3>1. IsStep(Absorb(Last(x), more[k]))
      BY <2>2, <2>3, <2>4, AbsorbIsStep
    <3>2. FoldStep(x, more[k]) = Append(Front(x), Absorb(Last(x), more[k]))
      BY <2>4 DEF FoldStep
    <3>. QED  BY <2>2, <2>4, <3>1, <3>2, AppendIsSteps
  <2>5. CASE ~ (x # <<>> /\ Absorbs(Last(x), more[k]))
    <3>1. FoldStep(x, more[k]) = Append(x, more[k])
      BY <2>5 DEF FoldStep
    <3>. QED  BY <1>5, <2>3, <3>1, AppendIsSteps
  <2>. QED  BY <2>4, <2>5
<1>. DEFINE I == {k \in 0..Len(more) : IsSteps(f[1..k])}
<1>6. 0 \in I
  <2>1. 1..0 = {} /\ 0 \in 0..Len(more)
    BY <1>2
  <2>. QED  BY <1>4, <2>1
<1>7. ASSUME NEW k \in 1..Len(more), k - 1 \in I PROVE k \in I
  <2>1. k \in 0..Len(more) /\ IsSteps(f[1..(k - 1)])
    BY <1>2, <1>7
  <2>2. IsSteps(FoldStep(f[1..(k - 1)], more[k]))
    BY <1>5, <2>1
  <2>. QED  BY <1>4, <2>1, <2>2
<1>8. Len(more) \in I
  <2>. HIDE DEF I
  <2>. QED  BY <1>2, <1>6, <1>7, Frames!StepsReach
<1>. QED  BY <1>1, <1>4, <1>8

-----------------------------------------------------------------------------
\* What the range of a buffer holds.
LEMMA RangeHolds ==
    ASSUME NEW S, NEW b \in Seq(S), NEW i \in Nat, NEW j \in Nat,
           i <= j, j <= Len(b)
    PROVE  /\ SubSeq(b, i + 1, j) \in Seq(S)
           /\ Len(SubSeq(b, i + 1, j)) = j - i
           /\ \A k \in 1..(j - i) : SubSeq(b, i + 1, j)[k] = b[i + k]
BY SMTT(30)

\* A range cut out of a buffer whose front was drained is the range it was.
LEMMA SubSeqOfRest ==
    ASSUME NEW S, NEW b \in Seq(S), NEW d \in Nat, NEW i \in Nat, NEW j \in Nat,
           d <= i, i <= j, j <= Len(b)
    PROVE  /\ SubSeq(b, d + 1, Len(b)) \in Seq(S)
           /\ Len(SubSeq(b, d + 1, Len(b))) = Len(b) - d
           /\ SubSeq(SubSeq(b, d + 1, Len(b)), i - d + 1, j - d)
                 = SubSeq(b, i + 1, j)
<1>. DEFINE rest == SubSeq(b, d + 1, Len(b))
            taken == SubSeq(rest, i - d + 1, j - d)
            right == SubSeq(b, i + 1, j)
<1>1. /\ rest \in Seq(S) /\ Len(rest) = Len(b) - d
      /\ \A k \in 1..Len(rest) : rest[k] = b[d + k]
  BY SMTT(30)
<1>2. /\ taken \in Seq(S) /\ Len(taken) = j - i
      /\ \A k \in 1..Len(taken) : taken[k] = rest[i - d + k]
  <2>1. i - d \in Nat /\ j - d \in Nat /\ i - d <= j - d /\ j - d <= Len(rest)
        /\ (j - d) - (i - d) = j - i
    BY <1>1
  <2>2. rest \in Seq(S)
    BY <1>1
  <2>. HIDE DEF rest
  <2>3. /\ taken \in Seq(S) /\ Len(taken) = (j - d) - (i - d)
        /\ \A k \in 1..((j - d) - (i - d)) : taken[k] = rest[i - d + k]
    <3>. DEFINE p == i - d
                q == j - d
    <3>1. p \in Nat /\ q \in Nat /\ p <= q /\ q <= Len(rest)
      BY <2>1
    <3>. HIDE DEF p, q
    <3>2. /\ SubSeq(rest, p + 1, q) \in Seq(S)
          /\ Len(SubSeq(rest, p + 1, q)) = q - p
          /\ \A k \in 1..(q - p) : SubSeq(rest, p + 1, q)[k] = rest[p + k]
      BY <2>2, <3>1, RangeHolds
    <3>. QED  BY <3>2 DEF p, q
  <2>. QED  BY <2>1, <2>3
<1>3. /\ right \in Seq(S) /\ Len(right) = j - i
      /\ \A k \in 1..Len(right) : right[k] = b[i + k]
  BY SMTT(30)
<1>4. ASSUME NEW k \in 1..Len(taken) PROVE taken[k] = right[k]
  <2>. HIDE DEF rest, taken, right
  <2>1. k \in Int /\ k >= 1 /\ k <= j - i
    BY <1>2
  <2>2. i - d + k \in 1..Len(rest)
    BY <1>1, <2>1
  <2>3. rest[i - d + k] = b[d + (i - d + k)]
    BY <1>1, <2>2
  <2>4. d + (i - d + k) = i + k
    BY <2>1
  <2>. QED  BY <1>2, <1>3, <2>3, <2>4
<1>5. taken = right
  <2>. HIDE DEF taken, right
  <2>. QED  BY <1>2, <1>3, <1>4
<1>. QED  BY <1>1, <1>5

\* Entries that tile the buffer follow one another between head and end.
LEMMA EntriesOrdered ==
    ASSUME NEW S, NEW h \in Histories(S), EntriesTile(h)
    PROVE  /\ \A i \in 1..Len(h.entries) :
                 h.head <= h.entries[i].start /\ h.entries[i].end <= Len(h.bytes)
           /\ h.head <= Len(h.bytes)
<1>. DEFINE n == Len(h.entries)
            e == h.entries
<1>1. /\ n \in Nat /\ h.head \in Nat
      /\ \A i \in 1..n : e[i].start \in Nat /\ e[i].end \in Nat
      /\ \A i \in 1..n : e[i].start < e[i].end
      /\ n > 0 => e[1].start = h.head
      /\ \A i \in 2..n : e[i].start = e[i - 1].end
      /\ Len(h.bytes) = IF n = 0 THEN h.head ELSE e[n].end
  <2>1. e \in Seq(Ranges) /\ h.head \in Nat /\ h.bytes \in Seq(S)
    BY DEF Histories
  <2>2. n \in Nat /\ DOMAIN e = 1..n
    BY <2>1
  <2>3. \A i \in 1..n : e[i] \in Ranges /\ e[i].start < e[i].end
                          /\ e[i].start = HeadAfter(h, i - 1)
    BY <2>1, <2>2 DEF EntriesTile
  <2>4. \A i \in 1..n : HeadAfter(h, i - 1)
                            = IF i = 1 THEN h.head ELSE e[i - 1].end
    BY <2>2 DEF HeadAfter
  <2>5. Len(h.bytes) = IF n = 0 THEN h.head ELSE e[n].end
    BY DEF EntriesTile, HeadAfter
  <2>. HIDE DEF e, n
  <2>6. \A i \in 1..n : e[i].start \in Nat /\ e[i].end \in Nat
    BY <2>3 DEF Ranges
  <2>7. \A i \in 1..n : e[i].start = IF i = 1 THEN h.head ELSE e[i - 1].end
    BY <2>3, <2>4
  <2>8. n > 0 => e[1].start = h.head
    BY <2>2, <2>7
  <2>9. \A i \in 2..n : e[i].start = e[i - 1].end
    BY <2>2, <2>7
  <2>. QED  BY <2>1, <2>2, <2>3, <2>5, <2>6, <2>8, <2>9
<1>. HIDE DEF n, e
<1>2. ASSUME NEW i \in 1..n PROVE \A j \in (i + 1)..n : e[i].end <= e[j].start
  <2>. DEFINE Bad == {j \in (i + 1)..n : ~ (e[i].end <= e[j].start)}
  <2>1. SUFFICES ASSUME Bad # {} PROVE FALSE
    OBVIOUS
  <2>2. PICK j \in Bad : \A m \in Bad : j <= m
    <3>1. Bad \subseteq Nat
      BY <1>1
    <3>. HIDE DEF Bad
    <3>. QED  BY <2>1, <3>1, Kept!LeastNatural
  <2>3. CASE j = i + 1
    BY <1>1, <2>2, <2>3
  <2>4. CASE j # i + 1
    <3>1. j - 1 \in (i + 1)..n /\ j - 1 \notin Bad
      BY <1>1, <2>2, <2>4
    <3>2. e[i].end <= e[j - 1].start /\ e[j - 1].start < e[j - 1].end
      BY <1>1, <3>1
    <3>3. e[j].start = e[j - 1].end
      BY <1>1, <2>2, <2>4
    <3>. QED  BY <1>1, <2>2, <3>1, <3>2, <3>3
  <2>. QED  BY <2>3, <2>4
<1>3. \A i \in 1..n : h.head <= e[i].start /\ e[i].end <= Len(h.bytes)
  <2>1. SUFFICES ASSUME NEW i \in 1..n
                 PROVE  h.head <= e[i].start /\ e[i].end <= Len(h.bytes)
    OBVIOUS
  <2>2. 1 \in 1..n /\ n \in 1..n
    BY <1>1
  <2>3. i = 1 \/ e[1].end <= e[i].start
    BY <1>1, <1>2, <2>2
  <2>4. i = n \/ e[i].end <= e[n].start
    BY <1>1, <1>2, <2>2
  <2>. QED  BY <1>1, <2>2, <2>3, <2>4
<1>4. h.head <= Len(h.bytes)
  <2>1. CASE n = 0
    BY <1>1, <2>1
  <2>2. CASE n # 0
    <3>1. n \in 1..n
      BY <1>1, <2>2
    <3>. QED  BY <1>1, <1>3, <2>2, <3>1
  <2>. QED  BY <2>1, <2>2
<1>. QED  BY <1>3, <1>4 DEF n, e

-----------------------------------------------------------------------------
Holders(S) == SUBSET [id : Nat, steps : Seq(S)]

\* A history is its five parts...
LEMMA HistoryParts ==
    ASSUME NEW S, NEW h \in Histories(S)
    PROVE  /\ h.bytes \in Seq(S) /\ h.head \in Nat
           /\ h.entries \in Seq(Ranges) /\ h.cursor \in Nat
           /\ h.open \in Holders(S)
           /\ h = [bytes |-> h.bytes, head |-> h.head, entries |-> h.entries,
                   cursor |-> h.cursor, open |-> h.open]
  BY DEF Histories, Holders

\* ...and five such parts make a history.
LEMMA HistoryOfParts ==
    ASSUME NEW S, NEW b \in Seq(S), NEW d \in Nat, NEW e \in Seq(Ranges),
           NEW c \in Nat, NEW o \in Holders(S)
    PROVE  [bytes |-> b, head |-> d, entries |-> e, cursor |-> c, open |-> o]
             \in Histories(S)
  BY DEF Histories, Holders

\* What the trim drops fits the budget with what is left, or leaves one entry:
\* trim_to_limit never drops the newest.
LEMMA DroppedFits ==
    ASSUME NEW S, NEW h \in Histories(S), h.entries # <<>>
    PROVE  /\ Dropped(h) \in 0..(Len(h.entries) - 1)
           /\ Fits(h, Dropped(h)) \/ Dropped(h) = Len(h.entries) - 1
<1>. DEFINE n == Len(h.entries)
            Stops(k) == Fits(h, k) \/ k = n - 1
            Able == {k \in 0..(n - 1) : Stops(k)}
<1>1. n \in Nat /\ n >= 1
  <2>1. h.entries \in Seq(Ranges)
    BY DEF Histories
  <2>. QED  BY <2>1
<1>2. n - 1 \in Able
  <2>. HIDE DEF n
  <2>. QED  BY <1>1
<1>3. PICK k \in Able : \A m \in Able : k <= m
  <2>1. Able \subseteq Nat
    OBVIOUS
  <2>. HIDE DEF Able
  <2>. QED  BY <1>2, <2>1, Kept!LeastNatural
<1>4. \A j \in 0..(k - 1) : ~ Fits(h, j)
  <2>. HIDE DEF n
  <2>. QED  BY <1>1, <1>3
<1>. QED  BY <1>3, <1>4 DEF Dropped

\* The oldest entries go, and the ones that stay keep their ranges.
LEMMA EvictKeeps ==
    ASSUME NEW S, NEW h \in Histories(S), EntriesTile(h),
           NEW k \in 0..(Len(h.entries) - 1), h.cursor = Len(h.entries)
    PROVE  LET g == EvictOldest(h, k)
           IN  /\ g \in Histories(S) /\ EntriesTile(g)
               /\ g.bytes = h.bytes /\ g.open = h.open
               /\ g.head = HeadAfter(h, k)
               /\ Len(g.entries) = Len(h.entries) - k
               /\ g.cursor = Len(g.entries)
               /\ \A i \in 1..Len(g.entries) : g.entries[i] = h.entries[i + k]
<1>. DEFINE n == Len(h.entries)
            e == SubSeq(h.entries, k + 1, n)
            g == EvictOldest(h, k)
<1>1. /\ h.entries \in Seq(Ranges) /\ h.bytes \in Seq(S) /\ h.head \in Nat
      /\ n \in Nat /\ k \in Nat /\ k + 1 <= n
  BY DEF Histories
<1>2. /\ e \in Seq(Ranges) /\ Len(e) = n - k
      /\ \A i \in 1..(n - k) : e[i] = h.entries[i + k]
  BY <1>1
<1>3. HeadAfter(h, k) \in Nat
  <2>1. CASE k = 0
    BY <1>1, <2>1 DEF HeadAfter
  <2>2. CASE k # 0
    <3>1. k \in DOMAIN h.entries
      BY <1>1, <2>2
    <3>. QED  BY <2>2, <3>1 DEF HeadAfter, EntriesTile
  <2>. QED  BY <2>1, <2>2
<1>4. /\ g = [bytes |-> h.bytes, head |-> HeadAfter(h, k), entries |-> e,
              cursor |-> n - k, open |-> h.open]
      /\ g \in Histories(S)
  <2>1. n - k \in Nat
    BY <1>1
  <2>2. g = [bytes |-> h.bytes, head |-> HeadAfter(h, k), entries |-> e,
             cursor |-> n - k, open |-> h.open]
    <3>. DEFINE head == HeadAfter(h, k)
    <3>1. h = [bytes |-> h.bytes, head |-> h.head, entries |-> h.entries,
               cursor |-> h.cursor, open |-> h.open]
      BY HistoryParts
    <3>2. g = [h EXCEPT !.head = head, !.entries = e, !.cursor = n - k]
      BY DEF EvictOldest
    <3>. HIDE DEF head, e, g, n
    <3>. QED  BY <3>1, <3>2 DEF head
  <2>3. h.open \in Holders(S)
    BY HistoryParts
  <2>. HIDE DEF e, g, n
  <2>. QED  BY <1>1, <1>2, <1>3, <2>1, <2>2, <2>3, HistoryOfParts
<1>5. /\ g.entries = e /\ g.bytes = h.bytes /\ g.head = HeadAfter(h, k)
      /\ g.open = h.open /\ g.cursor = n - k
  BY <1>4, SMTT(30)
<1>. HIDE DEF g, e
<1>6. ASSUME NEW i \in 1..(n - k)
      PROVE  HeadAfter(g, i - 1) = HeadAfter(h, i + k - 1)
  <2>1. CASE i = 1
    BY <1>1, <1>5, <2>1 DEF HeadAfter
  <2>2. CASE i # 1
    <3>1. i - 1 \in 1..(n - k) /\ i - 1 # 0 /\ i + k - 1 # 0
          /\ (i - 1) + k = i + k - 1
      BY <1>1, <2>2
    <3>. QED  BY <1>2, <1>5, <3>1 DEF HeadAfter
  <2>. QED  BY <2>1, <2>2
<1>7. ASSUME NEW i \in 1..(n - k)
      PROVE  /\ e[i].start \in Nat /\ e[i].end \in Nat
             /\ e[i].start < e[i].end
             /\ e[i].start = HeadAfter(g, i - 1)
  <2>1. i + k \in DOMAIN h.entries
    BY <1>1
  <2>. QED  BY <1>2, <1>6, <2>1, SMTT(30) DEF EntriesTile
<1>8. Len(h.bytes) = HeadAfter(g, n - k)
  BY <1>1, <1>2, <1>5 DEF HeadAfter, EntriesTile
<1>9. EntriesTile(g)
  <2>1. DOMAIN e = 1..(n - k) /\ Len(e) = n - k
    BY <1>2
  <2>. QED  BY <1>3, <1>5, <1>7, <1>8, <2>1 DEF EntriesTile
<1>. QED  BY <1>2, <1>4, <1>5, <1>9 DEF g

\* Draining the dead prefix moves every range and decodes to the same steps.
LEMMA ReclaimKeeps ==
    ASSUME NEW S, NEW h \in Histories(S), EntriesTile(h)
    PROVE  LET g == Reclaim(h)
           IN  /\ g \in Histories(S) /\ EntriesTile(g)
               /\ g.cursor = h.cursor /\ g.open = h.open
               /\ Len(g.entries) = Len(h.entries)
               /\ g.head <= MaxBytes
               /\ LiveBytes(g) = LiveBytes(h)
               /\ \A i \in 1..Len(h.entries) : Decode(g, i) = Decode(h, i)
<1>. DEFINE n == Len(h.entries)
            d == h.head
            rest == SubSeq(h.bytes, d + 1, Len(h.bytes))
            e == [i \in DOMAIN h.entries |->
                    [start |-> h.entries[i].start - d,
                     end   |-> h.entries[i].end - d]]
            g == [bytes |-> rest, head |-> 0, entries |-> e,
                  cursor |-> h.cursor, open |-> h.open]
<1>1. /\ h.bytes \in Seq(S) /\ d \in Nat /\ h.entries \in Seq(Ranges)
      /\ n \in Nat /\ DOMAIN h.entries = 1..n /\ h.cursor \in Nat
      /\ h.open \in Holders(S) /\ Len(h.bytes) \in Nat
  BY HistoryParts
<1>2. CASE h.head <= MaxBytes
  BY <1>2 DEF Reclaim
<1>3. CASE ~ (h.head <= MaxBytes)
  <2>1. Reclaim(h) = g
    <3>1. h = [bytes |-> h.bytes, head |-> h.head, entries |-> h.entries,
               cursor |-> h.cursor, open |-> h.open]
      BY HistoryParts
    <3>2. Reclaim(h) = [h EXCEPT !.bytes = rest, !.entries = e, !.head = 0]
      BY <1>3 DEF Reclaim
    <3>. HIDE DEF rest, e
    <3>. QED  BY <3>1, <3>2
  <2>2. ASSUME NEW i \in 1..n
        PROVE  /\ h.entries[i].start \in Nat /\ h.entries[i].end \in Nat
               /\ d <= h.entries[i].start
               /\ h.entries[i].start < h.entries[i].end
               /\ h.entries[i].end <= Len(h.bytes)
    BY <1>1, EntriesOrdered DEF EntriesTile
  <2>3. d <= Len(h.bytes)
    BY EntriesOrdered
  <2>4. rest \in Seq(S) /\ Len(rest) = Len(h.bytes) - d
    <3>1. Len(h.bytes) <= Len(h.bytes)
      BY <1>1
    <3>. QED  BY <1>1, <2>3, <3>1, SubSeqOfRest
  <2>5. ASSUME NEW i \in 1..n
        PROVE  /\ e[i] \in Ranges
               /\ e[i].start = h.entries[i].start - d
               /\ e[i].end = h.entries[i].end - d
    <3>1. e[i] = [start |-> h.entries[i].start - d, end |-> h.entries[i].end - d]
      BY <1>1
    <3>2. h.entries[i].start - d \in Nat /\ h.entries[i].end - d \in Nat
      BY <1>1, <2>2
    <3>. QED  BY <3>1, <3>2 DEF Ranges
  <2>6. e \in Seq(Ranges) /\ Len(e) = n /\ DOMAIN e = 1..n
    <3>1. DOMAIN e = 1..n
      BY <1>1
    <3>2. e \in [1..n -> Ranges]
      BY <2>5, <3>1
    <3>. HIDE DEF e
    <3>. QED  BY <1>1, <3>1, <3>2
  <2>7. g \in Histories(S)
    <3>. HIDE DEF rest, e
    <3>. QED  BY <1>1, <2>4, <2>6, HistoryOfParts DEF g
  <2>8. ASSUME NEW i \in 1..n PROVE HeadAfter(g, i - 1) = HeadAfter(h, i - 1) - d
    <3>1. CASE i = 1
      BY <1>1, <3>1 DEF HeadAfter
    <3>2. CASE i # 1
      <4>1. i - 1 \in 1..n /\ i - 1 # 0
        BY <1>1, <3>2
      <4>. HIDE DEF e
      <4>. QED  BY <2>5, <4>1 DEF HeadAfter
    <3>. QED  BY <3>1, <3>2
  <2>9. EntriesTile(g)
    <3>1. ASSUME NEW i \in 1..n
          PROVE  /\ e[i].start \in Nat /\ e[i].end \in Nat
                 /\ e[i].start < e[i].end
                 /\ e[i].start = HeadAfter(g, i - 1)
      <4>1. h.entries[i].start = HeadAfter(h, i - 1)
        BY <1>1 DEF EntriesTile
      <4>. HIDE DEF g, e
      <4>2. e[i].start \in Nat /\ e[i].end \in Nat
        BY <2>5 DEF Ranges
      <4>3. e[i].start < e[i].end
        BY <1>1, <2>2, <2>5
      <4>4. e[i].start = HeadAfter(g, i - 1)
        BY <2>5, <2>8, <4>1
      <4>. QED  BY <4>2, <4>3, <4>4
    <3>2. Len(rest) = HeadAfter(g, n)
      <4>1. Len(h.bytes) = HeadAfter(h, n)
        BY DEF EntriesTile
      <4>2. CASE n = 0
        BY <1>1, <2>4, <4>1, <4>2 DEF HeadAfter
      <4>3. CASE n # 0
        <5>1. n \in 1..n
          BY <1>1, <4>3
        <5>. HIDE DEF e, rest
        <5>. QED  BY <2>4, <2>5, <4>1, <4>3, <5>1 DEF HeadAfter
      <4>. QED  BY <4>2, <4>3
    <3>. HIDE DEF e, rest
    <3>. QED  BY <2>6, <3>1, <3>2 DEF EntriesTile
  <2>10. ASSUME NEW i \in 1..n PROVE Decode(g, i) = Decode(h, i)
    <3>1. SubSeq(rest, h.entries[i].start - d + 1, h.entries[i].end - d)
            = SubSeq(h.bytes, h.entries[i].start + 1, h.entries[i].end)
      <4>. DEFINE a == h.entries[i].start
                  z == h.entries[i].end
      <4>1. a \in Nat /\ z \in Nat /\ d <= a /\ a <= z /\ z <= Len(h.bytes)
        BY <2>2
      <4>. HIDE DEF a, z, d
      <4>2. SubSeq(SubSeq(h.bytes, d + 1, Len(h.bytes)), a - d + 1, z - d)
              = SubSeq(h.bytes, a + 1, z)
        BY <1>1, <4>1, SubSeqOfRest
      <4>. QED  BY <4>2 DEF a, z
    <3>. HIDE DEF e, rest
    <3>. QED  BY <2>5, <3>1 DEF Decode
  <2>11. g.head <= MaxBytes
    BY BudgetAssumption
  <2>12. LiveBytes(g) = LiveBytes(h)
    <3>. HIDE DEF e, rest
    <3>. QED  BY <1>1, <2>4 DEF LiveBytes
  <2>. HIDE DEF e, rest
  <2>. QED  BY <2>1, <2>6, <2>7, <2>9, <2>10, <2>11, <2>12
<1>. QED  BY <1>2, <1>3

\* t holds what h held, but for its oldest entries, and is sound.
KeepsTheNewest(t, h) ==
    \E k \in 0..(Len(h.entries) - 1) :
        /\ Len(t.entries) = Len(h.entries) - k
        /\ \A i \in 1..Len(t.entries) : Decode(t, i) = Decode(h, i + k)

\* trim_to_limit keeps a history sound, its cursor at the end, and an entry.
LEMMA TrimKeeps ==
    ASSUME NEW S, NEW h \in Histories(S), EntriesTile(h), h.entries # <<>>,
           h.cursor = Len(h.entries)
    PROVE  LET t == TrimToLimit(h)
           IN  /\ t \in Histories(S) /\ HistoryIsSound(t)
               /\ t.open = h.open
               /\ t.cursor = Len(t.entries) /\ t.entries # <<>>
               /\ KeepsTheNewest(t, h)
<1>. DEFINE n == Len(h.entries)
            k == Dropped(h)
            g == EvictOldest(h, k)
            t == Reclaim(g)
<1>1. h.entries \in Seq(Ranges) /\ n \in Nat /\ n >= 1
  BY HistoryParts
<1>2. k \in 0..(n - 1) /\ (Fits(h, k) \/ k = n - 1)
  BY DroppedFits
<1>3. /\ g \in Histories(S) /\ EntriesTile(g)
      /\ g.bytes = h.bytes /\ g.open = h.open /\ g.head = HeadAfter(h, k)
      /\ Len(g.entries) = n - k /\ g.cursor = n - k
      /\ \A i \in 1..(n - k) : g.entries[i] = h.entries[i + k]
  <2>. HIDE DEF k
  <2>. QED  BY <1>2, EvictKeeps
<1>. HIDE DEF g
<1>4. /\ t \in Histories(S) /\ EntriesTile(t)
      /\ t.cursor = n - k /\ t.open = h.open
      /\ Len(t.entries) = n - k /\ t.head <= MaxBytes
      /\ LiveBytes(t) = LiveBytes(g)
      /\ \A i \in 1..(n - k) : Decode(t, i) = Decode(g, i)
  BY <1>3, ReclaimKeeps
<1>. HIDE DEF t, k
<1>5. \A i \in 1..(n - k) : Decode(g, i) = Decode(h, i + k)
  BY <1>3 DEF Decode
<1>6. n - k >= 1 /\ n - k \in Nat
  BY <1>1, <1>2
<1>7. t.entries # <<>>
  BY <1>4, <1>6
<1>8. Len(t.entries) > 1 => LiveBytes(t) <= MaxBytes
  <2>1. SUFFICES ASSUME n - k > 1 PROVE LiveBytes(g) <= MaxBytes
    BY <1>4
  <2>2. Fits(h, k)
    BY <1>1, <1>2, <2>1
  <2>. QED  BY <1>3, <2>2 DEF Fits, LiveBytes
<1>9. HistoryIsSound(t)
  BY <1>4, <1>6, <1>7, <1>8 DEF HistoryIsSound, HeadMarksTheOldest, CursorIsWithin,
                               NoTailWhileOpen, BudgetIsKept
<1>10. KeepsTheNewest(t, h)
  BY <1>2, <1>4, <1>5 DEF KeepsTheNewest
<1>. QED  BY <1>4, <1>7, <1>9, <1>10 DEF TrimToLimit, t, g, k

\* Sequences of one length that agree everywhere are one.
LEMMA SameSteps ==
    ASSUME NEW S, NEW l \in Seq(S), NEW r \in Seq(S), Len(l) = Len(r),
           \A k \in 1..Len(l) : l[k] = r[k]
    PROVE  l = r
  OBVIOUS

\* What a buffer holds that another was appended to.
LEMMA ConcatParts ==
    ASSUME NEW S, NEW b \in Seq(S), NEW s \in Seq(S), NEW c, c = b \o s
    PROVE  /\ c \in Seq(S) /\ Len(c) = Len(b) + Len(s)
           /\ \A k \in 1..Len(b) : c[k] = b[k]
           /\ \A k \in 1..Len(s) : c[Len(b) + k] = s[k]
           /\ Len(b) \in Nat /\ Len(s) \in Nat
  OBVIOUS

\* The range behind a buffer is what was appended to it (UndoHistory::pack).
LEMMA CutBehind ==
    ASSUME NEW S, NEW b \in Seq(S), NEW s \in Seq(S), NEW c, c = b \o s
    PROVE  SubSeq(c, Len(b) + 1, Len(b) + Len(s)) = s
<1>1. /\ c \in Seq(S) /\ Len(c) = Len(b) + Len(s)
      /\ \A k \in 1..Len(s) : c[Len(b) + k] = s[k]
      /\ Len(b) \in Nat /\ Len(s) \in Nat
  BY ConcatParts
<1>. DEFINE taken == SubSeq(c, Len(b) + 1, Len(b) + Len(s))
<1>2. /\ taken \in Seq(S) /\ Len(taken) = Len(s)
      /\ \A k \in 1..Len(s) : taken[k] = c[Len(b) + k]
  BY <1>1
<1>. HIDE DEF taken
<1>3. taken = s
  BY <1>1, <1>2, SameSteps
<1>. QED  BY <1>3 DEF taken

\* c cuts before the length of b as b does.
CutsAlike(c, b) ==
    \A i, j \in Nat : i <= j /\ j <= Len(b) =>
        SubSeq(c, i + 1, j) = SubSeq(b, i + 1, j)

\* Ranges of the buffer are cut alike after anything is appended to it.
LEMMA CutBefore ==
    ASSUME NEW S, NEW b \in Seq(S), NEW s \in Seq(S), NEW c, c = b \o s
    PROVE  CutsAlike(c, b)
<1>. SUFFICES ASSUME NEW i \in Nat, NEW j \in Nat, i <= j, j <= Len(b)
              PROVE  SubSeq(c, i + 1, j) = SubSeq(b, i + 1, j)
  BY DEF CutsAlike
<1>1. /\ c \in Seq(S) /\ Len(c) = Len(b) + Len(s)
      /\ \A k \in 1..Len(b) : c[k] = b[k]
      /\ Len(b) \in Nat /\ Len(s) \in Nat
  BY ConcatParts
<1>. DEFINE taken == SubSeq(c, i + 1, j)
            right == SubSeq(b, i + 1, j)
<1>2. /\ taken \in Seq(S) /\ Len(taken) = j - i
      /\ \A k \in 1..(j - i) : taken[k] = c[i + k]
  BY <1>1
<1>3. /\ right \in Seq(S) /\ Len(right) = j - i
      /\ \A k \in 1..(j - i) : right[k] = b[i + k]
  OBVIOUS
<1>4. \A k \in 1..(j - i) : c[i + k] = b[i + k]
  BY <1>1
<1>. HIDE DEF taken, right
<1>5. \A k \in 1..(j - i) : taken[k] = right[k]
  BY <1>2, <1>3, <1>4
<1>6. Len(taken) = Len(right) /\ \A k \in 1..Len(taken) : taken[k] = right[k]
  BY <1>2, <1>3, <1>5
<1>7. taken = right
  BY <1>2, <1>3, <1>6, SameSteps
<1>. QED  BY <1>7 DEF taken, right

\* What a pack appends is what its entry decodes to, and the entries before
\* it that the budget left still decode to what they were.
LEMMA PackKeeps ==
    ASSUME NEW S, NEW h \in Histories(S), EntriesTile(h),
           h.cursor = Len(h.entries), NEW steps \in Seq(S), steps # <<>>
    PROVE  LET t == Pack(h, steps)
           IN  /\ t \in Histories(S) /\ HistoryIsSound(t)
               /\ t.open = h.open
               /\ t.cursor = Len(t.entries) /\ t.entries # <<>>
               /\ Decode(t, t.cursor) = steps
               /\ \E k \in 0..Len(h.entries) :
                     /\ Len(t.entries) = Len(h.entries) + 1 - k
                     /\ \A i \in 1..(Len(t.entries) - 1) :
                           Decode(t, i) = Decode(h, i + k)
<1>. DEFINE n == Len(h.entries)
            b == h.bytes \o steps
            r == [start |-> Len(h.bytes), end |-> Len(h.bytes) + Len(steps)]
            e == Append(h.entries, r)
            p == Packed(h, steps)
<1>1. /\ h.bytes \in Seq(S) /\ h.head \in Nat /\ h.entries \in Seq(Ranges)
      /\ n \in Nat /\ DOMAIN h.entries = 1..n /\ h.cursor = n
      /\ h.open \in Holders(S)
      /\ Len(h.bytes) \in Nat /\ Len(steps) \in Nat /\ Len(steps) > 0
  BY HistoryParts
<1>2. b \in Seq(S) /\ Len(b) = Len(h.bytes) + Len(steps)
  BY <1>1
<1>3. r \in Ranges /\ r.start = Len(h.bytes) /\ r.end = Len(b)
  BY <1>1, <1>2 DEF Ranges
<1>4. /\ e \in Seq(Ranges) /\ Len(e) = n + 1 /\ DOMAIN e = 1..(n + 1)
      /\ e[n + 1] = r /\ \A i \in 1..n : e[i] = h.entries[i]
  <2>. HIDE DEF r
  <2>. QED  BY <1>1, <1>3
<1>5. /\ p = [bytes |-> b, head |-> h.head, entries |-> e, cursor |-> n + 1,
              open |-> h.open]
      /\ p \in Histories(S)
  <2>1. h = [bytes |-> h.bytes, head |-> h.head, entries |-> h.entries,
             cursor |-> h.cursor, open |-> h.open]
    BY HistoryParts
  <2>2. p = [h EXCEPT !.bytes = b, !.entries = e, !.cursor = n + 1]
    BY DEF Packed
  <2>. HIDE DEF b, e, p, n
  <2>3. p = [bytes |-> b, head |-> h.head, entries |-> e, cursor |-> n + 1,
             open |-> h.open]
    BY <2>1, <2>2
  <2>4. n + 1 \in Nat
    BY <1>1
  <2>. QED  BY <1>1, <1>2, <1>4, <2>3, <2>4, HistoryOfParts
<1>6. /\ p.bytes = b /\ p.head = h.head /\ p.entries = e /\ p.cursor = n + 1
      /\ p.open = h.open
  BY <1>5
<1>. HIDE DEF b, e, p, r
<1>7. \A i \in 0..n : HeadAfter(p, i) = HeadAfter(h, i)
  BY <1>1, <1>4, <1>6 DEF HeadAfter
<1>8. EntriesTile(p)
  <2>1. ASSUME NEW i \in 1..(n + 1)
        PROVE  /\ e[i].start \in Nat /\ e[i].end \in Nat
               /\ e[i].start < e[i].end
               /\ e[i].start = HeadAfter(p, i - 1)
    <3>1. CASE i = n + 1
      <4>1. HeadAfter(p, n) = Len(h.bytes)
        BY <1>1, <1>7 DEF EntriesTile
      <4>. QED  BY <1>1, <1>2, <1>3, <1>4, <3>1, <4>1
    <3>2. CASE i # n + 1
      <4>1. i \in DOMAIN h.entries /\ i - 1 \in 0..n
        BY <1>1, <3>2
      <4>. QED  BY <1>1, <1>4, <1>7, <4>1 DEF EntriesTile
    <3>. QED  BY <3>1, <3>2
  <2>2. HeadAfter(p, n + 1) = Len(b)
    BY <1>1, <1>3, <1>4, <1>6 DEF HeadAfter
  <2>. QED  BY <1>1, <1>4, <1>6, <2>1, <2>2 DEF EntriesTile
<1>9. Decode(p, n + 1) = steps
  <2>1. SubSeq(b, Len(h.bytes) + 1, Len(h.bytes) + Len(steps)) = steps
    BY <1>1, CutBehind, ZenonT(40) DEF b
  <2>. QED  BY <1>2, <1>3, <1>4, <1>6, <2>1 DEF Decode
<1>10. ASSUME NEW i \in 1..n PROVE Decode(p, i) = Decode(h, i)
  <2>. DEFINE x == h.entries[i].start
              z == h.entries[i].end
  <2>1. x \in Nat /\ z \in Nat /\ x <= z /\ z <= Len(h.bytes)
    <3>1. x \in Nat /\ z \in Nat /\ x < z
      BY <1>1 DEF EntriesTile
    <3>2. z <= Len(h.bytes)
      BY EntriesOrdered
    <3>. HIDE DEF x, z
    <3>. QED  BY <3>1, <3>2
  <2>2. e[i].start = x /\ e[i].end = z
    BY <1>4
  <2>. HIDE DEF x, z
  <2>3. SubSeq(b, x + 1, z) = SubSeq(h.bytes, x + 1, z)
    <3>1. h.bytes \in Seq(S) /\ steps \in Seq(S) /\ b = h.bytes \o steps
      BY <1>1 DEF b
    <3>2. CutsAlike(b, h.bytes)
      BY <3>1, CutBefore
    <3>. QED  BY <2>1, <3>2 DEF CutsAlike
  <2>. QED  BY <1>6, <2>2, <2>3 DEF Decode, x, z
<1>. DEFINE t == TrimToLimit(p)
<1>11. /\ t \in Histories(S) /\ HistoryIsSound(t) /\ t.open = p.open
       /\ t.cursor = Len(t.entries) /\ t.entries # <<>>
       /\ KeepsTheNewest(t, p)
  <2>1. p.entries # <<>> /\ p.cursor = Len(p.entries)
    BY <1>1, <1>4, <1>6
  <2>. QED  BY <1>5, <1>8, <2>1, TrimKeeps
<1>. HIDE DEF t
<1>12. PICK k \in 0..n : /\ Len(t.entries) = n + 1 - k
                         /\ \A i \in 1..(n + 1 - k) : Decode(t, i) = Decode(p, i + k)
  <2>1. Len(p.entries) - 1 = n /\ Len(p.entries) = n + 1
    BY <1>1, <1>4, <1>6
  <2>2. PICK k \in 0..(Len(p.entries) - 1) :
            /\ Len(t.entries) = Len(p.entries) - k
            /\ \A i \in 1..Len(t.entries) : Decode(t, i) = Decode(p, i + k)
    BY <1>11 DEF KeepsTheNewest
  <2>3. k \in 0..n /\ Len(t.entries) = n + 1 - k
    BY <2>1, <2>2
  <2>. QED  BY <2>2, <2>3
<1>13. Decode(t, n + 1 - k) = steps
  <2>1. n + 1 - k \in 1..(n + 1 - k) /\ (n + 1 - k) + k = n + 1
    BY <1>1
  <2>. QED  BY <1>9, <1>12, <2>1
<1>14. \A i \in 1..(n - k) : Decode(t, i) = Decode(h, i + k)
  BY <1>1, <1>10, <1>12
<1>15. (n + 1 - k) - 1 = n - k
  BY <1>1
<1>. QED  BY <1>6, <1>11, <1>12, <1>13, <1>14, <1>15 DEF Pack, t, p

-----------------------------------------------------------------------------
IsHistory(h) == \E S : AreSteps(S) /\ h \in Histories(S)

\* A history of some steps is one of more of them.
LEMMA Widened ==
    ASSUME NEW S, NEW T, NEW h \in Histories(S)
    PROVE  h \in Histories(S \cup T)
<1>1. Seq(S) \subseteq Seq(S \cup T)
  OBVIOUS
<1>2. Holders(S) \subseteq Holders(S \cup T)
  BY <1>1 DEF Holders
<1>3. /\ h.bytes \in Seq(S \cup T) /\ h.head \in Nat
      /\ h.entries \in Seq(Ranges) /\ h.cursor \in Nat
      /\ h.open \in Holders(S \cup T)
      /\ h = [bytes |-> h.bytes, head |-> h.head, entries |-> h.entries,
              cursor |-> h.cursor, open |-> h.open]
  BY <1>1, <1>2, HistoryParts
<1>. QED  BY <1>3, HistoryOfParts

\* The open gesture's steps are steps, none when no gesture is open.
LEMMA OpenStepsAreSteps ==
    ASSUME NEW h, IsHistory(h)
    PROVE  IsSteps(OpenSteps(h)) /\ (h.open = {} => OpenSteps(h) = <<>>)
<1>1. PICK S : AreSteps(S) /\ h \in Histories(S)
  BY DEF IsHistory
<1>2. h.open \in Holders(S)
  BY <1>1, HistoryParts
<1>3. CASE h.open = {}
  BY <1>3, StepsOfSteps DEF OpenSteps
<1>4. CASE h.open # {}
  <2>. DEFINE g == CHOOSE g \in h.open : TRUE
  <2>1. g \in h.open
    BY <1>4
  <2>. HIDE DEF g
  <2>2. g.steps \in Seq(S)
    BY <1>2, <2>1 DEF Holders
  <2>. QED  BY <1>1, <1>4, <2>2 DEF OpenSteps, IsSteps, g
<1>. QED  BY <1>3, <1>4

\* Taking the open gesture out disturbs nothing packed (UndoHistory::seal).
LEMMA ClosedKeeps ==
    ASSUME NEW h, IsHistory(h), HistoryIsSound(h)
    PROVE  /\ IsHistory(Closed(h)) /\ HistoryIsSound(Closed(h))
           /\ Closed(h).open = {} /\ Closed(h).entries = h.entries
           /\ Closed(h).cursor = h.cursor /\ Closed(h).bytes = h.bytes
           /\ (h.open = {} => Closed(h) = h)
<1>1. PICK S : AreSteps(S) /\ h \in Histories(S)
  BY DEF IsHistory
<1>2. /\ h.bytes \in Seq(S) /\ h.head \in Nat
      /\ h.entries \in Seq(Ranges) /\ h.cursor \in Nat
      /\ h = [bytes |-> h.bytes, head |-> h.head, entries |-> h.entries,
              cursor |-> h.cursor, open |-> h.open]
  BY <1>1, HistoryParts
<1>. DEFINE g == Closed(h)
<1>3. g = [bytes |-> h.bytes, head |-> h.head, entries |-> h.entries,
           cursor |-> h.cursor, open |-> {}]
  <2>1. g = [h EXCEPT !.open = {}]
    BY DEF Closed
  <2>2. h = [bytes |-> h.bytes, head |-> h.head, entries |-> h.entries,
             cursor |-> h.cursor, open |-> h.open]
    BY <1>2
  <2>. HIDE DEF g
  <2>. QED  BY <2>1, <2>2
<1>4. {} \in Holders(S)
  BY DEF Holders
<1>5. g \in Histories(S)
  BY <1>2, <1>3, <1>4, HistoryOfParts
<1>6. /\ g.bytes = h.bytes /\ g.head = h.head /\ g.entries = h.entries
      /\ g.cursor = h.cursor /\ g.open = {}
  BY <1>3
<1>7. h.open = {} => g = h
  BY <1>2, <1>3
<1>. HIDE DEF g
<1>8. HistoryIsSound(g)
  BY <1>6 DEF HistoryIsSound, EntriesTile, HeadAfter, HeadMarksTheOldest,
              CursorIsWithin, NoTailWhileOpen, BudgetIsKept, LiveBytes
<1>. QED  BY <1>1, <1>5, <1>6, <1>7, <1>8 DEF IsHistory, g

\* UndoHistory::seal keeps the history sound, whether or not the gesture it
\* ends left anything worth an entry; what it packs is what it retained.
THEOREM SealKeeps ==
    ASSUME NEW h, IsHistory(h), HistoryIsSound(h)
    PROVE  /\ IsHistory(Seal(h)) /\ HistoryIsSound(Seal(h))
           /\ Seal(h).open = {}
           /\ h.open = {} => Seal(h) = h
           /\ h.open # {} => Seal(h).cursor = Len(Seal(h).entries)
           /\ Worthwhile(OpenSteps(h)) # <<>> =>
                 /\ Seal(h).cursor # 0
                 /\ Decode(Seal(h), Seal(h).cursor) = Worthwhile(OpenSteps(h))
<1>. DEFINE w == Worthwhile(OpenSteps(h))
            g == Closed(h)
<1>1. /\ IsHistory(g) /\ HistoryIsSound(g) /\ g.open = {}
      /\ g.entries = h.entries /\ g.cursor = h.cursor
      /\ (h.open = {} => g = h)
  BY ClosedKeeps
<1>2. IsSteps(w) /\ (h.open = {} => w = <<>>)
  BY OpenStepsAreSteps, WorthwhileIsSteps
<1>3. h.open # {} => h.cursor = Len(h.entries)
  BY DEF HistoryIsSound, NoTailWhileOpen
<1>. HIDE DEF w, g
<1>4. CASE w = <<>>
  <2>1. Seal(h) = g
    BY <1>4 DEF Seal, w, g
  <2>. QED  BY <1>1, <1>3, <1>4, <2>1 DEF w
<1>5. CASE w # <<>>
  <2>1. Seal(h) = Pack(g, w)
    BY <1>5 DEF Seal, w, g
  <2>2. PICK S : AreSteps(S) /\ g \in Histories(S)
    BY <1>1 DEF IsHistory
  <2>3. PICK T : AreSteps(T) /\ w \in Seq(T)
    BY <1>2 DEF IsSteps
  <2>4. /\ g \in Histories(S \cup T) /\ w \in Seq(S \cup T)
        /\ AreSteps(S \cup T)
    <3>1. Seq(T) \subseteq Seq(S \cup T)
      OBVIOUS
    <3>2. AreSteps(S \cup T)
      BY <2>2, <2>3 DEF AreSteps
    <3>. QED  BY <2>2, <2>3, <3>1, <3>2, Widened
  <2>5. EntriesTile(g) /\ g.cursor = Len(g.entries)
    BY <1>1, <1>2, <1>3, <1>5 DEF HistoryIsSound
  <2>. DEFINE t == Pack(g, w)
  <2>6. /\ t \in Histories(S \cup T) /\ HistoryIsSound(t)
        /\ t.open = g.open /\ t.cursor = Len(t.entries) /\ t.entries # <<>>
        /\ Decode(t, t.cursor) = w
    BY <1>5, <2>4, <2>5, PackKeeps
  <2>. HIDE DEF t
  <2>7. t.cursor # 0
    <3>1. t.entries \in Seq(Ranges)
      BY <2>6, HistoryParts
    <3>. QED  BY <2>6, <3>1
  <2>. QED  BY <1>1, <1>2, <1>5, <2>1, <2>4, <2>6, <2>7 DEF IsHistory, t, w
<1>. QED  BY <1>4, <1>5

-----------------------------------------------------------------------------
\* The undone tail goes with its bytes, and what is left is sound.
LEMMA DiscardRedoKeeps ==
    ASSUME NEW h, IsHistory(h), HistoryIsSound(h), h.open = {}
    PROVE  LET g == DiscardRedo(h)
           IN  /\ IsHistory(g) /\ HistoryIsSound(g) /\ g.open = {}
               /\ g.cursor = Len(g.entries)
<1>1. PICK S : AreSteps(S) /\ h \in Histories(S)
  BY DEF IsHistory
<1>. DEFINE n == Len(h.entries)
            c == h.cursor
<1>2. /\ h.bytes \in Seq(S) /\ h.head \in Nat /\ h.entries \in Seq(Ranges)
      /\ n \in Nat /\ DOMAIN h.entries = 1..n /\ c \in 0..n /\ c \in Nat
      /\ Len(h.bytes) \in Nat
      /\ h = [bytes |-> h.bytes, head |-> h.head, entries |-> h.entries,
              cursor |-> h.cursor, open |-> h.open]
  BY <1>1, HistoryParts DEF HistoryIsSound, CursorIsWithin
<1>3. EntriesTile(h)
  BY DEF HistoryIsSound
<1>4. CASE ~ CanRedo(h)
  <2>1. DiscardRedo(h) = h
    BY <1>4 DEF DiscardRedo
  <2>. QED  BY <1>2, <1>4, <2>1 DEF CanRedo
<1>5. CASE CanRedo(h)
  <2>. DEFINE cut == h.entries[c + 1].start
              b == SubSeq(h.bytes, 1, cut)
              e == SubSeq(h.entries, 1, c)
              none == c = 0
              g == [bytes |-> IF none THEN <<>> ELSE b,
                    head |-> IF none THEN 0 ELSE h.head,
                    entries |-> e, cursor |-> c, open |-> {}]
  <2>1. c + 1 \in 1..n
    BY <1>2, <1>5 DEF CanRedo
  <2>2. /\ cut \in Nat /\ cut = HeadAfter(h, c) /\ cut <= Len(h.bytes)
        /\ h.head <= cut
    <3>1. cut \in Nat /\ cut = HeadAfter(h, (c + 1) - 1)
      BY <1>2, <1>3, <2>1 DEF EntriesTile
    <3>2. /\ h.head <= cut /\ h.entries[c + 1].end <= Len(h.bytes)
          /\ cut < h.entries[c + 1].end /\ h.entries[c + 1].end \in Nat
      BY <1>1, <1>2, <1>3, <2>1, EntriesOrdered DEF EntriesTile
    <3>3. (c + 1) - 1 = c
      BY <1>2
    <3>. HIDE DEF cut, c
    <3>. QED  BY <1>2, <3>1, <3>2, <3>3
  <2>3. b \in Seq(S) /\ Len(b) = cut
    <3>. HIDE DEF cut
    <3>. QED  BY <1>2, <2>2
  <2>4. /\ e \in Seq(Ranges) /\ Len(e) = c /\ DOMAIN e = 1..c
        /\ \A i \in 1..c : e[i] = h.entries[i]
    BY <1>2, <2>1
  <2>5. DiscardRedo(h) = g
    <3>1. CutBack(h) = [h EXCEPT !.bytes = b, !.entries = e]
      BY DEF CutBack
    <3>2. CASE c = 0
      <4>1. DiscardRedo(h) = [CutBack(h) EXCEPT !.bytes = <<>>, !.head = 0]
        BY <1>5, <3>2 DEF DiscardRedo
      <4>2. g = [bytes |-> <<>>, head |-> 0, entries |-> e,
                 cursor |-> h.cursor, open |-> h.open]
        BY <3>2
      <4>. HIDE DEF b, e, g
      <4>3. CutBack(h) = [bytes |-> b, head |-> h.head, entries |-> e,
                          cursor |-> h.cursor, open |-> h.open]
        BY <1>2, <3>1
      <4>. DEFINE k == CutBack(h)
                  d == DiscardRedo(h)
      <4>. HIDE DEF k, d
      <4>4. d = [k EXCEPT !.bytes = <<>>, !.head = 0]
        BY <4>1 DEF k, d
      <4>5. k = [bytes |-> b, head |-> h.head, entries |-> e,
                 cursor |-> h.cursor, open |-> h.open]
        BY <4>3 DEF k
      <4>6. d = [bytes |-> <<>>, head |-> 0, entries |-> e,
                 cursor |-> h.cursor, open |-> h.open]
        BY <4>4, <4>5
      <4>. QED  BY <4>2, <4>6 DEF d
    <3>3. CASE c # 0
      <4>1. DiscardRedo(h) = CutBack(h)
        BY <1>5, <3>3 DEF DiscardRedo
      <4>2. g = [bytes |-> b, head |-> h.head, entries |-> e,
                 cursor |-> h.cursor, open |-> h.open]
        BY <3>3
      <4>. HIDE DEF b, e, g
      <4>3. CutBack(h) = [bytes |-> b, head |-> h.head, entries |-> e,
                          cursor |-> h.cursor, open |-> h.open]
        BY <1>2, <3>1
      <4>. QED  BY <4>1, <4>2, <4>3
    <3>. QED  BY <3>2, <3>3
  <2>. HIDE DEF b, e, cut
  <2>6. g \in Histories(S)
    <3>1. {} \in Holders(S) /\ <<>> \in Seq(S) /\ 0 \in Nat
      BY DEF Holders
    <3>. QED  BY <1>2, <2>3, <2>4, <3>1, HistoryOfParts
  <2>7. /\ g.entries = e /\ g.cursor = c /\ g.open = {}
        /\ none => g.bytes = <<>> /\ g.head = 0
        /\ ~none => g.bytes = b /\ g.head = h.head
    OBVIOUS
  <2>. HIDE DEF g
  <2>8. \A i \in 0..c : ~none => HeadAfter(g, i) = HeadAfter(h, i)
    BY <1>2, <2>4, <2>7 DEF HeadAfter
  <2>9. EntriesTile(g)
    <3>1. CASE none
      BY <2>4, <2>7, <3>1 DEF EntriesTile, HeadAfter
    <3>2. CASE ~none
      <4>1. ASSUME NEW i \in 1..c
            PROVE  /\ e[i].start \in Nat /\ e[i].end \in Nat
                   /\ e[i].start < e[i].end
                   /\ e[i].start = HeadAfter(g, i - 1)
        <5>1. i \in DOMAIN h.entries /\ i - 1 \in 0..c
          BY <1>2
        <5>. QED  BY <1>3, <2>4, <2>8, <3>2, <5>1 DEF EntriesTile
      <4>2. Len(b) = HeadAfter(g, c)
        BY <1>2, <2>2, <2>3, <2>8, <3>2
      <4>. QED  BY <1>2, <2>4, <2>7, <3>2, <4>1, <4>2 DEF EntriesTile
    <3>. QED  BY <3>1, <3>2
  <2>10. HistoryIsSound(g)
    <3>1. HeadMarksTheOldest(g)
      BY <1>2, <2>4, <2>7 DEF HeadMarksTheOldest
    <3>2. BudgetIsKept(g)
      <4>1. h.head <= MaxBytes /\ (n > 1 => Len(h.bytes) - h.head <= MaxBytes)
        BY DEF HistoryIsSound, BudgetIsKept, LiveBytes
      <4>2. CASE none
        BY <2>4, <2>7, <4>2, BudgetAssumption DEF BudgetIsKept, LiveBytes
      <4>3. CASE ~none
        <5>1. Len(e) > 1 => n > 1
          BY <1>2, <2>1, <2>4
        <5>2. n > 1 => cut - h.head <= MaxBytes
          BY <1>2, <2>2, <4>1, BudgetAssumption
        <5>. QED  BY <2>3, <2>7, <4>1, <4>3, <5>1, <5>2
                  DEF BudgetIsKept, LiveBytes
      <4>. QED  BY <4>2, <4>3
    <3>. QED  BY <1>2, <2>4, <2>7, <2>9, <3>1, <3>2
              DEF HistoryIsSound, CursorIsWithin, NoTailWhileOpen
  <2>. QED  BY <1>1, <2>4, <2>5, <2>6, <2>7, <2>10 DEF IsHistory
<1>. QED  BY <1>4, <1>5

-----------------------------------------------------------------------------
\* UndoHistory::new is sound.
THEOREM NewHistoryIsSound == IsHistory(NewHistory) /\ HistoryIsSound(NewHistory)
<1>1. NewHistory \in Histories({}) /\ AreSteps({})
  BY DEF NewHistory, Histories, AreSteps
<1>2. /\ NewHistory.bytes = <<>> /\ NewHistory.head = 0
      /\ NewHistory.entries = <<>> /\ NewHistory.cursor = 0
      /\ NewHistory.open = {}
  BY DEF NewHistory
<1>3. HistoryIsSound(NewHistory)
  BY <1>2, BudgetAssumption
  DEF HistoryIsSound, EntriesTile, HeadAfter, HeadMarksTheOldest,
      CursorIsWithin, NoTailWhileOpen, BudgetIsKept, LiveBytes
<1>. QED  BY <1>1, <1>3 DEF IsHistory

\* A plain push seals, cuts the undone tail and packs; what it packed is what
\* the entry under the cursor decodes to, whatever the budget had to drop.
LEMMA PlainPushKeeps ==
    ASSUME NEW h, IsHistory(h), HistoryIsSound(h),
           NEW steps, IsSteps(steps), steps # <<>>
    PROVE  LET t == Push(h, steps, {})
           IN  /\ IsHistory(t) /\ HistoryIsSound(t) /\ t.open = {}
               /\ t.cursor # 0 /\ t.cursor = Len(t.entries)
               /\ Decode(t, t.cursor) = steps
<1>. DEFINE g == DiscardRedo(Seal(h))
            t == Pack(g, steps)
<1>1. IsHistory(g) /\ HistoryIsSound(g) /\ g.open = {} /\ g.cursor = Len(g.entries)
  <2>1. /\ IsHistory(Seal(h)) /\ HistoryIsSound(Seal(h)) /\ Seal(h).open = {}
    BY SealKeeps
  <2>. QED  BY <2>1, DiscardRedoKeeps
<1>. HIDE DEF g
<1>2. Push(h, steps, {}) = t
  BY DEF Push, g
<1>3. PICK S : AreSteps(S) /\ g \in Histories(S)
  BY <1>1 DEF IsHistory
<1>4. PICK T : AreSteps(T) /\ steps \in Seq(T)
  BY DEF IsSteps
<1>5. /\ g \in Histories(S \cup T) /\ steps \in Seq(S \cup T)
      /\ AreSteps(S \cup T)
  <2>1. Seq(T) \subseteq Seq(S \cup T)
    OBVIOUS
  <2>2. AreSteps(S \cup T)
    BY <1>3, <1>4 DEF AreSteps
  <2>. QED  BY <1>3, <1>4, <2>1, <2>2, Widened
<1>6. EntriesTile(g)
  BY <1>1 DEF HistoryIsSound
<1>7. /\ t \in Histories(S \cup T) /\ HistoryIsSound(t) /\ t.open = g.open
      /\ t.cursor = Len(t.entries) /\ t.entries # <<>>
      /\ Decode(t, t.cursor) = steps
  BY <1>1, <1>5, <1>6, PackKeeps
<1>. HIDE DEF t
<1>8. t.cursor # 0
  <2>1. t.entries \in Seq(Ranges)
    BY <1>7, HistoryParts
  <2>. QED  BY <1>7, <2>1
<1>. QED  BY <1>1, <1>2, <1>5, <1>7, <1>8 DEF IsHistory

\* A gesture may be held wherever nothing is undone.
LEMMA HolderKeeps ==
    ASSUME NEW h, IsHistory(h), HistoryIsSound(h), h.cursor = Len(h.entries),
           NEW id \in Nat, NEW more, IsSteps(more)
    PROVE  LET g == [h EXCEPT !.open = {[id |-> id, steps |-> more]}]
           IN  /\ IsHistory(g) /\ HistoryIsSound(g)
               /\ g.cursor = Len(g.entries)
<1>. DEFINE holder == {[id |-> id, steps |-> more]}
            g == [h EXCEPT !.open = holder]
<1>1. PICK S : AreSteps(S) /\ h \in Histories(S)
  BY DEF IsHistory
<1>2. PICK T : AreSteps(T) /\ more \in Seq(T)
  BY DEF IsSteps
<1>3. h \in Histories(S \cup T) /\ AreSteps(S \cup T)
  BY <1>1, <1>2, Widened DEF AreSteps
<1>4. holder \in Holders(S \cup T)
  <2>1. Seq(T) \subseteq Seq(S \cup T)
    OBVIOUS
  <2>. QED  BY <1>2, <2>1 DEF Holders
<1>5. /\ h.bytes \in Seq(S \cup T) /\ h.head \in Nat
      /\ h.entries \in Seq(Ranges) /\ h.cursor \in Nat
      /\ h = [bytes |-> h.bytes, head |-> h.head, entries |-> h.entries,
              cursor |-> h.cursor, open |-> h.open]
  BY <1>3, HistoryParts
<1>6. g = [bytes |-> h.bytes, head |-> h.head, entries |-> h.entries,
           cursor |-> h.cursor, open |-> holder]
  <2>1. g = [h EXCEPT !.open = holder]
    OBVIOUS
  <2>. HIDE DEF g, holder
  <2>. QED  BY <1>5, <2>1
<1>. HIDE DEF holder
<1>7. g \in Histories(S \cup T)
  <2>. HIDE DEF g
  <2>. QED  BY <1>4, <1>5, <1>6, HistoryOfParts
<1>8. /\ g.bytes = h.bytes /\ g.head = h.head /\ g.entries = h.entries
      /\ g.cursor = h.cursor
  BY <1>6
<1>. HIDE DEF g
<1>9. HistoryIsSound(g)
  BY <1>8 DEF HistoryIsSound, EntriesTile, HeadAfter, HeadMarksTheOldest,
              CursorIsWithin, NoTailWhileOpen, BudgetIsKept, LiveBytes
<1>. QED  BY <1>3, <1>7, <1>8, <1>9 DEF IsHistory, g, holder

\* UndoHistory::push keeps the history sound, in a gesture or out of one: the
\* frame joins the gesture it names or, after the seal, opens one of its own.
THEOREM PushKeeps ==
    ASSUME NEW h, IsHistory(h), HistoryIsSound(h),
           NEW steps, IsSteps(steps),
           NEW gesture, gesture = {} \/ \E id \in Nat : gesture = {id}
    PROVE  /\ IsHistory(Push(h, steps, gesture))
           /\ HistoryIsSound(Push(h, steps, gesture))
<1>1. CASE steps = <<>>
  BY <1>1 DEF Push
<1>2. CASE steps # <<>> /\ gesture = {}
  BY <1>2, PlainPushKeeps
<1>3. CASE steps # <<>> /\ gesture # {}
  <2>1. PICK id \in Nat : gesture = {id}
    BY <1>3
  <2>. DEFINE o == Opened(h, id)
              more == FoldFrames(OpenSteps(o), steps)
              g == Joined(o, id, steps)
  <2>2. Push(h, steps, gesture) = g
    <3>1. (CHOOSE x \in gesture : TRUE) = id
      BY <2>1
    <3>. QED  BY <1>3, <3>1 DEF Push
  <2>3. IsHistory(o) /\ HistoryIsSound(o) /\ o.cursor = Len(o.entries)
    <3>1. CASE IsOpenFor(h, id)
      <4>1. o = h /\ h.open # {}
        BY <3>1 DEF Opened, IsOpenFor
      <4>. QED  BY <4>1 DEF HistoryIsSound, NoTailWhileOpen
    <3>2. CASE ~ IsOpenFor(h, id)
      <4>. DEFINE d == DiscardRedo(Seal(h))
      <4>1. /\ IsHistory(Seal(h)) /\ HistoryIsSound(Seal(h))
            /\ Seal(h).open = {}
        BY SealKeeps
      <4>2. IsHistory(d) /\ HistoryIsSound(d) /\ d.cursor = Len(d.entries)
        BY <4>1, DiscardRedoKeeps
      <4>. HIDE DEF d
      <4>3. IsSteps(<<>>)
        BY DEF IsSteps
      <4>4. o = [d EXCEPT !.open = {[id |-> id, steps |-> <<>>]}]
        BY <3>2 DEF Opened, d
      <4>. QED  BY <4>2, <4>3, <4>4, HolderKeeps
    <3>. QED  BY <3>1, <3>2
  <2>. HIDE DEF o
  <2>4. IsSteps(more)
    BY <2>3, OpenStepsAreSteps, FoldedIsSteps
  <2>5. g = [o EXCEPT !.open = {[id |-> id, steps |-> more]}]
    BY DEF Joined
  <2>. HIDE DEF g, more
  <2>. QED  BY <2>2, <2>3, <2>4, <2>5, HolderKeeps
<1>. QED  BY <1>1, <1>2, <1>3

\* UndoHistory::withdraw drops the gesture it names and keeps all else.
THEOREM WithdrawKeeps ==
    ASSUME NEW h, IsHistory(h), HistoryIsSound(h), NEW doc, NEW gesture
    PROVE  LET w == Withdraw(h, doc, gesture)
           IN  /\ IsHistory(w.history) /\ HistoryIsSound(w.history)
               /\ w.history.entries = h.entries
               /\ w.history.bytes = h.bytes
               /\ w.history.cursor = h.cursor
<1>1. CASE IsOpenFor(h, gesture)
  <2>1. Withdraw(h, doc, gesture).history = Closed(h)
    BY <1>1 DEF Withdraw, Withdrawn
  <2>. QED  BY <2>1, ClosedKeeps
<1>2. CASE ~ IsOpenFor(h, gesture)
  <2>1. Withdraw(h, doc, gesture).history = h
    BY <1>2 DEF Withdraw, Untouched
  <2>. QED  BY <2>1
<1>. QED  BY <1>1, <1>2

\* h with its cursor elsewhere among the same entries.
LEMMA CursorKeeps ==
    ASSUME NEW h, IsHistory(h), HistoryIsSound(h), h.open = {},
           NEW c \in 0..Len(h.entries)
    PROVE  LET g == [h EXCEPT !.cursor = c]
           IN  /\ IsHistory(g) /\ HistoryIsSound(g) /\ g.open = {}
               /\ g.cursor = c /\ g.entries = h.entries /\ g.bytes = h.bytes
               /\ (c = h.cursor => g = h)
               /\ [g EXCEPT !.cursor = h.cursor] = h
<1>. DEFINE g == [h EXCEPT !.cursor = c]
            back == [g EXCEPT !.cursor = h.cursor]
<1>1. PICK S : AreSteps(S) /\ h \in Histories(S)
  BY DEF IsHistory
<1>2. /\ h.bytes \in Seq(S) /\ h.head \in Nat
      /\ h.entries \in Seq(Ranges) /\ h.cursor \in Nat
      /\ h.open \in Holders(S)
      /\ h = [bytes |-> h.bytes, head |-> h.head, entries |-> h.entries,
              cursor |-> h.cursor, open |-> h.open]
  BY <1>1, HistoryParts
<1>3. g = [bytes |-> h.bytes, head |-> h.head, entries |-> h.entries,
           cursor |-> c, open |-> h.open]
  <2>1. g = [h EXCEPT !.cursor = c]
    OBVIOUS
  <2>. HIDE DEF g
  <2>. QED  BY <1>2, <2>1
<1>4. back = h
  <2>1. back = [g EXCEPT !.cursor = h.cursor]
    OBVIOUS
  <2>. HIDE DEF g, back
  <2>2. back = [bytes |-> h.bytes, head |-> h.head, entries |-> h.entries,
                cursor |-> h.cursor, open |-> h.open]
    BY <1>3, <2>1
  <2>. QED  BY <1>2, <2>2
<1>5. c = h.cursor => g = h
  BY <1>2, <1>3
<1>6. /\ g.bytes = h.bytes /\ g.head = h.head /\ g.entries = h.entries
      /\ g.cursor = c /\ g.open = {}
  BY <1>3
<1>7. g \in Histories(S)
  <2>1. c \in Nat
    OBVIOUS
  <2>. HIDE DEF g
  <2>. QED  BY <1>2, <1>3, <2>1, HistoryOfParts
<1>. HIDE DEF g, back
<1>8. HistoryIsSound(g)
  BY <1>6 DEF HistoryIsSound, EntriesTile, HeadAfter, HeadMarksTheOldest,
              CursorIsWithin, NoTailWhileOpen, BudgetIsKept, LiveBytes
<1>. QED  BY <1>1, <1>4, <1>5, <1>6, <1>7, <1>8 DEF IsHistory, g, back

\* An entry decodes to steps.
LEMMA DecodeIsSteps ==
    ASSUME NEW h, IsHistory(h), HistoryIsSound(h), NEW i \in 1..Len(h.entries)
    PROVE  IsSteps(Decode(h, i))
<1>1. PICK S : AreSteps(S) /\ h \in Histories(S)
  BY DEF IsHistory
<1>2. h.bytes \in Seq(S) /\ h.entries \in Seq(Ranges)
  BY <1>1, HistoryParts
<1>3. EntriesTile(h)
  BY DEF HistoryIsSound
<1>. DEFINE a == h.entries[i].start
            b == h.entries[i].end
<1>4. a \in Nat /\ b \in Nat /\ a <= b /\ b <= Len(h.bytes)
  <2>1. a \in Nat /\ b \in Nat /\ a < b
    BY <1>2, <1>3 DEF EntriesTile
  <2>2. b <= Len(h.bytes)
    BY <1>1, <1>3, EntriesOrdered
  <2>. HIDE DEF a, b
  <2>. QED  BY <2>1, <2>2
<1>. HIDE DEF a, b
<1>5. SubSeq(h.bytes, a + 1, b) \in Seq(S)
  BY <1>2, <1>4, RangeHolds
<1>. QED  BY <1>1, <1>5 DEF Decode, IsSteps, a, b

\* UndoHistory::undo keeps the history sound.  It seals first, so a held
\* gesture that did anything is what it takes back, and otherwise the entry
\* under the cursor.
THEOREM UndoKeeps ==
    ASSUME NEW h, IsHistory(h), HistoryIsSound(h), NEW doc
    PROVE  LET u == Undo(h, doc)
           IN  /\ IsHistory(u.history) /\ HistoryIsSound(u.history)
               /\ u.history.open = {}
               /\ Worthwhile(OpenSteps(h)) # <<>> =>
                     /\ u.replayed = Worthwhile(OpenSteps(h))
                     /\ u.doc = Revert(u.replayed, doc)
<1>. DEFINE s == Seal(h)
            u == Undo(h, doc)
            g == [s EXCEPT !.cursor = s.cursor - 1]
<1>1. /\ IsHistory(s) /\ HistoryIsSound(s) /\ s.open = {}
      /\ Worthwhile(OpenSteps(h)) # <<>> =>
            /\ s.cursor # 0
            /\ Decode(s, s.cursor) = Worthwhile(OpenSteps(h))
  BY SealKeeps
<1>2. s.cursor \in 0..Len(s.entries) /\ Len(s.entries) \in Nat
  <2>. HIDE DEF s
  <2>1. PICK S : AreSteps(S) /\ s \in Histories(S)
    BY <1>1 DEF IsHistory
  <2>. QED  BY <1>1, <2>1, HistoryParts DEF HistoryIsSound, CursorIsWithin
<1>3. CASE s.cursor = 0
  <2>1. u = Untouched(s, doc)
    BY <1>3 DEF Undo
  <2>2. u.history = s
    BY <2>1 DEF Untouched
  <2>. HIDE DEF u, s
  <2>. QED  BY <1>1, <1>3, <2>2 DEF u
<1>4. CASE s.cursor # 0
  <2>1. u = UndoEntry(s, doc)
    BY <1>4 DEF Undo
  <2>2. /\ u.history = g /\ u.replayed = Decode(s, s.cursor)
        /\ u.doc = Revert(Decode(s, s.cursor), doc)
    <3>. HIDE DEF u, s
    <3>. QED  BY <2>1 DEF UndoEntry
  <2>3. s.cursor - 1 \in 0..Len(s.entries)
    <3>. HIDE DEF s
    <3>. QED  BY <1>2, <1>4
  <2>4. IsHistory(g) /\ HistoryIsSound(g) /\ g.open = {}
    <3>. HIDE DEF s
    <3>. QED  BY <1>1, <2>3, CursorKeeps
  <2>. HIDE DEF u, s, g
  <2>. QED  BY <1>1, <2>2, <2>4 DEF u
<1>. QED  BY <1>3, <1>4

\* UndoHistory::redo keeps the history sound.
THEOREM RedoKeeps ==
    ASSUME NEW h, IsHistory(h), HistoryIsSound(h), NEW doc
    PROVE  LET r == Redo(h, doc)
           IN  IsHistory(r.history) /\ HistoryIsSound(r.history)
<1>. DEFINE s == Seal(h)
            r == Redo(h, doc)
            g == [s EXCEPT !.cursor = s.cursor + 1]
<1>1. IsHistory(s) /\ HistoryIsSound(s) /\ s.open = {}
  BY SealKeeps
<1>2. s.cursor \in 0..Len(s.entries) /\ Len(s.entries) \in Nat
  <2>. HIDE DEF s
  <2>1. PICK S : AreSteps(S) /\ s \in Histories(S)
    BY <1>1 DEF IsHistory
  <2>. QED  BY <1>1, <2>1, HistoryParts DEF HistoryIsSound, CursorIsWithin
<1>3. CASE ~ CanRedo(s)
  <2>1. r = Untouched(s, doc)
    BY <1>3 DEF Redo
  <2>2. r.history = s
    BY <2>1 DEF Untouched
  <2>. HIDE DEF r, s
  <2>. QED  BY <1>1, <2>2 DEF r
<1>4. CASE CanRedo(s)
  <2>1. r = RedoEntry(s, doc)
    BY <1>4 DEF Redo
  <2>2. r.history = g
    <3>. HIDE DEF r, s
    <3>. QED  BY <2>1 DEF RedoEntry
  <2>3. s.cursor + 1 \in 0..Len(s.entries)
    <3>. HIDE DEF s
    <3>. QED  BY <1>2, <1>4 DEF CanRedo
  <2>4. IsHistory(g) /\ HistoryIsSound(g)
    <3>. HIDE DEF s
    <3>. QED  BY <1>1, <2>3, CursorKeeps
  <2>. HIDE DEF r, s, g
  <2>. QED  BY <2>2, <2>4 DEF r
<1>. QED  BY <1>3, <1>4

\* What was pushed is what the next undo takes back, all of it and nothing
\* else, however many entries the budget dropped to make room for it.
THEOREM UndoReturnsThePush ==
    ASSUME NEW h, IsHistory(h), HistoryIsSound(h),
           NEW steps, IsSteps(steps), steps # <<>>, NEW doc
    PROVE  LET u == Undo(Push(h, steps, {}), doc)
           IN  u.replayed = steps /\ u.doc = Revert(steps, doc)
<1>. DEFINE t == Push(h, steps, {})
            u == Undo(t, doc)
<1>1. /\ IsHistory(t) /\ HistoryIsSound(t) /\ t.open = {}
      /\ t.cursor # 0 /\ Decode(t, t.cursor) = steps
  BY PlainPushKeeps
<1>. HIDE DEF t
<1>2. Seal(t) = t
  BY <1>1, SealKeeps
<1>3. u = UndoEntry(t, doc)
  BY <1>1, <1>2 DEF Undo
<1>. HIDE DEF u
<1>. QED  BY <1>1, <1>3 DEF UndoEntry, u, t

\* A redo after an undo replays what the undo took back and leaves the history
\* as it was before it.
THEOREM RedoReturnsTheUndo ==
    ASSUME NEW h, IsHistory(h), HistoryIsSound(h), h.open = {}, h.cursor # 0,
           NEW before, NEW after
    PROVE  LET u == Undo(h, before)
               r == Redo(u.history, after)
           IN  /\ r.replayed = u.replayed
               /\ r.doc = Apply(u.replayed, after)
               /\ r.history = h
<1>. DEFINE u == Undo(h, before)
            c == h.cursor - 1
            g == [h EXCEPT !.cursor = c]
            r == Redo(g, after)
<1>1. Seal(h) = h
  BY SealKeeps
<1>2. u.history = g /\ u.replayed = Decode(h, h.cursor)
  BY <1>1 DEF Undo, UndoEntry
<1>3. h.cursor \in 0..Len(h.entries) /\ Len(h.entries) \in Nat
  <2>1. PICK S : AreSteps(S) /\ h \in Histories(S)
    BY DEF IsHistory
  <2>. QED  BY <2>1, HistoryParts DEF HistoryIsSound, CursorIsWithin
<1>4. c \in 0..Len(h.entries) /\ c + 1 = h.cursor /\ c < Len(h.entries)
  BY <1>3
<1>. HIDE DEF c
<1>5. /\ IsHistory(g) /\ HistoryIsSound(g) /\ g.open = {} /\ g.cursor = c
      /\ g.entries = h.entries /\ g.bytes = h.bytes
      /\ [g EXCEPT !.cursor = h.cursor] = h
  BY <1>4, CursorKeeps
<1>. HIDE DEF g
<1>6. Seal(g) = g
  BY <1>5, SealKeeps
<1>7. CanRedo(g)
  BY <1>4, <1>5 DEF CanRedo
<1>8. r = RedoEntry(g, after)
  BY <1>6, <1>7 DEF Redo
<1>9. Decode(g, g.cursor + 1) = Decode(h, h.cursor)
  BY <1>4, <1>5 DEF Decode
<1>10. [g EXCEPT !.cursor = @ + 1] = h
  BY <1>4, <1>5
<1>11. /\ r.replayed = Decode(h, h.cursor)
       /\ r.doc = Apply(Decode(h, h.cursor), after)
       /\ r.history = h
  <2>. HIDE DEF r
  <2>. QED  BY <1>8, <1>9, <1>10 DEF RedoEntry
<1>. HIDE DEF r, u
<1>12. r = Redo(u.history, after)
  BY <1>2 DEF r
<1>. QED  BY <1>2, <1>11, <1>12 DEF u

-----------------------------------------------------------------------------
\* What an undo or a redo hands its caller are steps, and the document it
\* answers is the one before with them replayed.
Replayed(answer, doc, before) ==
    /\ IsSteps(answer.replayed)
    /\ \/ answer.doc = before
       \/ answer.replayed = <<>> /\ answer.doc = doc

\* UndoHistory::undo answers with the replay, backward, of what it hands out.
LEMMA UndoReplays ==
    ASSUME NEW h, IsHistory(h), HistoryIsSound(h), NEW doc
    PROVE  LET u == Undo(h, doc) IN Replayed(u, doc, Revert(u.replayed, doc))
<1>. DEFINE s == Seal(h)
            u == Undo(h, doc)
<1>1. IsHistory(s) /\ HistoryIsSound(s)
  BY SealKeeps
<1>2. s.cursor \in 0..Len(s.entries) /\ Len(s.entries) \in Nat
  <2>. HIDE DEF s
  <2>1. PICK S : s \in Histories(S)
    BY <1>1 DEF IsHistory
  <2>. QED  BY <1>1, <2>1, HistoryParts DEF HistoryIsSound, CursorIsWithin
<1>3. CASE s.cursor = 0
  <2>1. u = Untouched(s, doc)
    BY <1>3 DEF Undo
  <2>. HIDE DEF u, s
  <2>2. u.replayed = <<>> /\ u.doc = doc
    BY <2>1 DEF Untouched
  <2>. QED  BY <2>2, StepsOfSteps DEF Replayed, u
<1>4. CASE s.cursor # 0
  <2>1. u = UndoEntry(s, doc)
    BY <1>4 DEF Undo
  <2>. HIDE DEF u, s
  <2>2. u.replayed = Decode(s, s.cursor) /\ u.doc = Revert(u.replayed, doc)
    BY <2>1 DEF UndoEntry
  <2>3. s.cursor \in 1..Len(s.entries)
    BY <1>2, <1>4
  <2>. QED  BY <1>1, <2>2, <2>3, DecodeIsSteps DEF Replayed, u
<1>. QED  BY <1>3, <1>4

\* The same of a redo.
LEMMA RedoReplays ==
    ASSUME NEW h, IsHistory(h), HistoryIsSound(h), NEW doc
    PROVE  LET r == Redo(h, doc) IN Replayed(r, doc, Apply(r.replayed, doc))
<1>. DEFINE s == Seal(h)
            r == Redo(h, doc)
<1>1. IsHistory(s) /\ HistoryIsSound(s)
  BY SealKeeps
<1>2. s.cursor \in 0..Len(s.entries) /\ Len(s.entries) \in Nat
  <2>. HIDE DEF s
  <2>1. PICK S : s \in Histories(S)
    BY <1>1 DEF IsHistory
  <2>. QED  BY <1>1, <2>1, HistoryParts DEF HistoryIsSound, CursorIsWithin
<1>3. CASE ~ CanRedo(s)
  <2>1. r = Untouched(s, doc)
    BY <1>3 DEF Redo
  <2>. HIDE DEF r, s
  <2>2. r.replayed = <<>> /\ r.doc = doc
    BY <2>1 DEF Untouched
  <2>. QED  BY <2>2, StepsOfSteps DEF Replayed, r
<1>4. CASE CanRedo(s)
  <2>1. r = RedoEntry(s, doc)
    BY <1>4 DEF Redo
  <2>. HIDE DEF r, s
  <2>2. r.replayed = Decode(s, s.cursor + 1) /\ r.doc = Apply(r.replayed, doc)
    BY <2>1 DEF RedoEntry
  <2>3. s.cursor + 1 \in 1..Len(s.entries)
    BY <1>2, <1>4 DEF CanRedo
  <2>. QED  BY <1>1, <2>2, <2>3, DecodeIsSteps DEF Replayed, r
<1>. QED  BY <1>3, <1>4

-----------------------------------------------------------------------------
\* The range of a finite map is finite.
LEMMA ImageIsFinite ==
    ASSUME NEW S, IsFiniteSet(S), NEW f
    PROVE  IsFiniteSet({f[x] : x \in S})
<1>. DEFINE T == {f[x] : x \in S}
            g == [x \in S |-> f[x]]
<1>1. g \in Surjection(S, T)
  BY DEF Surjection
<1>. HIDE DEF g, T
<1>. QED  BY <1>1, FS_Surjection DEF T

\* SetToSeq numbers the members of a finite set.
LEMMA SetToSeqNumbers ==
    ASSUME NEW S, IsFiniteSet(S)
    PROVE  /\ Cardinality(S) \in Nat
           /\ SetToSeq(S) \in [1..Cardinality(S) -> S]
           /\ SetToSeq(S) \in Seq(S)
<1>. DEFINE n == Cardinality(S)
            Numbers(f) == f \in [1..n -> S] /\ IsInjective(f)
<1>1. n \in Nat /\ ExistsBijection(1..n, S)
  BY FS_CardinalityType
<1>. HIDE DEF n
<1>2. PICK f \in [1..n -> S] : f \in Bijection(1..n, S)
  BY <1>1 DEF ExistsBijection, Bijection, Surjection, Injection
<1>3. IsInjective(f)
  BY <1>2 DEF Bijection, Injection
<1>4. SetToSeq(S) \in [1..n -> S]
  <2>1. SetToSeq(S) = CHOOSE g \in [1..n -> S] : IsInjective(g)
    BY DEF SetToSeq, n
  <2>. QED  BY <1>3, <2>1
<1>5. SetToSeq(S) \in Seq(S)
  BY <1>1, <1>4
<1>. QED  BY <1>1, <1>4, <1>5 DEF n

\* InIdOrder goes over as many places as there are ids.
LEMMA InIdOrderIsSeq ==
    ASSUME NEW ids, IsFiniteSet(ids)
    PROVE  /\ Cardinality(ids) \in Nat
           /\ DOMAIN InIdOrder(ids) = 1..Cardinality(ids)
BY FS_CardinalityType DEF InIdOrder

\* Each of its places holds an id of its own, and each id has one: the number
\* of ids below it is its place.
LEMMA InIdOrderNumbers ==
    ASSUME NEW ids \in SUBSET Nat, IsFiniteSet(ids)
    PROVE  /\ \A k \in DOMAIN InIdOrder(ids) : InIdOrder(ids)[k] \in ids
           /\ \A i \in ids : \E k \in DOMAIN InIdOrder(ids) : InIdOrder(ids)[k] = i
           /\ IsInjective(InIdOrder(ids))
<1>. DEFINE n == Cardinality(ids)
            below(i) == {m \in ids : m < i}
            rank == [i \in ids |-> Cardinality(below(i))]
            ranks == 0..(n - 1)
<1>1. n \in Nat /\ DOMAIN InIdOrder(ids) = 1..n
  BY InIdOrderIsSeq
<1>2. ASSUME NEW i \in ids
      PROVE  /\ IsFiniteSet(below(i)) /\ Cardinality(below(i)) \in Nat
             /\ Cardinality(below(i)) < n
  <2>1. below(i) \in SUBSET ids
    OBVIOUS
  <2>2. i \notin below(i)
    OBVIOUS
  <2>. HIDE DEF below
  <2>3. IsFiniteSet(below(i))
    BY <2>1, FS_Subset
  <2>4. Cardinality(below(i)) \in Nat
    BY <2>3, FS_CardinalityType
  <2>5. Cardinality(below(i)) <= n /\ (n = Cardinality(below(i)) => ids = below(i))
    BY <2>1, FS_Subset
  <2>. QED  BY <1>1, <2>2, <2>3, <2>4, <2>5
<1>3. ASSUME NEW i \in ids, NEW j \in ids, i < j
      PROVE  Cardinality(below(i)) < Cardinality(below(j))
  <2>1. below(i) \in SUBSET below(j)
    <3>1. ASSUME NEW m \in ids, m < i PROVE m < j
      <4>1. m \in Nat /\ i \in Nat /\ j \in Nat
        OBVIOUS
      <4>. QED  BY <1>3, <3>1, <4>1
    <3>. QED  BY <3>1
  <2>2. i \in below(j) /\ i \notin below(i)
    BY <1>3
  <2>. HIDE DEF below
  <2>3. /\ Cardinality(below(i)) <= Cardinality(below(j))
        /\ Cardinality(below(j)) = Cardinality(below(i)) => below(j) = below(i)
    BY <1>2, <2>1, FS_Subset
  <2>. QED  BY <1>2, <2>2, <2>3
<1>. HIDE DEF n, below
<1>4. rank \in [ids -> ranks]
  BY <1>1, <1>2
<1>5. IsInjective(rank)
  <2>1. SUFFICES ASSUME NEW i \in ids, NEW j \in ids, rank[i] = rank[j] PROVE i = j
    BY DEF IsInjective
  <2>2. Cardinality(below(i)) = Cardinality(below(j))
    BY <2>1
  <2>. QED  BY <1>2, <1>3, <2>2
<1>6. rank \in Injection(ids, ranks)
  BY <1>4, <1>5 DEF Injection, IsInjective
<1>7. IsFiniteSet(ranks) /\ Cardinality(ranks) = n
  <2>1. n - 1 \in Int
    BY <1>1
  <2>. QED  BY <1>1, <2>1, FS_Interval
<1>8. rank \in Surjection(ids, ranks)
  <2>. HIDE DEF rank, ranks
  <2>. QED  BY <1>6, <1>7, FS_Injection DEF n
<1>9. ASSUME NEW k \in 1..n
      PROVE  /\ InIdOrder(ids)[k] \in ids
             /\ Cardinality(below(InIdOrder(ids)[k])) = k - 1
  <2>1. k - 1 \in ranks
    BY <1>1
  <2>2. PICK i \in ids : rank[i] = k - 1
    <3>. HIDE DEF rank, ranks
    <3>. QED  BY <1>8, <2>1 DEF Surjection
  <2>3. Cardinality(below(i)) = k - 1
    BY <2>2
  <2>4. InIdOrder(ids)[k] = CHOOSE m \in ids : Cardinality(below(m)) = k - 1
    BY <1>1 DEF InIdOrder, n, below
  <2>. QED  BY <2>3, <2>4
<1>10. ASSUME NEW i \in ids PROVE \E k \in 1..n : InIdOrder(ids)[k] = i
  <2>1. PICK k : k = Cardinality(below(i)) + 1
    OBVIOUS
  <2>2. k \in 1..n /\ Cardinality(below(i)) = k - 1
    BY <1>1, <1>2, <2>1
  <2>3. PICK j \in ids : j = InIdOrder(ids)[k] /\ Cardinality(below(j)) = k - 1
    BY <1>9, <2>2
  <2>4. i \in Nat /\ j \in Nat
    OBVIOUS
  <2>5. i = j
    <3>1. ~(i < j) /\ ~(j < i)
      BY <1>2, <1>3, <2>2, <2>3
    <3>. QED  BY <2>4, <3>1
  <2>. QED  BY <2>2, <2>3, <2>5
<1>11. IsInjective(InIdOrder(ids))
  <2>1. SUFFICES ASSUME NEW j \in 1..n, NEW k \in 1..n,
                        InIdOrder(ids)[j] = InIdOrder(ids)[k]
                 PROVE  j = k
    BY <1>1 DEF IsInjective
  <2>2. j - 1 = k - 1
    BY <1>9, <2>1
  <2>. QED  BY <2>2
<1>. QED  BY <1>1, <1>9, <1>10, <1>11

\* A place in the order holds an id.
LEMMA InIdOrderHoldsIds ==
    ASSUME NEW ids \in SUBSET Nat, IsFiniteSet(ids), NEW k \in DOMAIN InIdOrder(ids)
    PROVE  InIdOrder(ids)[k] \in ids
BY InIdOrderNumbers

\* Routes are finite sequences, whatever they name.
LEMMA RouteParts ==
    ASSUME NEW route, IsRoute(route)
    PROVE  /\ Len(route) \in Nat /\ DOMAIN route = 1..Len(route)
           /\ IsFiniteSet(DOMAIN route) /\ DOMAIN route \subseteq Nat
           /\ \A k \in DOMAIN route : route[k] \in ToSet(route)
           /\ route = [k \in 1..Len(route) |-> route[k]]
<1>1. /\ Len(route) \in Nat /\ DOMAIN route = 1..Len(route)
      /\ route = [k \in 1..Len(route) |-> route[k]]
  BY DEF IsRoute
<1>2. IsFiniteSet(1..Len(route))
  BY <1>1, FS_Interval
<1>3. \A k \in DOMAIN route : route[k] \in ToSet(route)
  BY DEF ToSet
<1>. QED  BY <1>1, <1>2, <1>3

\* A function of the first n numbers is a route.
LEMMA RouteMade ==
    ASSUME NEW n \in Nat, NEW route, route = [k \in 1..n |-> route[k]]
    PROVE  IsRoute(route) /\ Len(route) = n
<1>1. route \in [1..n -> ToSet(route)]
  BY DEF ToSet
<1>. HIDE DEF ToSet
<1>2. route \in Seq(ToSet(route)) /\ Len(route) = n
  BY <1>1
<1>. QED  BY <1>2 DEF IsRoute

\* Picked: what is picked of a route is a route, holds what the places held,
\* and no step twice when no two places held the same.
LEMMA PickedIsRoute ==
    ASSUME NEW route, IsRoute(route), NEW places, places \subseteq DOMAIN route
    PROVE  /\ IsRoute(Picked(route, places))
           /\ Len(Picked(route, places)) = Cardinality(places)
           /\ \A k \in DOMAIN Picked(route, places) :
                 \E j \in places : Picked(route, places)[k] = route[j]
           /\ \A j \in places : \E k \in DOMAIN Picked(route, places) :
                 Picked(route, places)[k] = route[j]
           /\ (\A i, j \in places : route[i] = route[j] => i = j)
                 => IsInjective(Picked(route, places))
<1>1. IsFiniteSet(places) /\ places \in SUBSET Nat
  BY RouteParts, FS_Subset
<1>2. PICK order : order = InIdOrder(places)
  OBVIOUS
<1>3. /\ Cardinality(places) \in Nat /\ DOMAIN order = 1..Cardinality(places)
      /\ \A k \in DOMAIN order : order[k] \in places
      /\ \A i \in places : \E k \in DOMAIN order : order[k] = i
      /\ IsInjective(order)
  BY Zenon, <1>1, <1>2, InIdOrderIsSeq, InIdOrderNumbers
<1>4. PICK p : p = Picked(route, places)
  OBVIOUS
<1>5. p = [k \in DOMAIN order |-> route[order[k]]]
  BY <1>2, <1>4 DEF Picked
<1>6. DOMAIN p = DOMAIN order /\ \A k \in DOMAIN order : p[k] = route[order[k]]
  BY <1>5
<1>7. IsRoute(p) /\ Len(p) = Cardinality(places)
  <2>1. p = [k \in 1..Cardinality(places) |-> p[k]]
    BY <1>3, <1>5
  <2>. QED  BY <1>3, <2>1, RouteMade
<1>8. (\A i, j \in places : route[i] = route[j] => i = j) => IsInjective(p)
  BY <1>3, <1>6 DEF IsInjective
<1>9. /\ \A k \in DOMAIN p : \E j \in places : p[k] = route[j]
      /\ \A j \in places : \E k \in DOMAIN p : p[k] = route[j]
  BY <1>3, <1>6
<1>. QED  BY Zenon, <1>4, <1>7, <1>8, <1>9

-----------------------------------------------------------------------------
\* Put, Drop and Merge make maps, finite ones of finite ones.
LEMMA MapsMade ==
    ASSUME NEW map, NEW more, NEW key, NEW value, NEW keys
    PROVE  /\ IsMap(Put(map, key, value)) /\ IsMap(Drop(map, keys))
           /\ IsMap(Merge(map, more))
           /\ DOMAIN Put(map, key, value) = DOMAIN map \cup {key}
           /\ DOMAIN Drop(map, keys) = DOMAIN map \ keys
           /\ DOMAIN Merge(map, more) = DOMAIN map \cup DOMAIN more
           /\ \A x \in DOMAIN map \cup {key} :
                 Put(map, key, value)[x] = IF x = key THEN value ELSE map[x]
           /\ \A x \in DOMAIN map \ keys : Drop(map, keys)[x] = map[x]
           /\ \A x \in DOMAIN map \cup DOMAIN more :
                 Merge(map, more)[x] = IF x \in DOMAIN more THEN more[x] ELSE map[x]
           /\ IsFiniteSet(DOMAIN map) =>
                 /\ IsFiniteMap(Put(map, key, value))
                 /\ IsFiniteMap(Drop(map, keys))
                 /\ IsFiniteSet(DOMAIN more) => IsFiniteMap(Merge(map, more))
<1>1. /\ DOMAIN Put(map, key, value) = DOMAIN map \cup {key}
      /\ DOMAIN Drop(map, keys) = DOMAIN map \ keys
      /\ DOMAIN Merge(map, more) = DOMAIN map \cup DOMAIN more
      /\ \A x \in DOMAIN map \cup {key} :
            Put(map, key, value)[x] = IF x = key THEN value ELSE map[x]
      /\ \A x \in DOMAIN map \ keys : Drop(map, keys)[x] = map[x]
      /\ \A x \in DOMAIN map \cup DOMAIN more :
            Merge(map, more)[x] = IF x \in DOMAIN more THEN more[x] ELSE map[x]
  BY DEF Put, Drop, Merge
<1>2. IsMap(Put(map, key, value))
  BY DEF IsMap, Put
<1>3. IsMap(Drop(map, keys))
  BY DEF IsMap, Drop
<1>4. IsMap(Merge(map, more))
  BY DEF IsMap, Merge
<1>5. ASSUME IsFiniteSet(DOMAIN map)
      PROVE  /\ IsFiniteSet(DOMAIN map \cup {key}) /\ IsFiniteSet(DOMAIN map \ keys)
             /\ IsFiniteSet(DOMAIN more) => IsFiniteSet(DOMAIN map \cup DOMAIN more)
  BY <1>5, FS_AddElement, FS_Difference, FS_Union
<1>. QED  BY <1>1, <1>2, <1>3, <1>4, <1>5 DEF IsFiniteMap

\* The same of each alone.
LEMMA PutMakes ==
    ASSUME NEW map, IsFiniteMap(map), NEW key, NEW value
    PROVE  /\ IsFiniteMap(Put(map, key, value))
           /\ DOMAIN Put(map, key, value) = DOMAIN map \cup {key}
           /\ Put(map, key, value)[key] = value
           /\ \A x \in DOMAIN map \ {key} : Put(map, key, value)[x] = map[x]
<1>1. IsMap(Put(map, key, value)) /\ DOMAIN Put(map, key, value) = DOMAIN map \cup {key}
  BY DEF IsMap, Put
<1>2. /\ Put(map, key, value)[key] = value
      /\ \A x \in DOMAIN map \ {key} : Put(map, key, value)[x] = map[x]
  BY DEF Put
<1>3. IsFiniteSet(DOMAIN map \cup {key})
  BY FS_AddElement DEF IsFiniteMap
<1>. QED  BY <1>1, <1>2, <1>3 DEF IsFiniteMap

\* ...
LEMMA DropMakes ==
    ASSUME NEW map, IsFiniteMap(map), NEW keys
    PROVE  /\ IsFiniteMap(Drop(map, keys))
           /\ DOMAIN Drop(map, keys) = DOMAIN map \ keys
           /\ \A x \in DOMAIN map \ keys : Drop(map, keys)[x] = map[x]
<1>1. IsMap(Drop(map, keys)) /\ DOMAIN Drop(map, keys) = DOMAIN map \ keys
  BY DEF IsMap, Drop
<1>2. \A x \in DOMAIN map \ keys : Drop(map, keys)[x] = map[x]
  BY DEF Drop
<1>3. IsFiniteSet(DOMAIN map \ keys)
  BY FS_Difference DEF IsFiniteMap
<1>. QED  BY <1>1, <1>2, <1>3 DEF IsFiniteMap

\* ...
LEMMA MergeMakes ==
    ASSUME NEW map, IsFiniteMap(map), NEW more, IsFiniteMap(more)
    PROVE  /\ IsFiniteMap(Merge(map, more))
           /\ DOMAIN Merge(map, more) = DOMAIN map \cup DOMAIN more
           /\ \A x \in DOMAIN more : Merge(map, more)[x] = more[x]
           /\ \A x \in DOMAIN map \ DOMAIN more : Merge(map, more)[x] = map[x]
<1>1. /\ IsMap(Merge(map, more))
      /\ DOMAIN Merge(map, more) = DOMAIN map \cup DOMAIN more
  BY DEF IsMap, Merge
<1>2. /\ \A x \in DOMAIN more : Merge(map, more)[x] = more[x]
      /\ \A x \in DOMAIN map \ DOMAIN more : Merge(map, more)[x] = map[x]
  BY DEF Merge
<1>3. IsFiniteSet(DOMAIN map \cup DOMAIN more)
  BY FS_Union DEF IsFiniteMap
<1>. QED  BY <1>1, <1>2, <1>3 DEF IsFiniteMap

\* A document is its ten parts.
DocOf(nodes, bindings, subs, stubs, place, ties, routes, selected, tabs, viewport) ==
    [nodes |-> nodes, bindings |-> bindings, subs |-> subs, stubs |-> stubs,
     place |-> place, ties |-> ties, routes |-> routes, selected |-> selected,
     tabs |-> tabs, viewport |-> viewport]
AreNodes(nodes) == IsFiniteMap(nodes) /\ DOMAIN nodes \subseteq Nat
AreStubs(stubs) ==
    /\ IsFiniteMap(stubs) /\ DOMAIN stubs \subseteq Nat
    /\ \A n \in DOMAIN stubs : IsDetached(stubs[n])
ArePlacements(place) ==
    IsFiniteMap(place) /\ \A n \in DOMAIN place : IsPlacement(place[n])

\* A document is its ten parts, each of them one.
LEMMA DocumentParts ==
    ASSUME NEW doc
    PROVE  IsDocument(doc) <=>
              /\ doc = DocOf(doc.nodes, doc.bindings, doc.subs, doc.stubs, doc.place,
                             doc.ties, doc.routes, doc.selected, doc.tabs,
                             doc.viewport)
              /\ AreNodes(doc.nodes) /\ AreStubs(doc.stubs)
              /\ ArePlacements(doc.place)
              /\ IsFiniteMap(doc.bindings) /\ IsFiniteMap(doc.ties)
              /\ AreRoutes(doc.routes)
              /\ IsFiniteSet(doc.subs) /\ IsFiniteSet(doc.selected)
BY Zenon DEF IsDocument, DocOf, AreNodes, AreStubs, ArePlacements

\* Parts of those kinds make a document.
LEMMA DocumentOfParts ==
    ASSUME NEW nodes, NEW bindings, NEW subs, NEW stubs, NEW place, NEW ties,
           NEW routes, NEW selected, NEW tabs, NEW viewport,
           AreNodes(nodes), AreStubs(stubs), ArePlacements(place),
           IsFiniteMap(bindings), IsFiniteMap(ties), AreRoutes(routes),
           IsFiniteSet(subs), IsFiniteSet(selected)
    PROVE  IsDocument(DocOf(nodes, bindings, subs, stubs, place, ties, routes,
                            selected, tabs, viewport))
<1>. DEFINE d == DocOf(nodes, bindings, subs, stubs, place, ties, routes,
                       selected, tabs, viewport)
<1>1. /\ d.nodes = nodes /\ d.bindings = bindings /\ d.subs = subs
      /\ d.stubs = stubs /\ d.place = place /\ d.ties = ties
      /\ d.routes = routes /\ d.selected = selected /\ d.tabs = tabs
      /\ d.viewport = viewport
  BY DEF DocOf
<1>2. d = DocOf(d.nodes, d.bindings, d.subs, d.stubs, d.place, d.ties, d.routes,
                d.selected, d.tabs, d.viewport)
  BY Zenon, <1>1
<1>. HIDE DEF d
<1>. QED  BY Zenon, <1>1, <1>2, DocumentParts DEF d

\* The ties and routes of a step change only ties, routes and the selection.
LEMMA WriteTiesKeeps ==
    ASSUME NEW set, NEW doc, NEW dir, IsTieSet(set), IsDocument(doc)
    PROVE  LET d == WriteTies(set, doc, dir)
           IN  /\ IsDocument(d) /\ d.nodes = doc.nodes /\ d.stubs = doc.stubs
               /\ d.place = doc.place /\ d.bindings = doc.bindings
               /\ d.subs = doc.subs
<1>. DEFINE back == IF dir = Forward THEN Backward ELSE Forward
            there == {t \in DOMAIN set.ties : Half(set.ties[t].placed, dir) # {}}
            kept == {w \in DOMAIN set.routes : Half(set.routes[w], dir) # <<>>}
            gone == DOMAIN set.ties \ there
            restored == {t \in there : /\ set.ties[t].selected
                                       /\ Half(set.ties[t].placed, back) = {}}
            routes == Merge(Drop(doc.routes, DOMAIN set.routes),
                            [w \in kept |-> Half(set.routes[w], dir)])
            ties == Merge(Drop(doc.ties, gone),
                          [t \in there |->
                              CHOOSE x \in Half(set.ties[t].placed, dir) : TRUE])
            selected == (doc.selected \ {TieItem(t) : t \in gone})
                            \cup {TieItem(t) : t \in restored}
            d == WriteTies(set, doc, dir)
<1>1. d = [doc EXCEPT !.routes = routes, !.ties = ties, !.selected = selected]
  BY Zenon DEF WriteTies
<1>2. IsFiniteSet(there)
  <2>1. there \in SUBSET Placed(set)
    BY DEF Half, Placed
  <2>. QED  BY <2>1, FS_Subset DEF IsTieSet
<1>3. AreRoutes(routes)
  <2>. DEFINE rest == Drop(doc.routes, DOMAIN set.routes)
              to == [w \in kept |-> Half(set.routes[w], dir)]
  <2>1. /\ IsMap(Merge(rest, to)) /\ DOMAIN Merge(rest, to) = DOMAIN rest \cup DOMAIN to
        /\ \A w \in DOMAIN rest \cup DOMAIN to :
              Merge(rest, to)[w] = IF w \in DOMAIN to THEN to[w] ELSE rest[w]
    <3>. HIDE DEF rest, to
    <3>. QED  BY MapsMade
  <2>2. \A w \in DOMAIN rest : IsRoute(rest[w])
    BY DEF Drop, IsDocument, AreRoutes
  <2>3. \A w \in DOMAIN to : IsRoute(to[w])
    BY DEF IsTieSet, IsRouteChange, Half
  <2>. HIDE DEF rest, to
  <2>4. \A w \in DOMAIN Merge(rest, to) : IsRoute(Merge(rest, to)[w])
    BY <2>1, <2>2, <2>3
  <2>. QED  BY Zenon, <2>1, <2>4 DEF AreRoutes, rest, to
<1>4. IsFiniteMap(ties)
  <2>. DEFINE set1 == Drop(doc.ties, gone)
              set2 == [t \in there |->
                         CHOOSE x \in Half(set.ties[t].placed, dir) : TRUE]
  <2>1. IsFiniteSet(DOMAIN set1)
    BY MapsMade DEF IsDocument, IsFiniteMap
  <2>2. IsFiniteSet(DOMAIN set2)
    BY <1>2
  <2>3. ties = Merge(set1, set2)
    OBVIOUS
  <2>. HIDE DEF set1, set2, ties
  <2>. QED  BY <2>1, <2>2, <2>3, MapsMade
<1>5. IsFiniteSet(selected)
  <2>. DEFINE item == [t \in restored |-> TieItem(t)]
  <2>1. restored \in SUBSET there
    OBVIOUS
  <2>2. IsFiniteSet({item[t] : t \in restored})
    <3>. HIDE DEF item, restored, there
    <3>1. IsFiniteSet(restored)
      BY <1>2, <2>1, FS_Subset
    <3>. QED  BY Zenon, <3>1, ImageIsFinite
  <2>3. {item[t] : t \in restored} = {TieItem(t) : t \in restored}
    OBVIOUS
  <2>4. IsFiniteSet(doc.selected \ {TieItem(t) : t \in gone})
    <3>1. IsFiniteSet(doc.selected)
      BY DEF IsDocument
    <3>. QED  BY <3>1, FS_Difference
  <2>. HIDE DEF item, restored, gone
  <2>. QED  BY <2>2, <2>3, <2>4, FS_Union
<1>. HIDE DEF routes, ties, selected, d
<1>6. d = DocOf(doc.nodes, doc.bindings, doc.subs, doc.stubs, doc.place, ties,
                routes, selected, doc.tabs, doc.viewport)
  <2>1. doc = [nodes |-> doc.nodes, bindings |-> doc.bindings, subs |-> doc.subs,
               stubs |-> doc.stubs, place |-> doc.place, ties |-> doc.ties,
               routes |-> doc.routes, selected |-> doc.selected,
               tabs |-> doc.tabs, viewport |-> doc.viewport]
    BY DEF IsDocument
  <2>. QED  BY <1>1, <2>1 DEF DocOf
<1>7. IsDocument(d)
  BY <1>3, <1>4, <1>5, <1>6, DocumentParts, DocumentOfParts
<1>8. /\ d.nodes = doc.nodes /\ d.stubs = doc.stubs /\ d.place = doc.place
      /\ d.bindings = doc.bindings /\ d.subs = doc.subs
  BY <1>6 DEF DocOf
<1>. QED  BY <1>7, <1>8 DEF d

-----------------------------------------------------------------------------
\* A placement put in place of another leaves placements.
LEMMA PutPlacement ==
    ASSUME NEW place, ArePlacements(place), NEW n, NEW p, IsPlacement(p)
    PROVE  ArePlacements(Put(place, n, p))
<1>1. /\ IsFiniteMap(Put(place, n, p)) /\ DOMAIN Put(place, n, p) = DOMAIN place \cup {n}
      /\ Put(place, n, p)[n] = p
      /\ \A x \in DOMAIN place \ {n} : Put(place, n, p)[x] = place[x]
  <2>1. IsFiniteMap(place)
    BY DEF ArePlacements
  <2>2. IsFiniteMap(Put(place, n, p))
    BY Zenon, <2>1, PutMakes
  <2>. QED  BY <2>2 DEF Put
<1>2. ASSUME NEW x \in DOMAIN Put(place, n, p) PROVE IsPlacement(Put(place, n, p)[x])
  <2>1. CASE x = n
    BY Zenon, <1>1, <2>1
  <2>2. CASE x # n
    <3>1. x \in DOMAIN place /\ Put(place, n, p)[x] = place[x]
      BY <1>1, <1>2, <2>2
    <3>. QED  BY Zenon, <3>1 DEF ArePlacements
  <2>. QED  BY <2>1, <2>2
<1>. QED  BY <1>1, <1>2 DEF ArePlacements

\* So does a placement taken out.
LEMMA DropPlacement ==
    ASSUME NEW place, ArePlacements(place), NEW keys
    PROVE  ArePlacements(Drop(place, keys))
<1>1. /\ IsFiniteMap(Drop(place, keys))
      /\ DOMAIN Drop(place, keys) = DOMAIN place \ keys
      /\ \A x \in DOMAIN place \ keys : Drop(place, keys)[x] = place[x]
  BY MapsMade DEF ArePlacements, IsFiniteMap
<1>2. ASSUME NEW x \in DOMAIN Drop(place, keys) PROVE IsPlacement(Drop(place, keys)[x])
  <2>1. x \in DOMAIN place /\ Drop(place, keys)[x] = place[x]
    BY <1>1
  <2>. QED  BY Zenon, <2>1 DEF ArePlacements
<1>. QED  BY <1>1, <1>2 DEF ArePlacements

\* The same of the stubs' records...
LEMMA PutStub ==
    ASSUME NEW stubs, AreStubs(stubs), NEW n \in Nat, NEW r, IsDetached(r)
    PROVE  AreStubs(Put(stubs, n, r))
<1>1. /\ IsFiniteMap(Put(stubs, n, r)) /\ DOMAIN Put(stubs, n, r) = DOMAIN stubs \cup {n}
      /\ Put(stubs, n, r)[n] = r
      /\ \A x \in DOMAIN stubs \ {n} : Put(stubs, n, r)[x] = stubs[x]
  <2>1. IsFiniteMap(stubs)
    BY DEF AreStubs
  <2>2. IsFiniteMap(Put(stubs, n, r))
    BY Zenon, <2>1, PutMakes
  <2>. QED  BY <2>2 DEF Put
<1>2. ASSUME NEW x \in DOMAIN Put(stubs, n, r) PROVE IsDetached(Put(stubs, n, r)[x])
  <2>1. CASE x = n
    BY Zenon, <1>1, <2>1
  <2>2. CASE x # n
    <3>1. x \in DOMAIN stubs /\ Put(stubs, n, r)[x] = stubs[x]
      BY <1>1, <1>2, <2>2
    <3>. QED  BY Zenon, <3>1 DEF AreStubs
  <2>. QED  BY <2>1, <2>2
<1>3. DOMAIN Put(stubs, n, r) \subseteq Nat
  BY <1>1 DEF AreStubs
<1>. QED  BY <1>1, <1>2, <1>3 DEF AreStubs

\* ...and of the stubs that are left.
LEMMA DropStubs ==
    ASSUME NEW stubs, AreStubs(stubs), NEW keys
    PROVE  AreStubs(Drop(stubs, keys))
<1>1. /\ IsFiniteMap(Drop(stubs, keys))
      /\ DOMAIN Drop(stubs, keys) = DOMAIN stubs \ keys
      /\ \A x \in DOMAIN stubs \ keys : Drop(stubs, keys)[x] = stubs[x]
  BY MapsMade DEF AreStubs, IsFiniteMap
<1>2. ASSUME NEW x \in DOMAIN Drop(stubs, keys) PROVE IsDetached(Drop(stubs, keys)[x])
  <2>1. x \in DOMAIN stubs /\ Drop(stubs, keys)[x] = stubs[x]
    BY <1>1
  <2>. QED  BY Zenon, <2>1 DEF AreStubs
<1>3. DOMAIN Drop(stubs, keys) \subseteq Nat
  BY <1>1 DEF AreStubs
<1>. QED  BY <1>1, <1>2, <1>3 DEF AreStubs

\* NodeEntry::restore.
LEMMA RestoreKeeps ==
    ASSUME NEW entry, NEW doc, IsEntry(entry), IsDocument(doc)
    PROVE  IsDocument(Restore(entry, doc))
<1>. DEFINE place == Put(doc.place, entry.id, entry.place)
            selected == IF entry.selected
                        THEN doc.selected \cup {NodeItem(entry.id)} ELSE doc.selected
            there == [doc EXCEPT !.place = place, !.selected = selected]
            stubs == Put(doc.stubs, entry.id, entry.detached)
            nodes == Put(doc.nodes, entry.id, entry.detached.value)
            bindings == Merge(doc.bindings, entry.detached.bindings)
            subs == doc.subs \cup entry.detached.subs
            d == Restore(entry, doc)
<1>1. /\ AreNodes(doc.nodes) /\ AreStubs(doc.stubs) /\ ArePlacements(doc.place)
      /\ IsFiniteMap(doc.bindings) /\ IsFiniteMap(doc.ties) /\ AreRoutes(doc.routes)
      /\ IsFiniteSet(doc.subs) /\ IsFiniteSet(doc.selected)
  BY Zenon, DocumentParts
<1>2. /\ entry.id \in Nat /\ IsDetached(entry.detached) /\ IsPlacement(entry.place)
      /\ IsFiniteMap(entry.detached.bindings) /\ IsFiniteSet(entry.detached.subs)
  BY DEF IsEntry, IsDetached
<1>3. ArePlacements(place)
  BY <1>1, <1>2, PutPlacement
<1>4. IsFiniteSet(selected)
  BY <1>1, FS_AddElement
<1>5. AreStubs(stubs)
  BY <1>1, <1>2, PutStub
<1>6. AreNodes(nodes)
  <2>1. IsFiniteMap(nodes) /\ DOMAIN nodes = DOMAIN doc.nodes \cup {entry.id}
    <3>1. IsFiniteMap(doc.nodes)
      BY <1>1 DEF AreNodes
    <3>2. IsFiniteMap(nodes)
      BY Zenon, <3>1, PutMakes
    <3>. QED  BY <3>2 DEF Put
  <2>. HIDE DEF nodes
  <2>. QED  BY <1>1, <1>2, <2>1 DEF AreNodes
<1>7. IsFiniteMap(bindings)
  BY <1>1, <1>2, MapsMade DEF IsFiniteMap
<1>8. IsFiniteSet(subs)
  BY <1>1, <1>2, FS_Union
<1>9. d = IF entry.home = "stubs" THEN [there EXCEPT !.stubs = Put(@, entry.id, entry.detached)]
          ELSE [there EXCEPT !.nodes = Put(@, entry.id, entry.detached.value),
                             !.bindings = Merge(@, entry.detached.bindings),
                             !.subs = @ \cup entry.detached.subs]
  BY Zenon DEF Restore
<1>10. there = [nodes |-> doc.nodes, bindings |-> doc.bindings, subs |-> doc.subs,
                stubs |-> doc.stubs, place |-> place, ties |-> doc.ties,
                routes |-> doc.routes, selected |-> selected,
                tabs |-> doc.tabs, viewport |-> doc.viewport]
  <2>. HIDE DEF place, selected
  <2>1. doc = [nodes |-> doc.nodes, bindings |-> doc.bindings, subs |-> doc.subs,
               stubs |-> doc.stubs, place |-> doc.place, ties |-> doc.ties,
               routes |-> doc.routes, selected |-> doc.selected,
               tabs |-> doc.tabs, viewport |-> doc.viewport]
    BY DEF IsDocument
  <2>2. there = [doc EXCEPT !.place = place, !.selected = selected]
    BY Zenon
  <2>. HIDE DEF there
  <2>. QED  BY <2>1, <2>2
<1>. HIDE DEF place, selected, there
<1>11. CASE entry.home = "stubs"
  <2>1. d = [there EXCEPT !.stubs = stubs]
    BY <1>9, <1>10, <1>11
  <2>. HIDE DEF d, stubs
  <2>2. d = DocOf(doc.nodes, doc.bindings, doc.subs, stubs, place, doc.ties,
                  doc.routes, selected, doc.tabs, doc.viewport)
    BY <1>10, <2>1 DEF DocOf
  <2>3. IsDocument(DocOf(doc.nodes, doc.bindings, doc.subs, stubs, place, doc.ties,
                  doc.routes, selected, doc.tabs, doc.viewport))
    BY Zenon, <1>1, <1>3, <1>4, <1>5, DocumentOfParts
  <2>. QED  BY Zenon, <2>2, <2>3 DEF d
<1>12. CASE entry.home # "stubs"
  <2>1. d = [there EXCEPT !.nodes = nodes, !.bindings = bindings, !.subs = subs]
    BY <1>9, <1>10, <1>12
  <2>. HIDE DEF d, nodes, bindings, subs
  <2>2. d = DocOf(nodes, bindings, subs, doc.stubs, place, doc.ties,
                  doc.routes, selected, doc.tabs, doc.viewport)
    BY <1>10, <2>1 DEF DocOf
  <2>3. IsDocument(DocOf(nodes, bindings, subs, doc.stubs, place, doc.ties,
                  doc.routes, selected, doc.tabs, doc.viewport))
    BY Zenon, <1>1, <1>3, <1>4, <1>6, <1>7, <1>8, DocumentOfParts
  <2>. QED  BY Zenon, <2>2, <2>3 DEF d
<1>. QED  BY <1>11, <1>12

\* Document::remove_node and remove_stub.
LEMMA TakeOutKeeps ==
    ASSUME NEW entry, NEW doc, IsDocument(doc)
    PROVE  IsDocument(TakeOut(entry, doc))
<1>. DEFINE n == entry.id
            place == Drop(doc.place, {n})
            selected == doc.selected \ {NodeItem(n)}
            nodes == Drop(doc.nodes, {n})
            stubs == Drop(doc.stubs, {n})
            bindings == Drop(doc.bindings, InputsTouching(doc.bindings, n))
            subs == doc.subs \ SubsTouching(doc.subs, n)
            tabs == doc.tabs \ {n}
            d == TakeOut(entry, doc)
<1>1. /\ AreNodes(doc.nodes) /\ AreStubs(doc.stubs) /\ ArePlacements(doc.place)
      /\ IsFiniteMap(doc.bindings) /\ IsFiniteMap(doc.ties) /\ AreRoutes(doc.routes)
      /\ IsFiniteSet(doc.subs) /\ IsFiniteSet(doc.selected)
  BY Zenon, DocumentParts
<1>2. ArePlacements(place)
  BY <1>1, DropPlacement
<1>3. IsFiniteSet(selected) /\ IsFiniteSet(subs)
  BY <1>1, FS_Difference
<1>4. AreStubs(stubs)
  BY <1>1, DropStubs
<1>5. AreNodes(nodes)
  <2>1. IsFiniteMap(nodes) /\ DOMAIN nodes = DOMAIN doc.nodes \ {n}
    BY <1>1, MapsMade DEF AreNodes, IsFiniteMap
  <2>. HIDE DEF nodes
  <2>. QED  BY <1>1, <2>1 DEF AreNodes
<1>6. IsFiniteMap(bindings)
  BY ZenonT(60), <1>1, MapsMade DEF IsFiniteMap
<1>9. doc = [nodes |-> doc.nodes, bindings |-> doc.bindings, subs |-> doc.subs,
             stubs |-> doc.stubs, place |-> doc.place, ties |-> doc.ties,
             routes |-> doc.routes, selected |-> doc.selected,
             tabs |-> doc.tabs, viewport |-> doc.viewport]
  BY DEF IsDocument
<1>7. CASE entry.home = "stubs"
  <2>1. d = [doc EXCEPT !.place = place, !.selected = selected, !.stubs = stubs]
    BY Zenon, <1>7 DEF TakeOut, RemoveStub
  <2>. HIDE DEF d, place, selected, stubs
  <2>2. d = DocOf(doc.nodes, doc.bindings, doc.subs, stubs, place, doc.ties,
                  doc.routes, selected, doc.tabs, doc.viewport)
    BY <1>9, <2>1 DEF DocOf
  <2>3. IsDocument(DocOf(doc.nodes, doc.bindings, doc.subs, stubs, place, doc.ties,
                  doc.routes, selected, doc.tabs, doc.viewport))
    BY Zenon, <1>1, <1>2, <1>3, <1>4, DocumentOfParts
  <2>. QED  BY Zenon, <2>2, <2>3 DEF d
<1>8. CASE entry.home # "stubs"
  <2>1. d = [doc EXCEPT !.place = place, !.selected = selected, !.tabs = tabs,
                        !.nodes = nodes, !.bindings = bindings, !.subs = subs]
    BY Zenon, <1>8 DEF TakeOut, RemoveNode
  <2>. HIDE DEF d, place, selected, nodes, bindings, subs, tabs
  <2>2. d = DocOf(nodes, bindings, subs, doc.stubs, place, doc.ties,
                  doc.routes, selected, tabs, doc.viewport)
    BY <1>9, <2>1 DEF DocOf
  <2>3. IsDocument(DocOf(nodes, bindings, subs, doc.stubs, place, doc.ties,
                  doc.routes, selected, tabs, doc.viewport))
    BY Zenon, <1>1, <1>2, <1>3, <1>5, <1>6, DocumentOfParts
  <2>. QED  BY Zenon, <2>2, <2>3 DEF d
<1>. QED  BY <1>7, <1>8

-----------------------------------------------------------------------------
\* What a replay or a commit owes those that read the document: one that owes
\* nothing of a kind left that side of the document as it was.
Same(before, after, folded) ==
    /\ "dirtied" \in folded \/ Content(after) = Content(before)
    /\ "nodeSet" \in folded \/ Ids(after) = Ids(before)
Covers(folded, step) ==
    /\ Dirties(step) => "dirtied" \in folded
    /\ MovesNodeSet(step) => "nodeSet" \in folded

\* A document with other placements and ties.
LEMMA PlacesAndTiesKeep ==
    ASSUME NEW doc, IsDocument(doc), NEW place, ArePlacements(place),
           NEW ties, IsFiniteMap(ties)
    PROVE  LET d == [doc EXCEPT !.place = place, !.ties = ties]
           IN  IsDocument(d) /\ d.nodes = doc.nodes /\ d.stubs = doc.stubs
<1>. DEFINE d == [doc EXCEPT !.place = place, !.ties = ties]
<1>1. /\ AreNodes(doc.nodes) /\ AreStubs(doc.stubs)
      /\ IsFiniteMap(doc.bindings) /\ AreRoutes(doc.routes)
      /\ IsFiniteSet(doc.subs) /\ IsFiniteSet(doc.selected)
  BY Zenon, DocumentParts
<1>2. doc = [nodes |-> doc.nodes, bindings |-> doc.bindings, subs |-> doc.subs,
             stubs |-> doc.stubs, place |-> doc.place, ties |-> doc.ties,
             routes |-> doc.routes, selected |-> doc.selected,
             tabs |-> doc.tabs, viewport |-> doc.viewport]
  BY DEF IsDocument
<1>3. d = DocOf(doc.nodes, doc.bindings, doc.subs, doc.stubs, place, ties,
                doc.routes, doc.selected, doc.tabs, doc.viewport)
  <2>1. d = [doc EXCEPT !.place = place, !.ties = ties]
    OBVIOUS
  <2>. HIDE DEF d
  <2>. QED  BY <1>2, <2>1 DEF DocOf
<1>4. d.nodes = doc.nodes /\ d.stubs = doc.stubs
  BY <1>3 DEF DocOf
<1>5. IsDocument(DocOf(doc.nodes, doc.bindings, doc.subs, doc.stubs, place, ties,
                       doc.routes, doc.selected, doc.tabs, doc.viewport))
  BY Zenon, <1>1, DocumentOfParts
<1>. HIDE DEF d
<1>6. IsDocument(d)
  BY Zenon, <1>3, <1>5
<1>. QED  BY <1>4, <1>6 DEF d

\* A document with other nodes, bindings and subscriptions.
HasGraph(d, doc, nodes, bindings, subs) ==
    d = DocOf(nodes, bindings, subs, doc.stubs, doc.place, doc.ties,
              doc.routes, doc.selected, doc.tabs, doc.viewport)

\* Such a document is one, and its content and ids follow the graph's.
LEMMA GraphKeeps ==
    ASSUME NEW doc, IsDocument(doc), NEW nodes, AreNodes(nodes),
           NEW bindings, IsFiniteMap(bindings), NEW subs, IsFiniteSet(subs), NEW d,
           HasGraph(d, doc, nodes, bindings, subs)
    PROVE  IsDocument(d) /\ d.nodes = nodes /\ d.stubs = doc.stubs
<1>1. /\ AreStubs(doc.stubs) /\ ArePlacements(doc.place)
      /\ IsFiniteMap(doc.ties) /\ AreRoutes(doc.routes) /\ IsFiniteSet(doc.selected)
  BY Zenon, DocumentParts
<1>2. d.nodes = nodes /\ d.stubs = doc.stubs
  BY DEF DocOf, HasGraph
<1>3. IsDocument(DocOf(nodes, bindings, subs, doc.stubs, doc.place, doc.ties,
                       doc.routes, doc.selected, doc.tabs, doc.viewport))
  BY Zenon, <1>1, DocumentOfParts
<1>. QED  BY Zenon, <1>2, <1>3 DEF HasGraph

\* A document with another selection, other tabs and another viewport.
HasView(d, doc, selected, tabs, viewport) ==
    d = DocOf(doc.nodes, doc.bindings, doc.subs, doc.stubs, doc.place, doc.ties,
              doc.routes, selected, tabs, viewport)

\* Such a document is one, of the same content and ids.
LEMMA ViewKeeps ==
    ASSUME NEW doc, IsDocument(doc), NEW selected, IsFiniteSet(selected),
           NEW tabs, NEW viewport, NEW d,
           HasView(d, doc, selected, tabs, viewport)
    PROVE  IsDocument(d) /\ Content(d) = Content(doc) /\ Ids(d) = Ids(doc)
<1>1. /\ AreNodes(doc.nodes) /\ AreStubs(doc.stubs) /\ ArePlacements(doc.place)
      /\ IsFiniteMap(doc.bindings) /\ IsFiniteMap(doc.ties) /\ AreRoutes(doc.routes)
      /\ IsFiniteSet(doc.subs)
  BY Zenon, DocumentParts
<1>2. /\ d.nodes = doc.nodes /\ d.bindings = doc.bindings /\ d.subs = doc.subs
      /\ d.stubs = doc.stubs /\ d.place = doc.place /\ d.ties = doc.ties
      /\ d.routes = doc.routes
  BY DEF DocOf, HasView
<1>3. IsDocument(DocOf(doc.nodes, doc.bindings, doc.subs, doc.stubs, doc.place,
                       doc.ties, doc.routes, selected, tabs, viewport))
  BY Zenon, <1>1, DocumentOfParts
<1>4. IsDocument(d)
  BY Zenon, <1>3 DEF HasView
<1>5. Content(d) = Content(doc) /\ Ids(d) = Ids(doc)
  BY Zenon, <1>2 DEF Content, Ids
<1>. QED  BY <1>4, <1>5

\* SetPositions::write.
LEMMA WritePositionsKeeps ==
    ASSUME NEW step, NEW doc, NEW dir, IsDocument(doc)
    PROVE  LET d == WritePositions(step, doc, dir)
           IN  IsDocument(d) /\ d.nodes = doc.nodes /\ d.stubs = doc.stubs
<1>. DEFINE to(item) == Half(step.moves[item], dir)
            place == [n \in DOMAIN doc.place |->
                IF NodeItem(n) \in DOMAIN step.moves
                THEN [doc.place[n] EXCEPT !.pos = to(NodeItem(n))] ELSE doc.place[n]]
            ties == [t \in DOMAIN doc.ties |->
                IF TieItem(t) \in DOMAIN step.moves
                THEN [doc.ties[t] EXCEPT !.pos = to(TieItem(t))] ELSE doc.ties[t]]
            d == WritePositions(step, doc, dir)
<1>1. d = [doc EXCEPT !.place = place, !.ties = ties]
  BY Zenon DEF WritePositions
<1>2. ArePlacements(doc.place) /\ IsFiniteMap(doc.ties)
  BY Zenon, DocumentParts
<1>3. IsFiniteMap(ties)
  <2>1. IsMap(ties) /\ DOMAIN ties = DOMAIN doc.ties
    BY DEF IsMap
  <2>. HIDE DEF ties
  <2>. QED  BY <1>2, <2>1 DEF IsFiniteMap
<1>4. ArePlacements(place)
  <2>1. IsMap(place) /\ DOMAIN place = DOMAIN doc.place
    BY DEF IsMap
  <2>2. ASSUME NEW n \in DOMAIN doc.place PROVE IsPlacement(place[n])
    <3>1. PICK p : p = doc.place[n]
      OBVIOUS
    <3>2. p = [pos |-> p.pos, z |-> p.z]
      BY <1>2, <3>1 DEF ArePlacements, IsPlacement
    <3>3. PICK v : v = to(NodeItem(n))
      OBVIOUS
    <3>4. place[n] = IF NodeItem(n) \in DOMAIN step.moves
                     THEN [p EXCEPT !.pos = v] ELSE p
      BY <3>1, <3>3
    <3>5. place[n] = [pos |-> v, z |-> p.z] \/ place[n] = p
      <4>. HIDE DEF place
      <4>. QED  BY <3>2, <3>4
    <3>6. PICK q : q = place[n]
      OBVIOUS
    <3>. HIDE DEF place
    <3>7. IsPlacement(q)
      BY <3>2, <3>5, <3>6 DEF IsPlacement
    <3>. QED  BY Zenon, <3>6, <3>7
  <2>. HIDE DEF place
  <2>3. IsFiniteMap(place)
    BY <1>2, <2>1 DEF IsFiniteMap, ArePlacements
  <2>. QED  BY Zenon, <2>1, <2>2, <2>3 DEF ArePlacements
<1>. HIDE DEF place, ties, d
<1>5. PICK e : e = [doc EXCEPT !.place = place, !.ties = ties]
  OBVIOUS
<1>6. IsDocument(e) /\ e.nodes = doc.nodes /\ e.stubs = doc.stubs
  BY ZenonT(60), <1>3, <1>4, <1>5, PlacesAndTiesKeep
<1>. QED  BY Zenon, <1>1, <1>5, <1>6 DEF d

\* SetInput::write: the binding, then the ties.
LEMMA WriteInputKeeps ==
    ASSUME NEW step, NEW doc, NEW dir, IsDocument(doc), IsTieSet(step.ties)
    PROVE  LET d == WriteInput(step, doc, dir)
           IN  IsDocument(d) /\ d.nodes = doc.nodes /\ d.stubs = doc.stubs
<1>. DEFINE to == Half(step.binding, dir)
            value == CHOOSE b \in to : TRUE
            bindings == IF to = {} THEN Drop(doc.bindings, {step.input})
                        ELSE Put(doc.bindings, step.input, value)
            d == WriteInput(step, doc, dir)
<1>1. AreNodes(doc.nodes) /\ IsFiniteMap(doc.bindings) /\ IsFiniteSet(doc.subs)
  BY Zenon, DocumentParts
<1>2. IsFiniteMap(bindings)
  <2>1. IsFiniteMap(Drop(doc.bindings, {step.input}))
    BY Zenon, <1>1, DropMakes
  <2>2. IsFiniteMap(Put(doc.bindings, step.input, value))
    BY Zenon, <1>1, PutMakes
  <2>. QED  BY <2>1, <2>2
<1>3. doc = [nodes |-> doc.nodes, bindings |-> doc.bindings, subs |-> doc.subs,
             stubs |-> doc.stubs, place |-> doc.place, ties |-> doc.ties,
             routes |-> doc.routes, selected |-> doc.selected,
             tabs |-> doc.tabs, viewport |-> doc.viewport]
  BY DEF IsDocument
<1>4. PICK e : e = [doc EXCEPT !.bindings = bindings]
  OBVIOUS
<1>5. d = WriteTies(step.ties, [doc EXCEPT !.bindings = bindings], dir)
  BY Zenon DEF WriteInput
<1>. HIDE DEF bindings, d
<1>6. HasGraph(e, doc, doc.nodes, bindings, doc.subs)
  BY <1>3, <1>4 DEF DocOf, HasGraph
<1>7. IsDocument(e) /\ e.nodes = doc.nodes /\ e.stubs = doc.stubs
  BY <1>1, <1>2, <1>6, GraphKeeps
<1>8. d = WriteTies(step.ties, e, dir)
  BY Zenon, <1>4, <1>5
<1>9. LET f == WriteTies(step.ties, e, dir)
      IN  IsDocument(f) /\ f.nodes = e.nodes /\ f.stubs = e.stubs
  BY <1>7, WriteTiesKeeps
<1>. QED  BY Zenon, <1>7, <1>8, <1>9 DEF d

\* SetSubscription::write.
LEMMA WriteSubscriptionKeeps ==
    ASSUME NEW step, NEW doc, NEW dir, IsDocument(doc), IsTieSet(step.ties)
    PROVE  LET d == WriteSubscription(step, doc, dir)
           IN  IsDocument(d) /\ d.nodes = doc.nodes /\ d.stubs = doc.stubs
<1>. DEFINE subs == IF Half(step.subscribed, dir) THEN doc.subs \cup {step.sub}
                    ELSE doc.subs \ {step.sub}
            d == WriteSubscription(step, doc, dir)
<1>1. AreNodes(doc.nodes) /\ IsFiniteMap(doc.bindings) /\ IsFiniteSet(doc.subs)
  BY Zenon, DocumentParts
<1>2. IsFiniteSet(subs)
  <2>1. /\ IsFiniteSet(doc.subs \cup {step.sub})
        /\ IsFiniteSet(doc.subs \ {step.sub})
    BY <1>1, FS_AddElement, FS_RemoveElement
  <2>. QED  BY Zenon, <2>1
<1>3. doc = [nodes |-> doc.nodes, bindings |-> doc.bindings, subs |-> doc.subs,
             stubs |-> doc.stubs, place |-> doc.place, ties |-> doc.ties,
             routes |-> doc.routes, selected |-> doc.selected,
             tabs |-> doc.tabs, viewport |-> doc.viewport]
  BY DEF IsDocument
<1>4. PICK e : e = [doc EXCEPT !.subs = subs]
  OBVIOUS
<1>5. d = WriteTies(step.ties, [doc EXCEPT !.subs = subs], dir)
  BY Zenon DEF WriteSubscription
<1>. HIDE DEF subs, d
<1>6. HasGraph(e, doc, doc.nodes, doc.bindings, subs)
  BY <1>3, <1>4 DEF DocOf, HasGraph
<1>7. IsDocument(e) /\ e.nodes = doc.nodes /\ e.stubs = doc.stubs
  BY <1>1, <1>2, <1>6, GraphKeeps
<1>8. d = WriteTies(step.ties, e, dir)
  BY Zenon, <1>4, <1>5
<1>9. LET f == WriteTies(step.ties, e, dir)
      IN  IsDocument(f) /\ f.nodes = e.nodes /\ f.stubs = e.stubs
  BY <1>7, WriteTiesKeeps
<1>. QED  BY Zenon, <1>7, <1>8, <1>9 DEF d

\* SetValue::write, and whatever else rewrites one node: the same nodes stay.
LEMMA WriteValueKeeps ==
    ASSUME NEW doc, NEW n, NEW v, IsDocument(doc)
    PROVE  LET d == [doc EXCEPT !.nodes[n] = v]
           IN  IsDocument(d) /\ DOMAIN d.nodes = DOMAIN doc.nodes
               /\ d.stubs = doc.stubs
<1>. DEFINE nodes == [doc.nodes EXCEPT ![n] = v]
            d == [doc EXCEPT !.nodes[n] = v]
<1>1. AreNodes(doc.nodes) /\ IsFiniteMap(doc.bindings) /\ IsFiniteSet(doc.subs)
  BY Zenon, DocumentParts
<1>2. DOMAIN nodes = DOMAIN doc.nodes /\ IsMap(nodes)
  BY DEF IsMap
<1>3. AreNodes(nodes)
  <2>. HIDE DEF nodes
  <2>. QED  BY <1>1, <1>2 DEF AreNodes, IsFiniteMap
<1>4. doc = [nodes |-> doc.nodes, bindings |-> doc.bindings, subs |-> doc.subs,
             stubs |-> doc.stubs, place |-> doc.place, ties |-> doc.ties,
             routes |-> doc.routes, selected |-> doc.selected,
             tabs |-> doc.tabs, viewport |-> doc.viewport]
  BY DEF IsDocument
<1>5. HasGraph(d, doc, nodes, doc.bindings, doc.subs)
  <2>1. d = [doc EXCEPT !.nodes = nodes]
    OBVIOUS
  <2>. HIDE DEF nodes, d
  <2>. QED  BY <1>4, <2>1 DEF DocOf, HasGraph
<1>. HIDE DEF nodes, d
<1>6. IsDocument(d) /\ d.nodes = nodes /\ d.stubs = doc.stubs
  BY <1>1, <1>3, <1>5, GraphKeeps
<1>. QED  BY Zenon, <1>2, <1>6 DEF d

\* SetDepth::write: a node's depth is no content.
LEMMA WriteDepthKeeps ==
    ASSUME NEW doc, NEW n, NEW v, IsDocument(doc)
    PROVE  LET d == [doc EXCEPT !.place[n].z = v]
           IN  IsDocument(d) /\ Content(d) = Content(doc) /\ Ids(d) = Ids(doc)
<1>. DEFINE place == [doc.place EXCEPT ![n].z = v]
            d == [doc EXCEPT !.place[n].z = v]
<1>1. /\ AreNodes(doc.nodes) /\ AreStubs(doc.stubs) /\ ArePlacements(doc.place)
      /\ IsFiniteMap(doc.bindings) /\ IsFiniteMap(doc.ties) /\ AreRoutes(doc.routes)
      /\ IsFiniteSet(doc.subs) /\ IsFiniteSet(doc.selected)
  BY Zenon, DocumentParts
<1>2. DOMAIN place = DOMAIN doc.place /\ IsMap(place)
  BY DEF IsMap
<1>3. ASSUME NEW m \in DOMAIN doc.place
      PROVE  IsPlacement(place[m]) /\ place[m].pos = doc.place[m].pos
  <2>1. PICK p : p = doc.place[m]
    OBVIOUS
  <2>2. p = [pos |-> p.pos, z |-> p.z]
    BY <1>1, <2>1 DEF ArePlacements, IsPlacement
  <2>3. place[m] = IF m = n THEN [p EXCEPT !.z = v] ELSE p
    BY <2>1
  <2>4. place[m] = [pos |-> p.pos, z |-> v] \/ place[m] = p
    <3>. HIDE DEF place
    <3>. QED  BY <2>2, <2>3
  <2>5. PICK q : q = place[m]
    OBVIOUS
  <2>. HIDE DEF place
  <2>6. IsPlacement(q) /\ q.pos = p.pos
    BY <2>2, <2>4, <2>5 DEF IsPlacement
  <2>. QED  BY Zenon, <2>1, <2>5, <2>6
<1>4. doc = [nodes |-> doc.nodes, bindings |-> doc.bindings, subs |-> doc.subs,
             stubs |-> doc.stubs, place |-> doc.place, ties |-> doc.ties,
             routes |-> doc.routes, selected |-> doc.selected,
             tabs |-> doc.tabs, viewport |-> doc.viewport]
  BY DEF IsDocument
<1>5. d = DocOf(doc.nodes, doc.bindings, doc.subs, doc.stubs, place, doc.ties,
                doc.routes, doc.selected, doc.tabs, doc.viewport)
  <2>1. d = [doc EXCEPT !.place = place]
    OBVIOUS
  <2>. HIDE DEF place, d
  <2>. QED  BY <1>4, <2>1 DEF DocOf
<1>. HIDE DEF place, d
<1>6. ArePlacements(place)
  <2>1. IsFiniteMap(place)
    BY <1>1, <1>2 DEF ArePlacements, IsFiniteMap
  <2>. QED  BY Zenon, <1>2, <1>3, <2>1 DEF ArePlacements
<1>7. IsDocument(DocOf(doc.nodes, doc.bindings, doc.subs, doc.stubs, place, doc.ties,
                       doc.routes, doc.selected, doc.tabs, doc.viewport))
  BY Zenon, <1>1, <1>6, DocumentOfParts
<1>8. IsDocument(d)
  BY Zenon, <1>5, <1>7
<1>9. /\ d.nodes = doc.nodes /\ d.bindings = doc.bindings /\ d.subs = doc.subs
      /\ d.stubs = doc.stubs /\ d.place = place /\ d.ties = doc.ties
      /\ d.routes = doc.routes
  BY <1>5 DEF DocOf
<1>10. [m \in DOMAIN d.place |-> d.place[m].pos]
         = [m \in DOMAIN doc.place |-> doc.place[m].pos]
  BY <1>2, <1>3, <1>9
<1>11. Content(d) = Content(doc)
  BY Zenon, <1>9, <1>10 DEF Content
<1>12. Ids(d) = Ids(doc)
  BY Zenon, <1>9 DEF Ids
<1>. QED  BY <1>8, <1>11, <1>12 DEF d

\* SetNode::write.
LEMMA WriteNodeKeeps ==
    ASSUME NEW step, NEW doc, NEW dir, IsDocument(doc), IsEntry(step.entry),
           IsTieSet(step.ties)
    PROVE  IsDocument(WriteNode(step, doc, dir))
<1>. DEFINE e == IF (step.edit = "insertion") = (dir = Forward)
                 THEN Restore(step.entry, doc) ELSE TakeOut(step.entry, doc)
<1>1. IsDocument(Restore(step.entry, doc)) /\ IsDocument(TakeOut(step.entry, doc))
  BY RestoreKeeps, TakeOutKeeps
<1>2. IsDocument(e)
  BY Zenon, <1>1
<1>3. WriteNode(step, doc, dir) = WriteTies(step.ties, e, dir)
  BY Zenon DEF WriteNode
<1>. HIDE DEF e
<1>4. LET f == WriteTies(step.ties, e, dir) IN IsDocument(f)
  BY <1>2, WriteTiesKeeps
<1>. QED  BY Zenon, <1>3, <1>4

\* UndoStep::write: a document stays one, a step that is navigation leaves its
\* content, and one that moves no node leaves its node set.
LEMMA WriteKeeps ==
    ASSUME NEW step, NEW doc, NEW dir, NEW folded, IsStep(step), IsDocument(doc),
           Covers(folded, step)
    PROVE  LET d == Write(step, doc, dir)
           IN  IsDocument(d) /\ Same(doc, d, folded)
<1>. DEFINE d == Write(step, doc, dir)
<1>1. CASE step.kind = "node"
  <2>1. d = WriteNode(step, doc, dir)
    BY <1>1 DEF Write
  <2>2. IsEntry(step.entry) /\ IsTieSet(step.ties)
    BY <1>1 DEF IsStep
  <2>3. "dirtied" \in folded /\ "nodeSet" \in folded
    BY <1>1 DEF Covers, Dirties, MovesNodeSet
  <2>. QED  BY Zenon, <2>1, <2>2, <2>3, WriteNodeKeeps DEF Same
<1>2. ASSUME step.kind \notin {"node", "selection", "depth"},
             IsDocument(d), DOMAIN d.nodes = DOMAIN doc.nodes, d.stubs = doc.stubs
      PROVE  IsDocument(d) /\ Same(doc, d, folded)
  <2>1. "dirtied" \in folded
    BY <1>2 DEF Covers, Dirties
  <2>2. Ids(d) = Ids(doc)
    BY Zenon, <1>2 DEF Ids
  <2>. QED  BY Zenon, <1>2, <2>1, <2>2 DEF Same
<1>3. CASE step.kind = "positions"
  <2>1. d = WritePositions(step, doc, dir)
    BY <1>3 DEF Write
  <2>2. LET f == WritePositions(step, doc, dir)
        IN  IsDocument(f) /\ f.nodes = doc.nodes /\ f.stubs = doc.stubs
    BY WritePositionsKeeps
  <2>3. step.kind \notin {"node", "selection", "depth"}
    BY <1>3
  <2>. QED  BY Zenon, <1>2, <2>1, <2>2, <2>3
<1>4. CASE step.kind = "input"
  <2>1. d = WriteInput(step, doc, dir)
    BY <1>4 DEF Write
  <2>2. IsTieSet(step.ties)
    BY <1>4 DEF IsStep
  <2>3. LET f == WriteInput(step, doc, dir)
        IN  IsDocument(f) /\ f.nodes = doc.nodes /\ f.stubs = doc.stubs
    BY <2>2, WriteInputKeeps
  <2>4. step.kind \notin {"node", "selection", "depth"}
    BY <1>4
  <2>. QED  BY Zenon, <1>2, <2>1, <2>3, <2>4
<1>5. CASE step.kind = "subscription"
  <2>1. d = WriteSubscription(step, doc, dir)
    BY <1>5 DEF Write
  <2>2. IsTieSet(step.ties)
    BY <1>5 DEF IsStep
  <2>3. LET f == WriteSubscription(step, doc, dir)
        IN  IsDocument(f) /\ f.nodes = doc.nodes /\ f.stubs = doc.stubs
    BY <2>2, WriteSubscriptionKeeps
  <2>4. step.kind \notin {"node", "selection", "depth"}
    BY <1>5
  <2>. QED  BY Zenon, <1>2, <2>1, <2>3, <2>4
<1>6. CASE step.kind = "ties"
  <2>1. d = WriteTies(step.set, doc, dir)
    BY <1>6 DEF Write
  <2>2. IsTieSet(step.set)
    BY <1>6 DEF IsStep
  <2>3. LET f == WriteTies(step.set, doc, dir)
        IN  IsDocument(f) /\ f.nodes = doc.nodes /\ f.stubs = doc.stubs
    BY <2>2, WriteTiesKeeps
  <2>4. step.kind \notin {"node", "selection", "depth"}
    BY <1>6
  <2>. QED  BY Zenon, <1>2, <2>1, <2>3, <2>4
<1>7. CASE step.kind = "value"
  <2>1. d = [doc EXCEPT !.nodes[step.id] = Half(step.value, dir)]
    BY <1>7 DEF Write
  <2>2. PICK v : v = Half(step.value, dir)
    OBVIOUS
  <2>3. LET f == [doc EXCEPT !.nodes[step.id] = v]
        IN  /\ IsDocument(f) /\ DOMAIN f.nodes = DOMAIN doc.nodes
            /\ f.stubs = doc.stubs
    BY Zenon, WriteValueKeeps
  <2>4. step.kind \notin {"node", "selection", "depth"}
    BY <1>7
  <2>. QED  BY Zenon, <1>2, <2>1, <2>2, <2>3, <2>4
<1>8. CASE step.kind = "selection"
  <2>1. PICK selected : selected = Toggle(doc.selected, step.toggled)
    OBVIOUS
  <2>2. d = [doc EXCEPT !.selected = selected]
    BY <1>8, <2>1 DEF Write
  <2>3. IsFiniteSet(doc.selected) /\ IsFiniteSet(step.toggled)
    BY <1>8 DEF IsStep, IsDocument
  <2>4. IsFiniteSet(selected)
    <3>1. /\ IsFiniteSet(doc.selected \ step.toggled)
          /\ IsFiniteSet(step.toggled \ doc.selected)
      BY <2>3, FS_Difference
    <3>. QED  BY <2>1, <3>1, FS_Union DEF Toggle
  <2>5. doc = [nodes |-> doc.nodes, bindings |-> doc.bindings, subs |-> doc.subs,
             stubs |-> doc.stubs, place |-> doc.place, ties |-> doc.ties,
             routes |-> doc.routes, selected |-> doc.selected,
             tabs |-> doc.tabs, viewport |-> doc.viewport]
    BY DEF IsDocument
  <2>. HIDE DEF d
  <2>6. HasView(d, doc, selected, doc.tabs, doc.viewport)
    BY <2>2, <2>5 DEF HasView, DocOf
  <2>7. IsDocument(d) /\ Content(d) = Content(doc) /\ Ids(d) = Ids(doc)
    BY <2>4, <2>6, ViewKeeps
  <2>9. IsDocument(d) /\ Same(doc, d, folded)
    BY Zenon, <2>7 DEF Same
  <2>. QED  BY Zenon, <2>9 DEF d
<1>9. CASE step.kind = "depth"
  <2>1. d = [doc EXCEPT !.place[step.id].z = Half(step.z, dir)]
    BY <1>9 DEF Write
  <2>2. PICK v : v = Half(step.z, dir)
    OBVIOUS
  <2>3. LET f == [doc EXCEPT !.place[step.id].z = v]
        IN  IsDocument(f) /\ Content(f) = Content(doc) /\ Ids(f) = Ids(doc)
    BY Zenon, WriteDepthKeeps
  <2>. QED  BY Zenon, <2>1, <2>2, <2>3 DEF Same
<1>. QED  BY <1>1, <1>3, <1>4, <1>5, <1>6, <1>7, <1>8, <1>9 DEF IsStep, Kinds

-----------------------------------------------------------------------------
\* A replay leaves a document, changed as its steps say.
LEMMA SameAfter ==
    ASSUME NEW a, NEW b, NEW c, NEW folded, Same(a, b, folded), Same(b, c, folded)
    PROVE  Same(a, c, folded) /\ Same(a, a, folded)
  BY Zenon DEF Same

\* What steps signal covers each of them.
LEMMA SignalsCover ==
    ASSUME NEW steps, NEW k \in DOMAIN steps
    PROVE  Covers(SignalsOf(steps), steps[k])
  BY DEF SignalsOf, Covers

ReplayBody(dir, doc, step) == Write(step, doc, dir)
Replay == INSTANCE Recursion WITH Body <- ReplayBody
CoverAll(folded, steps) == \A k \in DOMAIN steps : Covers(folded, steps[k])

\* Steps replayed one by one leave a document, changed as they say.
LEMMA ReplayKeeps ==
    ASSUME NEW steps, IsSteps(steps), NEW doc, IsDocument(doc), NEW dir,
           NEW folded, CoverAll(folded, steps)
    PROVE  LET d == Replay!FoldOf(dir, doc, steps)
           IN  IsDocument(d) /\ Same(doc, d, folded)
<1>1. /\ Len(steps) \in Nat /\ DOMAIN steps = 1..Len(steps)
      /\ \A k \in 1..Len(steps) : IsStep(steps[k])
  BY StepsOfSteps
<1>. DEFINE n == Len(steps)
<1>2. PICK f : Replay!Unfolds(f, dir, doc, steps, n)
  BY <1>1, Replay!FoldUnfolds
<1>3. /\ Replay!FoldOf(dir, doc, steps) = f[1..n]
      /\ f[{}] = doc
      /\ \A k \in 1..n : f[1..k] = Write(steps[k], f[1..(k - 1)], dir)
  BY <1>2 DEF Replay!Unfolds, ReplayBody
<1>. DEFINE I == {k \in 0..n : IsDocument(f[1..k]) /\ Same(doc, f[1..k], folded)}
<1>4. 0 \in I
  <2>1. 1..0 = {} /\ 0 \in 0..n
    BY <1>1
  <2>2. Same(doc, doc, folded)
    BY DEF Same
  <2>. QED  BY <1>3, <2>1, <2>2
<1>5. ASSUME NEW k \in 1..n, k - 1 \in I PROVE k \in I
  <2>1. PICK x : x = f[1..(k - 1)]
    OBVIOUS
  <2>2. IsDocument(x) /\ Same(doc, x, folded) /\ k \in 0..n
    BY <1>1, <1>5, <2>1
  <2>3. PICK step : step = steps[k]
    OBVIOUS
  <2>4. IsStep(step) /\ Covers(folded, step)
    BY <1>1, <2>3 DEF CoverAll
  <2>5. LET d == Write(step, x, dir) IN IsDocument(d) /\ Same(x, d, folded)
    BY <2>2, <2>4, WriteKeeps
  <2>6. PICK y : y = Write(step, x, dir)
    OBVIOUS
  <2>7. IsDocument(y) /\ Same(x, y, folded)
    BY Zenon, <2>5, <2>6
  <2>8. Same(doc, y, folded)
    BY Zenon, <2>2, <2>7, SameAfter
  <2>9. f[1..k] = y
    BY <1>3, <2>1, <2>3, <2>6
  <2>. QED  BY <2>2, <2>7, <2>8, <2>9
<1>6. n \in I
  <2>. HIDE DEF I
  <2>. QED  BY <1>1, <1>4, <1>5, Replay!StepsReach
<1>. QED  BY <1>3, <1>6

\* UndoHistory::replay forward, a redo...
LEMMA ApplyKeeps ==
    ASSUME NEW steps, IsSteps(steps), NEW doc, IsDocument(doc),
           NEW folded, CoverAll(folded, steps)
    PROVE  LET d == Apply(steps, doc)
           IN  IsDocument(d) /\ Same(doc, d, folded)
<1>1. Apply(steps, doc) = Replay!FoldOf(Forward, doc, steps)
  BY Zenon DEF Apply, Replay!FoldOf, Replay!IsFolding, Replay!Largest, ReplayBody,
               FoldLeft, MapThenFoldSet, Max
<1>2. LET d == Replay!FoldOf(Forward, doc, steps)
      IN  IsDocument(d) /\ Same(doc, d, folded)
  BY ReplayKeeps
<1>. QED  BY Zenon, <1>1, <1>2

\* ...and backward, an undo or an Esc, newest step first.
LEMMA RevertKeeps ==
    ASSUME NEW steps, IsSteps(steps), NEW doc, IsDocument(doc),
           NEW folded, CoverAll(folded, steps)
    PROVE  LET d == Revert(steps, doc)
           IN  IsDocument(d) /\ Same(doc, d, folded)
<1>. DEFINE back == Reverse(steps)
<1>1. Revert(steps, doc) = Replay!FoldOf(Backward, doc, back)
  BY Zenon DEF Revert, Replay!FoldOf, Replay!IsFolding, Replay!Largest, ReplayBody,
               FoldLeft, MapThenFoldSet, Max
<1>2. PICK S : AreSteps(S) /\ steps \in Seq(S)
  BY DEF IsSteps
<1>3. Len(steps) \in Nat /\ DOMAIN steps = 1..Len(steps)
  BY <1>2
<1>4. /\ back \in Seq(S) /\ Len(back) = Len(steps)
      /\ \A k \in 1..Len(steps) : back[k] = steps[Len(steps) - k + 1]
  BY <1>2, <1>3 DEF Reverse
<1>. HIDE DEF back
<1>5. IsSteps(back)
  BY <1>2, <1>4 DEF IsSteps
<1>6. CoverAll(folded, back)
  <2>1. ASSUME NEW k \in DOMAIN back PROVE Covers(folded, back[k])
    <3>1. /\ Len(steps) - k + 1 \in DOMAIN steps
          /\ back[k] = steps[Len(steps) - k + 1]
      BY <1>3, <1>4
    <3>. QED  BY Zenon, <3>1 DEF CoverAll
  <2>. QED  BY <2>1 DEF CoverAll
<1>7. LET d == Replay!FoldOf(Backward, doc, back)
      IN  IsDocument(d) /\ Same(doc, d, folded)
  BY <1>5, <1>6, ReplayKeeps
<1>. QED  BY Zenon, <1>1, <1>7

\* What an undo, a redo or a withdrawn gesture answers.
LEMMA ReplayedKeeps ==
    ASSUME NEW answer, NEW doc, IsDocument(doc),
           \/ Replayed(answer, doc, Revert(answer.replayed, doc))
           \/ Replayed(answer, doc, Apply(answer.replayed, doc))
    PROVE  /\ IsDocument(answer.doc)
           /\ Same(doc, answer.doc, SignalsOf(answer.replayed))
<1>. DEFINE folded == SignalsOf(answer.replayed)
<1>1. IsSteps(answer.replayed)
  BY DEF Replayed
<1>2. CoverAll(folded, answer.replayed)
  BY SignalsCover DEF CoverAll
<1>. HIDE DEF folded
<1>3. CASE answer.doc = Revert(answer.replayed, doc)
  <2>1. LET d == Revert(answer.replayed, doc)
        IN  IsDocument(d) /\ Same(doc, d, folded)
    BY <1>1, <1>2, RevertKeeps
  <2>. QED  BY Zenon, <1>3, <2>1 DEF folded
<1>4. CASE answer.doc = Apply(answer.replayed, doc)
  <2>1. LET d == Apply(answer.replayed, doc)
        IN  IsDocument(d) /\ Same(doc, d, folded)
    BY <1>1, <1>2, ApplyKeeps
  <2>. QED  BY Zenon, <1>4, <2>1 DEF folded
<1>5. CASE answer.doc = doc
  BY Zenon, <1>5 DEF Same
<1>. QED  BY Zenon, <1>3, <1>4, <1>5 DEF Replayed

\* An Esc's answer is a replay too.
LEMMA WithdrawReplays ==
    ASSUME NEW h, IsHistory(h), HistoryIsSound(h), NEW doc, NEW gesture
    PROVE  LET w == Withdraw(h, doc, gesture)
           IN  Replayed(w, doc, Revert(w.replayed, doc))
<1>. DEFINE w == Withdraw(h, doc, gesture)
<1>1. CASE IsOpenFor(h, gesture)
  <2>1. w = Withdrawn(h, doc)
    BY <1>1 DEF Withdraw
  <2>. HIDE DEF w
  <2>2. w.replayed = OpenSteps(h) /\ w.doc = Revert(w.replayed, doc)
    BY <2>1 DEF Withdrawn
  <2>. QED  BY <2>2, OpenStepsAreSteps DEF Replayed, w
<1>2. CASE ~IsOpenFor(h, gesture)
  <2>1. w = Untouched(h, doc)
    BY <1>2 DEF Withdraw
  <2>. HIDE DEF w
  <2>2. w.replayed = <<>> /\ w.doc = doc
    BY <2>1 DEF Untouched
  <2>. QED  BY <2>2, StepsOfSteps DEF Replayed, w
<1>. QED  BY <1>1, <1>2

-----------------------------------------------------------------------------
\* A draft of finitely many ties, whatever routes it changes.
IsDraft(draft) ==
    /\ draft = [ties |-> draft.ties, routes |-> draft.routes]
    /\ IsFiniteSet(DOMAIN draft.ties)
    /\ \A w \in DOMAIN draft.routes : IsRoute(draft.routes[w])

\* The route of a wire, as the document or a draft of it has it, is one.
LEMMA RoutesRead ==
    ASSUME NEW doc, IsDocument(doc)
    PROVE  /\ IsRoute(<<>>)
           /\ \A w : IsRoute(RouteIn(doc, w))
           /\ \A draft, w : IsDraft(draft) => IsRoute(DraftRoute(doc, draft, w))
<1>1. IsRoute(<<>>)
  BY DEF IsRoute
<1>2. \A w \in DOMAIN doc.routes : IsRoute(doc.routes[w])
  BY Zenon DEF IsDocument, AreRoutes
<1>3. \A w : IsRoute(RouteIn(doc, w))
  BY Zenon, <1>1, <1>2 DEF RouteIn
<1>4. \A draft, w : IsDraft(draft) => IsRoute(DraftRoute(doc, draft, w))
  BY Zenon, <1>1, <1>2 DEF DraftRoute, IsDraft
<1>. QED  BY <1>1, <1>3, <1>4

\* TiesDraft::finish: what it changes of the ties is in the draft or goes bare.
LEMMA FinishIsTieSet ==
    ASSUME NEW doc, IsDocument(doc), NEW draft, IsDraft(draft)
    PROVE  IsTieSet(Finish(doc, draft))
<1>. DEFINE named == UNION {ToSet(RouteIn(doc, w)) : w \in DOMAIN draft.routes}
            bare  == {t \in named \ DOMAIN draft.ties : ~Routed(doc, draft, t)}
            after == Merge(draft.ties, [t \in bare |-> {}])
            ties == [t \in DOMAIN after |->
                        [placed   |-> Change(TieIn(doc, t), after[t]),
                         selected |-> TieItem(t) \in doc.selected]]
            set == Finish(doc, draft)
<1>1. set.ties = ties /\ set = [ties |-> set.ties, routes |-> set.routes]
  <2>1. PICK routes : routes = [w \in DOMAIN draft.routes |->
                                  Change(RouteIn(doc, w), draft.routes[w])]
    OBVIOUS
  <2>2. set = [ties |-> ties, routes |-> routes]
    BY Zenon, <2>1 DEF Finish
  <2>. HIDE DEF ties, set
  <2>. QED  BY <2>2
<1>2. ASSUME NEW t \in DOMAIN ties
      PROVE  /\ IsTieChange(ties[t])
             /\ ties[t].placed.from = TieIn(doc, t)
             /\ ties[t].placed.to = after[t]
  <2>. HIDE DEF after
  <2>1. PICK c : c = ties[t]
    OBVIOUS
  <2>2. PICK s : s = (TieItem(t) \in doc.selected)
    OBVIOUS
  <2>3. c = [placed |-> [from |-> TieIn(doc, t), to |-> after[t]], selected |-> s]
    BY <2>1, <2>2 DEF Change
  <2>4. /\ c.placed.from = TieIn(doc, t) /\ c.placed.to = after[t]
        /\ c.selected = s
    BY <2>3
  <2>5. IsTieChange(c)
    BY <2>3, <2>4 DEF IsTieChange
  <2>. QED  BY Zenon, <2>1, <2>4, <2>5
<1>3. DOMAIN ties = DOMAIN draft.ties \cup bare
  BY DEF Merge
<1>4. \A t \in DOMAIN ties : t \notin DOMAIN draft.ties => after[t] = {}
  <2>. HIDE DEF bare
  <2>. QED  BY <1>3 DEF Merge
<1>. HIDE DEF ties, after, bare, set
<1>5. Placed(set) \subseteq DOMAIN doc.ties \cup DOMAIN draft.ties
  BY <1>1, <1>2, <1>4 DEF Placed, TieIn
<1>6. IsFiniteSet(Placed(set))
  <2>1. IsFiniteSet(DOMAIN doc.ties) /\ IsFiniteSet(DOMAIN draft.ties)
    BY DEF IsDocument, IsFiniteMap, IsDraft
  <2>2. IsFiniteSet(DOMAIN doc.ties \cup DOMAIN draft.ties)
    BY <2>1, FS_Union
  <2>. QED  BY <1>5, <2>2, FS_Subset
<1>7. \A w \in DOMAIN set.routes : IsRouteChange(set.routes[w])
  <2>1. SUFFICES ASSUME NEW w \in DOMAIN set.routes PROVE IsRouteChange(set.routes[w])
    OBVIOUS
  <2>2. w \in DOMAIN draft.routes /\ set.routes[w] = Change(RouteIn(doc, w), draft.routes[w])
    BY DEF set, Finish
  <2>3. PICK c : c = Change(RouteIn(doc, w), draft.routes[w])
    OBVIOUS
  <2>4. c = [from |-> c.from, to |-> c.to] /\ c.from = RouteIn(doc, w) /\ c.to = draft.routes[w]
    BY <2>3 DEF Change
  <2>5. IsRoute(c.from)
    BY <2>4, RoutesRead
  <2>6. IsRoute(c.to)
    BY <2>2, <2>4 DEF IsDraft
  <2>7. IsRouteChange(c)
    BY Zenon, <2>4, <2>5, <2>6 DEF IsRouteChange
  <2>. QED  BY Zenon, <2>2, <2>3, <2>7
<1>. QED  BY Zenon, <1>1, <1>2, <1>6, <1>7 DEF IsTieSet, set

\* The drafts the intents make.
LEMMA DraftsMade ==
    /\ IsDraft(NewDraft)
    /\ \A draft, more : IsDraft(draft) /\ (\A w \in DOMAIN more : IsRoute(more[w])) =>
          IsDraft([draft EXCEPT !.routes = Merge(@, more)])
    /\ \A draft, tie, to : IsDraft(draft) => IsDraft(SetTie(draft, tie, to))
<1>1. IsDraft(NewDraft)
  BY FS_EmptySet DEF IsDraft, NewDraft, Nothing
<1>2. ASSUME NEW draft, NEW more, IsDraft(draft),
             \A w \in DOMAIN more : IsRoute(more[w])
      PROVE  IsDraft([draft EXCEPT !.routes = Merge(@, more)])
  <2>1. PICK d : d = [draft EXCEPT !.routes = Merge(@, more)]
    OBVIOUS
  <2>2. PICK routes : routes = Merge(draft.routes, more)
    OBVIOUS
  <2>3. d = [ties |-> draft.ties, routes |-> routes]
    BY <1>2, <2>1, <2>2 DEF IsDraft
  <2>4. \A w \in DOMAIN routes : IsRoute(routes[w])
    <3>1. /\ DOMAIN routes = DOMAIN draft.routes \cup DOMAIN more
          /\ \A w \in DOMAIN routes :
                routes[w] = IF w \in DOMAIN more THEN more[w] ELSE draft.routes[w]
      BY <2>2 DEF Merge
    <3>. QED  BY <1>2, <3>1 DEF IsDraft
  <2>5. IsDraft(d)
    <3>1. d.ties = draft.ties /\ d.routes = routes
      BY <2>3
    <3>. QED  BY Zenon, <1>2, <2>3, <2>4, <3>1 DEF IsDraft
  <2>. QED  BY Zenon, <2>1, <2>5
<1>3. ASSUME NEW draft, NEW tie, NEW to, IsDraft(draft)
      PROVE  IsDraft(SetTie(draft, tie, to))
  <2>1. PICK ties : ties = Put(draft.ties, tie, to)
    OBVIOUS
  <2>2. PICK d : d = SetTie(draft, tie, to)
    OBVIOUS
  <2>3. d = [ties |-> ties, routes |-> draft.routes]
    BY <1>3, <2>1, <2>2 DEF IsDraft, SetTie
  <2>4. DOMAIN ties = DOMAIN draft.ties \cup {tie}
    BY <2>1 DEF Put
  <2>5. IsFiniteSet(DOMAIN ties)
    BY <1>3, <2>4, FS_AddElement DEF IsDraft
  <2>6. IsDraft(d)
    BY <1>3, <2>3, <2>5 DEF IsDraft
  <2>. QED  BY Zenon, <2>2, <2>6
<1>. QED  BY Zenon, <1>1, <1>2, <1>3

\* A tie put into a route, or taken out of it, leaves a route.
LEMMA RoutesMade ==
    ASSUME NEW route, IsRoute(route), NEW tie
    PROVE  /\ IsRoute(Without(route, tie))
           /\ \A k \in Nat : IsRoute(InsertAt(route, k + 1, tie))
<1>1. IsRoute(Without(route, tie))
  <2>1. PICK places : places = {k \in DOMAIN route : route[k] # tie}
    OBVIOUS
  <2>2. places \subseteq DOMAIN route
    BY <2>1
  <2>3. IsRoute(Picked(route, places))
    BY Zenon, <2>2, PickedIsRoute
  <2>. QED  BY Zenon, <2>1, <2>3 DEF Without
<1>2. ASSUME NEW k \in Nat PROVE IsRoute(InsertAt(route, k + 1, tie))
  <2>1. Len(route) \in Nat
    BY RouteParts
  <2>2. PICK S : S = ToSet(route) \cup {tie} \cup {route[j] : j \in 1..k}
    OBVIOUS
  <2>3. PICK a : a = SubSeq(route, 1, k + 1 - 1)
    OBVIOUS
  <2>4. PICK z : z = SubSeq(route, k + 1, Len(route))
    OBVIOUS
  <2>5. a \in Seq(S)
    <3>1. a = [j \in 1..k |-> route[j]]
      BY <2>3 DEF IsRoute
    <3>2. a \in [1..k -> S]
      BY <2>2, <3>1
    <3>. QED  BY <3>2
  <2>6. z \in Seq(S)
    <3>1. \A j \in 1..Len(route) : route[j] \in S
      BY <2>2, RouteParts
    <3>2. route \in Seq(S)
      BY <2>1, <3>1, RouteParts
    <3>. QED  BY <2>1, <2>4, <3>2
  <2>7. <<tie>> \in Seq(S)
    BY <2>2
  <2>8. PICK r : r = InsertAt(route, k + 1, tie)
    OBVIOUS
  <2>9. r \in Seq(S)
    BY <2>3, <2>4, <2>5, <2>6, <2>7, <2>8 DEF InsertAt
  <2>10. r = [j \in 1..Len(r) |-> r[j]] /\ Len(r) \in Nat
    BY <2>9
  <2>11. IsRoute(r)
    BY Zenon, <2>10, RouteMade
  <2>. QED  BY Zenon, <2>8, <2>11
<1>. QED  BY <1>1, <1>2

\* The wires a tie is drawn across, each with the piece it crosses.
ArePieces(wires) == \A w \in DOMAIN wires : wires[w] \in Nat

\* Releasing wires, leaving a tie and inserting routes change only routes.
LEMMA RoutesOnly ==
    ASSUME NEW doc, IsDocument(doc), NEW draft, IsDraft(draft), NEW wires, NEW tie
    PROVE  /\ IsDraft(Release(doc, draft, wires))
           /\ IsDraft(Leave(doc, draft, wires, tie))
           /\ ArePieces(wires) => IsDraft(InsertRoutes(doc, draft, tie, wires))
           /\ IsDraft(RemoveTie(doc, draft, tie))
<1>1. \A more : (\A w \in DOMAIN more : IsRoute(more[w])) =>
         IsDraft([draft EXCEPT !.routes = Merge(@, more)])
  BY Zenon, DraftsMade
<1>2. IsDraft(Release(doc, draft, wires))
  <2>1. PICK routed : routed = {w \in wires : DraftRoute(doc, draft, w) # <<>>}
    OBVIOUS
  <2>2. PICK more : more = [w \in routed |-> <<>>]
    OBVIOUS
  <2>3. \A w \in DOMAIN more : IsRoute(more[w])
    BY <2>2, RoutesRead
  <2>. QED  BY Zenon, <1>1, <2>1, <2>2, <2>3 DEF Release
<1>3. ASSUME NEW W PROVE IsDraft(Leave(doc, draft, W, tie))
  <2>1. PICK more : more = [w \in W |-> Without(DraftRoute(doc, draft, w), tie)]
    OBVIOUS
  <2>2. \A w : IsRoute(Without(DraftRoute(doc, draft, w), tie))
    BY Zenon, RoutesRead, RoutesMade
  <2>3. \A w \in DOMAIN more : IsRoute(more[w])
    BY <2>1, <2>2
  <2>. QED  BY Zenon, <1>1, <2>1, <2>3 DEF Leave
<1>4. ASSUME ArePieces(wires) PROVE IsDraft(InsertRoutes(doc, draft, tie, wires))
  <2>1. PICK more : more = [w \in DOMAIN wires |->
                             InsertAt(DraftRoute(doc, draft, w), wires[w] + 1, tie)]
    OBVIOUS
  <2>2. \A w \in DOMAIN wires :
           IsRoute(InsertAt(DraftRoute(doc, draft, w), wires[w] + 1, tie))
    BY Zenon, <1>4, RoutesRead, RoutesMade DEF ArePieces
  <2>3. \A w \in DOMAIN more : IsRoute(more[w])
    BY <2>1, <2>2
  <2>. QED  BY Zenon, <1>1, <2>1, <2>3 DEF InsertRoutes
<1>5. IsDraft(RemoveTie(doc, draft, tie))
  BY Zenon, <1>3, DraftsMade DEF RemoveTie
<1>. QED  BY Zenon, <1>2, <1>3, <1>4, <1>5

-----------------------------------------------------------------------------
\* An intent as the program raises one.
StepOps ==
    {"addNode", "removeNode", "moveSelection", "setInput", "setSelection",
     "raise", "setValue", "setSubscription", "tieWires", "joinTie",
     "removeTie", "setTieAngle", "releaseWire"}
IsIntent(intent) ==
    /\ intent.op \in StepOps \cup {"setViewport"}
    /\ GestureOf(intent) = {} \/ \E id \in Nat : GestureOf(intent) = {id}
    /\ intent.op = "addNode" =>
          intent.id \in Nat /\ IsFiniteMap(intent.bindings)
    /\ intent.op = "setSelection" => IsFiniteSet(intent.to)
    /\ intent.op \in {"tieWires", "joinTie"} => ArePieces(intent.wires)

\* A step of ties alone, and one of another kind that carries ties.
LEMMA TiesStepIsStep ==
    ASSUME NEW set, IsTieSet(set)
    PROVE  IsStep([kind |-> "ties", set |-> set])
<1>1. PICK s : s = [kind |-> "ties", set |-> set]
  OBVIOUS
<1>2. s.kind = "ties" /\ s.set = set /\ s = [kind |-> "ties", set |-> s.set]
  BY <1>1
<1>3. IsStep(s)
  BY <1>2 DEF IsStep, Kinds
<1>. QED  BY Zenon, <1>1, <1>3

\* NodeEntry::capture: what the document holds of a node it places.
LEMMA CaptureIsEntry ==
    ASSUME NEW doc, IsDocument(doc), NEW n \in Ids(doc), n \in DOMAIN doc.place
    PROVE  IsEntry(Capture(doc, n)) /\ Capture(doc, n).id = n
<1>. DEFINE e == Capture(doc, n)
<1>1. /\ AreNodes(doc.nodes) /\ AreStubs(doc.stubs) /\ ArePlacements(doc.place)
      /\ IsFiniteMap(doc.bindings) /\ IsFiniteSet(doc.subs)
  BY Zenon, DocumentParts
<1>2. /\ e.id = n /\ e.place = doc.place[n]
      /\ e.detached = IF n \in DOMAIN doc.nodes THEN Snapshot(doc, n)
                      ELSE doc.stubs[n]
  BY DEF Capture
<1>3. n \in Nat
  BY <1>1 DEF AreNodes, AreStubs, Ids
<1>4. IsDetached(Snapshot(doc, n))
  <2>1. PICK r : r = Snapshot(doc, n)
    OBVIOUS
  <2>2. PICK bindings : bindings = [i \in InputsTouching(doc.bindings, n) |->
                                      doc.bindings[i]]
    OBVIOUS
  <2>3. /\ r = [value |-> r.value, bindings |-> r.bindings, subs |-> r.subs]
        /\ r.bindings = bindings /\ r.subs = SubsTouching(doc.subs, n)
    BY <2>1, <2>2 DEF Snapshot
  <2>4. IsFiniteMap(bindings)
    <3>1. IsMap(bindings) /\ DOMAIN bindings \subseteq DOMAIN doc.bindings
      BY <2>2 DEF IsMap, InputsTouching
    <3>2. IsFiniteSet(DOMAIN doc.bindings)
      BY <1>1 DEF IsFiniteMap
    <3>. QED  BY <3>1, <3>2, FS_Subset DEF IsFiniteMap
  <2>5. IsFiniteSet(r.subs)
    <3>1. r.subs \subseteq doc.subs
      BY <2>3 DEF SubsTouching
    <3>. QED  BY <1>1, <3>1, FS_Subset
  <2>6. IsDetached(r)
    BY <2>3, <2>4, <2>5 DEF IsDetached
  <2>. QED  BY Zenon, <2>1, <2>6
<1>5. n \notin DOMAIN doc.nodes => IsDetached(doc.stubs[n])
  BY <1>1 DEF AreStubs, Ids
<1>6. IsPlacement(doc.place[n])
  BY <1>1 DEF ArePlacements
<1>. HIDE DEF e
<1>7. IsEntry(e)
  <2>1. CASE n \in DOMAIN doc.nodes
    <3>1. e.detached = Snapshot(doc, n)
      BY <1>2, <2>1
    <3>. QED  BY Zenon, <1>2, <1>3, <1>4, <1>6, <3>1 DEF IsEntry
  <2>2. CASE n \notin DOMAIN doc.nodes
    <3>1. e.detached = doc.stubs[n]
      BY <1>2, <2>2
    <3>. QED  BY Zenon, <1>2, <1>3, <1>5, <1>6, <2>2, <3>1 DEF IsEntry
  <2>. QED  BY <2>1, <2>2
<1>. QED  BY <1>2, <1>7 DEF e

\* GraphIntent::into_step makes steps.
LEMMA IntoStepIsStep ==
    ASSUME NEW doc, IsDocument(doc), NEW intent, IsIntent(intent),
           intent.op # "setViewport", ~IsUnplaced(intent, doc),
           NEW step \in IntoStep(intent, doc)
    PROVE  IsStep(step)
<1>0. \A draft : IsDraft(draft) => IsTieSet(Finish(doc, draft))
  BY FinishIsTieSet
<1>1. CASE intent.op = "addNode"
  <2>1. PICK place : place = [pos |-> intent.pos, z |-> FrontZ(doc)]
    OBVIOUS
  <2>2. PICK detached : detached = [value |-> 0, bindings |-> intent.bindings,
                                    subs |-> {}]
    OBVIOUS
  <2>3. PICK entry : entry = [id |-> intent.id, home |-> "graph", selected |-> FALSE,
                              place |-> place, detached |-> detached]
    OBVIOUS
  <2>4. step \in AddNodeStep(intent, doc)
    BY <1>1 DEF IntoStep
  <2>5. step = [kind |-> "node", edit |-> "insertion", ties |-> NoTies,
                entry |-> entry]
    BY <2>1, <2>2, <2>3, <2>4 DEF AddNodeStep
  <2>6. step.kind = "node" /\ step.entry = entry /\ step.ties = NoTies
    BY <2>5
  <2>7. intent.id \in Nat /\ IsFiniteMap(intent.bindings)
    BY <1>1 DEF IsIntent
  <2>8. IsDetached(detached)
    BY <2>2, <2>7, FS_EmptySet DEF IsDetached
  <2>9. IsPlacement(place)
    BY <2>1 DEF IsPlacement
  <2>10. entry.id = intent.id /\ entry.place = place /\ entry.detached = detached
    BY <2>3
  <2>11. IsEntry(entry)
    BY Zenon, <2>7, <2>8, <2>9, <2>10 DEF IsEntry
  <2>12. IsTieSet(NoTies)
    <3>1. Placed(NoTies) = {} /\ NoTies = [ties |-> NoTies.ties, routes |-> NoTies.routes]
          /\ DOMAIN NoTies.ties = {} /\ DOMAIN NoTies.routes = {}
      BY DEF Placed, NoTies, Nothing
    <3>. QED  BY <3>1, FS_EmptySet DEF IsTieSet
  <2>13. IsEntry(step.entry) /\ IsTieSet(step.ties)
    BY Zenon, <2>6, <2>11, <2>12
  <2>. QED  BY <2>6, <2>13 DEF IsStep, Kinds
<1>2. CASE intent.op = "removeNode"
  <2>1. step \in RemoveNodeStep(intent, doc)
    BY <1>2 DEF IntoStep
  <2>2. PICK n \in {intent.id} \cap Ids(doc) :
           step = [kind |-> "node", edit |-> "removal", entry |-> Capture(doc, n),
                   ties |-> Finish(doc, Release(doc, NewDraft,
                                                EntryWires(Capture(doc, n))))]
    BY Zenon, <2>1 DEF RemoveNodeStep
  <2>3. n \in DOMAIN doc.place
    BY <1>2, <2>2 DEF IsUnplaced
  <2>4. /\ step.kind = "node" /\ step.entry = Capture(doc, n)
        /\ step.ties = Finish(doc, Release(doc, NewDraft,
                                           EntryWires(Capture(doc, n))))
    BY <2>2
  <2>5. IsEntry(Capture(doc, n))
    BY <2>2, <2>3, CaptureIsEntry
  <2>6. IsTieSet(step.ties)
    BY Zenon, <1>0, <2>4, DraftsMade, RoutesOnly
  <2>7. IsEntry(step.entry)
    BY Zenon, <2>4, <2>5
  <2>. QED  BY <2>4, <2>6, <2>7 DEF IsStep, Kinds
<1>3. CASE intent.op = "moveSelection"
  <2>1. step \in MoveSelectionStep(intent, doc)
    BY <1>3 DEF IntoStep
  <2>2. PICK moves : step = [kind |-> "positions", moves |-> moves]
    BY <2>1 DEF MoveSelectionStep
  <2>. QED  BY <2>2 DEF IsStep, Kinds
<1>4. CASE intent.op = "setInput"
  <2>1. step \in SetInputStep(intent, doc)
    BY <1>4 DEF IntoStep
  <2>2. PICK wires, binding :
           step = [kind |-> "input", input |-> intent.input, binding |-> binding,
                   ties |-> Finish(doc, Release(doc, NewDraft, wires))]
    BY Zenon, <2>1 DEF SetInputStep
  <2>3. /\ step.kind = "input"
        /\ step.ties = Finish(doc, Release(doc, NewDraft, wires))
    BY <2>2
  <2>4. IsTieSet(step.ties)
    BY Zenon, <1>0, <2>3, DraftsMade, RoutesOnly
  <2>. QED  BY <2>3, <2>4 DEF IsStep, Kinds
<1>5. CASE intent.op = "setSelection"
  <2>1. step \in SetSelectionStep(intent, doc)
    BY <1>5 DEF IntoStep
  <2>2. PICK to : to = {item \in intent.to : Holds(doc, item)}
    OBVIOUS
  <2>3. step = [kind |-> "selection", toggled |-> Toggle(doc.selected, to)]
    BY <2>1, <2>2 DEF SetSelectionStep
  <2>4. step.kind = "selection" /\ step.toggled = Toggle(doc.selected, to)
    BY <2>3
  <2>5. IsFiniteSet(doc.selected) /\ IsFiniteSet(to)
    <3>1. IsFiniteSet(intent.to) /\ to \subseteq intent.to
      BY <1>5, <2>2 DEF IsIntent
    <3>. QED  BY <3>1, FS_Subset DEF IsDocument
  <2>6. IsFiniteSet(step.toggled)
    <3>1. IsFiniteSet(doc.selected \ to) /\ IsFiniteSet(to \ doc.selected)
      BY <2>5, FS_Difference
    <3>. QED  BY <2>4, <3>1, FS_Union DEF Toggle
  <2>. QED  BY <2>4, <2>6 DEF IsStep, Kinds
<1>6. CASE intent.op = "raise"
  <2>1. step \in RaiseStep(intent, doc)
    BY <1>6 DEF IntoStep
  <2>2. step.kind = "depth"
    BY <2>1 DEF RaiseStep
  <2>. QED  BY <2>2 DEF IsStep, Kinds
<1>7. CASE intent.op = "setValue"
  <2>1. step \in SetValueStep(intent, doc)
    BY <1>7 DEF IntoStep
  <2>2. step.kind = "value"
    BY <2>1 DEF SetValueStep
  <2>. QED  BY <2>2 DEF IsStep, Kinds
<1>8. CASE intent.op = "setSubscription"
  <2>1. step \in SetSubscriptionStep(intent, doc)
    BY <1>8 DEF IntoStep
  <2>2. PICK wires, sub, change :
           step = [kind |-> "subscription", sub |-> sub, subscribed |-> change,
                   ties |-> Finish(doc, Release(doc, NewDraft, wires))]
    BY Zenon, <2>1 DEF SetSubscriptionStep
  <2>3. /\ step.kind = "subscription"
        /\ step.ties = Finish(doc, Release(doc, NewDraft, wires))
    BY <2>2
  <2>4. IsTieSet(step.ties)
    BY Zenon, <1>0, <2>3, DraftsMade, RoutesOnly
  <2>. QED  BY <2>3, <2>4 DEF IsStep, Kinds
<1>9. ASSUME NEW draft, IsDraft(draft),
             step = [kind |-> "ties", set |-> Finish(doc, draft)]
      PROVE  IsStep(step)
  BY Zenon, <1>0, <1>9, TiesStepIsStep
<1>10. CASE intent.op = "tieWires"
  <2>1. step \in TieWiresStep(intent, doc)
    BY <1>10 DEF IntoStep
  <2>2. PICK placed :
           step = [kind |-> "ties",
                   set |-> Finish(doc, InsertRoutes(doc,
                              SetTie(NewDraft, intent.tie, placed),
                              intent.tie, intent.wires))]
    BY Zenon, <2>1 DEF TieWiresStep
  <2>3. IsDraft(InsertRoutes(doc, SetTie(NewDraft, intent.tie, placed),
                             intent.tie, intent.wires))
    <3>1. ArePieces(intent.wires)
      BY <1>10 DEF IsIntent
    <3>. QED  BY Zenon, <3>1, DraftsMade, RoutesOnly
  <2>. QED  BY Zenon, <1>9, <2>2, <2>3
<1>11. CASE intent.op = "joinTie"
  <2>1. step \in JoinTieStep(intent, doc)
    BY <1>11 DEF IntoStep
  <2>2. PICK t :
           step = [kind |-> "ties",
                   set |-> Finish(doc, InsertRoutes(doc, NewDraft, t, intent.wires))]
    BY Zenon, <2>1 DEF JoinTieStep
  <2>3. IsDraft(InsertRoutes(doc, NewDraft, t, intent.wires))
    <3>1. ArePieces(intent.wires)
      BY <1>11 DEF IsIntent
    <3>. QED  BY Zenon, <3>1, DraftsMade, RoutesOnly
  <2>. QED  BY Zenon, <1>9, <2>2, <2>3
<1>12. CASE intent.op = "removeTie"
  <2>1. step \in RemoveTieStep(intent, doc)
    BY <1>12 DEF IntoStep
  <2>2. PICK t :
           step = [kind |-> "ties", set |-> Finish(doc, RemoveTie(doc, NewDraft, t))]
    BY Zenon, <2>1 DEF RemoveTieStep
  <2>3. IsDraft(RemoveTie(doc, NewDraft, t))
    BY Zenon, DraftsMade, RoutesOnly
  <2>. QED  BY Zenon, <1>9, <2>2, <2>3
<1>13. CASE intent.op = "setTieAngle"
  <2>1. step \in SetTieAngleStep(intent, doc)
    BY <1>13 DEF IntoStep
  <2>2. PICK t, to :
           step = [kind |-> "ties", set |-> Finish(doc, SetTie(NewDraft, t, to))]
    BY Zenon, <2>1 DEF SetTieAngleStep
  <2>3. IsDraft(SetTie(NewDraft, t, to))
    BY Zenon, DraftsMade
  <2>. QED  BY Zenon, <1>9, <2>2, <2>3
<1>14. CASE intent.op = "releaseWire"
  <2>1. step \in ReleaseWireStep(intent, doc)
    BY <1>14 DEF IntoStep
  <2>2. PICK wires, t :
           step = [kind |-> "ties", set |-> Finish(doc, Leave(doc, NewDraft, wires, t))]
    BY Zenon, <2>1 DEF ReleaseWireStep
  <2>3. IsDraft(Leave(doc, NewDraft, wires, t))
    BY Zenon, DraftsMade, RoutesOnly
  <2>. QED  BY Zenon, <1>9, <2>2, <2>3
<1>. QED  BY <1>1, <1>2, <1>3, <1>4, <1>5, <1>6, <1>7, <1>8, <1>10, <1>11, <1>12,
             <1>13, <1>14 DEF IsIntent, StepOps

-----------------------------------------------------------------------------
\* Steps lead from a document to another that has changed as they say.
Leads(doc, d, steps) ==
    /\ IsDocument(d) /\ IsSteps(steps)
    /\ \A folded : CoverAll(folded, steps) => Same(doc, d, folded)

\* No steps lead nowhere, and a document of the same content and ids is there.
LEMMA LeadsNowhere ==
    ASSUME NEW doc, NEW d, IsDocument(d), Content(d) = Content(doc), Ids(d) = Ids(doc)
    PROVE  Leads(doc, d, <<>>)
  BY Zenon, StepsOfSteps DEF Leads, Same

\* Steps that lead on from where others led.
LEMMA LeadsOn ==
    ASSUME NEW doc, NEW d, NEW e, NEW steps, NEW more,
           Leads(doc, d, steps), Leads(d, e, more)
    PROVE  Leads(doc, e, steps \o more)
<1>1. IsDocument(e) /\ IsSteps(steps) /\ IsSteps(more)
  BY Zenon DEF Leads
<1>2. IsSteps(steps \o more)
  BY <1>1, ConcatIsSteps
<1>3. ASSUME NEW folded, CoverAll(folded, steps \o more)
      PROVE  Same(doc, e, folded)
  <2>1. PICK S : steps \in Seq(S)
    BY <1>1 DEF IsSteps
  <2>2. PICK T : more \in Seq(T)
    BY <1>1 DEF IsSteps
  <2>3. steps \in Seq(S \cup T) /\ more \in Seq(S \cup T)
    BY <2>1, <2>2
  <2>4. /\ DOMAIN steps = 1..Len(steps) /\ DOMAIN more = 1..Len(more)
        /\ Len(steps) \in Nat /\ Len(more) \in Nat
        /\ DOMAIN (steps \o more) = 1..(Len(steps) + Len(more))
        /\ \A k \in 1..Len(steps) : (steps \o more)[k] = steps[k]
        /\ \A k \in 1..Len(more) : (steps \o more)[Len(steps) + k] = more[k]
    BY <2>3
  <2>5. ASSUME NEW k \in DOMAIN steps PROVE Covers(folded, steps[k])
    <3>1. k \in DOMAIN (steps \o more) /\ (steps \o more)[k] = steps[k]
      BY <2>4
    <3>. QED  BY Zenon, <1>3, <3>1 DEF CoverAll
  <2>6. ASSUME NEW k \in DOMAIN more PROVE Covers(folded, more[k])
    <3>1. /\ Len(steps) + k \in DOMAIN (steps \o more)
          /\ (steps \o more)[Len(steps) + k] = more[k]
      BY <2>4
    <3>. QED  BY Zenon, <1>3, <3>1 DEF CoverAll
  <2>7. CoverAll(folded, steps) /\ CoverAll(folded, more)
    BY Zenon, <2>5, <2>6 DEF CoverAll
  <2>8. Same(doc, d, folded) /\ Same(d, e, folded)
    BY Zenon, <2>7 DEF Leads
  <2>. QED  BY Zenon, <2>8, SameAfter
<1>. QED  BY Zenon, <1>1, <1>2, <1>3 DEF Leads

\* One step more.
LEMMA LeadsToStep ==
    ASSUME NEW doc, NEW d, NEW steps, NEW step, Leads(doc, d, steps), IsStep(step)
    PROVE  Leads(doc, Write(step, d, Forward), Append(steps, step))
<1>. DEFINE e == Write(step, d, Forward)
<1>1. IsDocument(d) /\ IsSteps(steps)
  BY Zenon DEF Leads
<1>2. IsSteps(Append(steps, step))
  BY <1>1, AppendIsSteps
<1>3. ASSUME NEW folded, CoverAll(folded, Append(steps, step))
      PROVE  IsDocument(e) /\ Same(doc, e, folded)
  <2>1. PICK S : steps \in Seq(S)
    BY <1>1 DEF IsSteps
  <2>2. steps \in Seq(S \cup {step})
    BY <2>1
  <2>3. /\ DOMAIN steps = 1..Len(steps) /\ Len(steps) \in Nat
        /\ DOMAIN Append(steps, step) = 1..(Len(steps) + 1)
        /\ \A k \in 1..Len(steps) : Append(steps, step)[k] = steps[k]
        /\ Append(steps, step)[Len(steps) + 1] = step
    BY <2>2
  <2>4. ASSUME NEW k \in DOMAIN steps PROVE Covers(folded, steps[k])
    <3>1. k \in DOMAIN Append(steps, step) /\ Append(steps, step)[k] = steps[k]
      BY <2>3
    <3>. QED  BY Zenon, <1>3, <3>1 DEF CoverAll
  <2>5. Covers(folded, step)
    <3>1. /\ Len(steps) + 1 \in DOMAIN Append(steps, step)
          /\ Append(steps, step)[Len(steps) + 1] = step
      BY <2>3
    <3>. QED  BY Zenon, <1>3, <3>1 DEF CoverAll
  <2>6. Same(doc, d, folded)
    BY Zenon, <2>4 DEF Leads, CoverAll
  <2>7. LET f == Write(step, d, Forward) IN IsDocument(f) /\ Same(d, f, folded)
    BY <1>1, <2>5, WriteKeeps
  <2>. QED  BY Zenon, <2>6, <2>7, SameAfter
<1>4. IsDocument(e)
  <2>1. Covers({"dirtied", "nodeSet"}, step)
    BY DEF Covers
  <2>2. LET f == Write(step, d, Forward)
        IN  IsDocument(f) /\ Same(d, f, {"dirtied", "nodeSet"})
    BY <1>1, <2>1, WriteKeeps
  <2>. QED  BY Zenon, <2>2
<1>. QED  BY Zenon, <1>2, <1>3, <1>4 DEF Leads

\* GraphIntent::commit up to the rewiring.
HasLanded(doc, landed) == Leads(doc, landed.doc, landed.steps)

\* A step that an intent became leads on from where the commit had come.
LEMMA LandStepLeads ==
    ASSUME NEW doc, NEW landed, HasLanded(doc, landed), NEW step, IsStep(step)
    PROVE  HasLanded(doc, LandStep(landed, step))
<1>1. CASE IsNoop(step)
  BY <1>1 DEF LandStep
<1>2. CASE ~IsNoop(step)
  <2>1. PICK d : d = Write(step, landed.doc, Forward)
    OBVIOUS
  <2>2. PICK steps : steps = Append(landed.steps, step)
    OBVIOUS
  <2>3. LandStep(landed, step) = [doc |-> d, steps |-> steps]
    BY Zenon, <1>2, <2>1, <2>2 DEF LandStep
  <2>4. PICK l : l = LandStep(landed, step)
    OBVIOUS
  <2>5. l.doc = d /\ l.steps = steps
    BY <2>3, <2>4
  <2>6. Leads(doc, d, steps)
    BY Zenon, <2>1, <2>2, LeadsToStep DEF HasLanded
  <2>. QED  BY Zenon, <2>4, <2>5, <2>6 DEF HasLanded
<1>. QED  BY Zenon, <1>1, <1>2

\* GraphIntent::commit of one intent, where the view places what it removes.
LEMMA LandIntentLeads ==
    ASSUME NEW doc, NEW landed, HasLanded(doc, landed), NEW intent,
           IsIntent(intent), intent.op # "setViewport",
           ~IsUnplaced(intent, landed.doc)
    PROVE  HasLanded(doc, LandIntent(landed, intent))
<1>. DEFINE steps == IntoStep(intent, landed.doc)
            step == CHOOSE s \in steps : TRUE
<1>1. IsDocument(landed.doc)
  BY Zenon DEF HasLanded, Leads
<1>2. CASE steps = {}
  BY Zenon, <1>2 DEF LandIntent
<1>3. CASE steps # {}
  <2>1. LandIntent(landed, intent) = LandStep(landed, step)
    BY Zenon, <1>3 DEF LandIntent
  <2>2. step \in steps
    <3>. HIDE DEF steps
    <3>. QED  BY <1>3
  <2>. HIDE DEF step
  <2>3. IsStep(step)
    BY <1>1, <2>2, IntoStepIsStep
  <2>. QED  BY Zenon, <2>1, <2>3, LandStepLeads
<1>. QED  BY Zenon, <1>2, <1>3

\* The inputs a removal leaves unbound are finitely many.
LEMMA FedIsFinite ==
    ASSUME NEW step, IsStep(step)
    PROVE  IsFiniteSet(FedInputs(step))
<1>. DEFINE wires == {v \in EntryWires(step.entry) :
                         v[1] = "data" /\ v[2] = step.entry.id}
            bindings == step.entry.detached.bindings
            subs == step.entry.detached.subs
<1>1. CASE step.kind = "node" /\ step.edit = "removal"
  <2>1. IsFiniteMap(bindings) /\ IsFiniteSet(subs)
    BY <1>1 DEF IsStep, IsEntry, IsDetached
  <2>2. IsFiniteSet(WiresOf(bindings, subs))
    <3>. HIDE DEF bindings, subs
    <3>. DEFINE into == {j \in DOMAIN bindings : IsWire(bindings[j])}
                data == [i \in into |-> DataWire(bindings[i][2], i)]
                event == [s \in subs |-> EventWire(s[1], s[2])]
    <3>1. IsFiniteSet(into)
      BY <2>1, FS_Subset DEF IsFiniteMap
    <3>2. IsFiniteSet({data[i] : i \in into})
      <4>. HIDE DEF data, into
      <4>. QED  BY Zenon, <3>1, ImageIsFinite
    <3>3. IsFiniteSet({event[s] : s \in subs})
      <4>. HIDE DEF event
      <4>. QED  BY Zenon, <2>1, ImageIsFinite
    <3>4. WiresOf(bindings, subs) = {data[i] : i \in into} \cup {event[s] : s \in subs}
      BY DEF WiresOf
    <3>. HIDE DEF data, event, into
    <3>. QED  BY <3>2, <3>3, <3>4, FS_Union
  <2>3. IsFiniteSet(wires)
    <3>. HIDE DEF bindings, subs
    <3>1. EntryWires(step.entry) \subseteq WiresOf(bindings, subs)
      BY DEF EntryWires, bindings, subs
    <3>2. wires \subseteq WiresOf(bindings, subs)
      BY <3>1
    <3>. QED  BY <2>2, <3>2, FS_Subset
  <2>. DEFINE third == [w \in wires |-> w[3]]
  <2>4. FedInputs(step) = {third[w] : w \in wires}
    <3>1. FedInputs(step) = {w[3] : w \in wires}
      BY Zenon, <1>1 DEF FedInputs
    <3>. HIDE DEF wires
    <3>. QED  BY <3>1
  <2>. HIDE DEF wires, third
  <2>5. IsFiniteSet({third[w] : w \in wires})
    BY Zenon, <2>3, ImageIsFinite
  <2>. QED  BY Zenon, <2>4, <2>5
<1>2. CASE ~(step.kind = "node" /\ step.edit = "removal")
  <2>1. FedInputs(step) = {}
    BY Zenon, <1>2 DEF FedInputs
  <2>. QED  BY <2>1, FS_EmptySet
<1>. QED  BY <1>1, <1>2

RewireBody(env, landed, input) == Rewire(landed, input)
Rewired == INSTANCE Recursion WITH Body <- RewireBody

\* An input given its default back.
LEMMA RewireLeads ==
    ASSUME NEW doc, NEW landed, HasLanded(doc, landed), NEW input
    PROVE  HasLanded(doc, Rewire(landed, input))
<1>1. CASE Unwired(input) = {}
  BY Zenon, <1>1 DEF Rewire
<1>2. CASE Unwired(input) # {}
  <2>1. PICK intent : intent = [op |-> "setInput", input |-> input,
                                to |-> Unwired(input)]
    OBVIOUS
  <2>2. Rewire(landed, input) = LandIntent(landed, intent)
    BY Zenon, <1>2, <2>1 DEF Rewire
  <2>3. /\ intent.op = "setInput" /\ "gesture" \notin DOMAIN intent
    BY <2>1
  <2>4. IsIntent(intent) /\ intent.op # "setViewport"
    BY <2>3 DEF IsIntent, StepOps, GestureOf
  <2>5. ~IsUnplaced(intent, landed.doc)
    BY <2>3 DEF IsUnplaced
  <2>6. HasLanded(doc, LandIntent(landed, intent))
    BY Zenon, <2>4, <2>5, LandIntentLeads
  <2>. QED  BY Zenon, <2>2, <2>6
<1>. QED  BY Zenon, <1>1, <1>2

\* GraphIntent::commit.
LEMMA CommitIntentLeads ==
    ASSUME NEW doc, IsDocument(doc), NEW intent, IsIntent(intent),
           ~IsUnplaced(intent, doc)
    PROVE  HasLanded(doc, CommitIntent(intent, doc))
<1>1. CASE intent.op = "setViewport"
  <2>1. PICK d : d = [doc EXCEPT !.viewport = intent.to]
    OBVIOUS
  <2>2. PICK l : l = CommitIntent(intent, doc)
    OBVIOUS
  <2>3. l.doc = d /\ l.steps = <<>>
    BY <1>1, <2>1, <2>2 DEF CommitIntent
  <2>4. doc = [nodes |-> doc.nodes, bindings |-> doc.bindings, subs |-> doc.subs,
             stubs |-> doc.stubs, place |-> doc.place, ties |-> doc.ties,
             routes |-> doc.routes, selected |-> doc.selected,
             tabs |-> doc.tabs, viewport |-> doc.viewport]
    BY DEF IsDocument
  <2>5. HasView(d, doc, doc.selected, doc.tabs, intent.to)
    BY <2>1, <2>4 DEF HasView, DocOf
  <2>6. IsFiniteSet(doc.selected)
    BY DEF IsDocument
  <2>7. IsDocument(d) /\ Content(d) = Content(doc) /\ Ids(d) = Ids(doc)
    BY <2>5, <2>6, ViewKeeps
  <2>8. Leads(doc, d, <<>>)
    BY Zenon, <2>7, LeadsNowhere
  <2>. QED  BY Zenon, <2>2, <2>3, <2>8 DEF HasLanded
<1>2. CASE intent.op # "setViewport"
  <2>. DEFINE start == [doc |-> doc, steps |-> <<>>]
              landed == LandIntent(start, intent)
              fed == IF landed.steps = <<>> THEN {} ELSE FedInputs(landed.steps[1])
              order == SetToSeq(fed)
  <2>1. start.doc = doc /\ start.steps = <<>>
    OBVIOUS
  <2>. HIDE DEF start
  <2>2. HasLanded(doc, start)
    BY Zenon, <2>1, LeadsNowhere DEF HasLanded
  <2>3. HasLanded(doc, landed)
    BY Zenon, <1>2, <2>1, <2>2, LandIntentLeads
  <2>4. CommitIntent(intent, doc) = FoldLeft(Rewire, landed, order)
    BY Zenon, <1>2 DEF CommitIntent, start
  <2>. HIDE DEF landed
  <2>5. IsFiniteSet(fed)
    <3>1. CASE landed.steps = <<>>
      BY <3>1, FS_EmptySet
    <3>2. CASE landed.steps # <<>>
      <4>1. IsSteps(landed.steps)
        BY Zenon, <2>3 DEF HasLanded, Leads
      <4>2. PICK S : AreSteps(S) /\ landed.steps \in Seq(S)
        BY <4>1 DEF IsSteps
      <4>3. landed.steps[1] \in S
        BY <3>2, <4>2
      <4>. QED  BY <3>2, <4>2, <4>3, FedIsFinite DEF AreSteps
    <3>. QED  BY <3>1, <3>2
  <2>. HIDE DEF fed
  <2>6. PICK n \in Nat : DOMAIN order = 1..n
    BY <2>5, SetToSeqNumbers
  <2>7. FoldLeft(Rewire, landed, order) = Rewired!FoldOf(0, landed, order)
    BY Zenon DEF Rewired!FoldOf, Rewired!IsFolding, Rewired!Largest, RewireBody,
                 FoldLeft, MapThenFoldSet, Max
  <2>. HIDE DEF order
  <2>8. PICK f : Rewired!Unfolds(f, 0, landed, order, n)
    BY <2>6, Rewired!FoldUnfolds
  <2>9. /\ Rewired!FoldOf(0, landed, order) = f[1..n]
        /\ f[{}] = landed
        /\ \A k \in 1..n : f[1..k] = Rewire(f[1..(k - 1)], order[k])
    BY <2>8 DEF Rewired!Unfolds, RewireBody
  <2>. DEFINE I == {k \in 0..n : HasLanded(doc, f[1..k])}
  <2>10. 0 \in I
    <3>1. 1..0 = {} /\ 0 \in 0..n
      OBVIOUS
    <3>. QED  BY <2>3, <2>9, <3>1
  <2>11. ASSUME NEW k \in 1..n, k - 1 \in I PROVE k \in I
    <3>1. HasLanded(doc, f[1..(k - 1)]) /\ k \in 0..n
      BY <2>11
    <3>2. HasLanded(doc, Rewire(f[1..(k - 1)], order[k]))
      BY Zenon, <3>1, RewireLeads
    <3>. QED  BY <2>9, <3>1, <3>2
  <2>12. n \in I
    <3>. HIDE DEF I
    <3>. QED  BY <2>10, <2>11, Rewired!StepsReach
  <2>13. HasLanded(doc, f[1..n])
    BY <2>12
  <2>. QED  BY Zenon, <2>4, <2>7, <2>9, <2>13
<1>. QED  BY <1>1, <1>2

-----------------------------------------------------------------------------
\* A request as a frame raises it.
IsRequest(r) ==
    /\ r.kind \in {"graph", "joins", "cancel", "view"}
    /\ r.kind = "graph" => IsIntent(r.intent)
    /\ r.kind = "joins" => r.gesture \in Nat /\ IsIntent(r.intent)
    /\ r.kind = "cancel" => r.gesture \in Nat /\ IsIntent(r.otherwise)
AreRequests(S) == \A r \in S : IsRequest(r)
IsRequests(q) == \E S : AreRequests(S) /\ q \in Seq(S)

\* What a batch has come to: its steps lead from the document it began with,
\* and the gestures it joined are some numbers.
BatchOf(doc, steps, gestures, crashed) ==
    [doc |-> doc, steps |-> steps, gestures |-> gestures, panicked |-> crashed]
IsBatch(doc, b) ==
    /\ b = BatchOf(b.doc, b.steps, b.gestures, b.panicked)
    /\ Leads(doc, b.doc, b.steps)
    /\ IsFiniteSet(b.gestures) /\ b.gestures \subseteq Nat

\* A batch put together of its parts is one when they are.
LEMMA BatchMade ==
    ASSUME NEW doc, NEW b, NEW d, NEW steps, NEW gestures, NEW crashed,
           b = BatchOf(d, steps, gestures, crashed), Leads(doc, d, steps),
           IsFiniteSet(gestures), gestures \subseteq Nat
    PROVE  IsBatch(doc, b)
<1>1. /\ b.doc = d /\ b.steps = steps /\ b.gestures = gestures
      /\ b.panicked = crashed
  BY DEF BatchOf
<1>. QED  BY Zenon, <1>1 DEF IsBatch

\* The gestures a step joins stay numbers, 0 for a step that joins none.
LEMMA AndIsNumbers ==
    ASSUME NEW gestures, IsFiniteSet(gestures), gestures \subseteq Nat,
           NEW r, IsRequest(r), r.kind \in {"graph", "joins"}
    PROVE  LET both == And(gestures, JoinsOf(r))
           IN  IsFiniteSet(both) /\ both \subseteq Nat
<1>. DEFINE joins == JoinsOf(r)
            more == IF joins = {} THEN {0} ELSE joins
<1>1. joins = {} \/ \E id \in Nat : joins = {id}
  <2>1. CASE r.kind = "joins"
    BY <2>1 DEF JoinsOf, IsRequest
  <2>2. CASE r.kind # "joins"
    <3>1. joins = GestureOf(r.intent)
      BY <2>2 DEF JoinsOf
    <3>2. IsIntent(r.intent)
      BY <2>2 DEF IsRequest
    <3>. HIDE DEF joins
    <3>. QED  BY <3>1, <3>2 DEF IsIntent
  <2>. QED  BY <2>1, <2>2
<1>. HIDE DEF joins
<1>2. PICK id \in Nat : more = {id}
  BY <1>1
<1>3. And(gestures, JoinsOf(r)) = gestures \cup {id}
  BY <1>2 DEF And, joins
<1>. HIDE DEF more
<1>. QED  BY <1>2, <1>3, FS_AddElement

\* One request of a batch that is no cancel.
LEMMA LandRequestKeeps ==
    ASSUME NEW doc, NEW b, IsBatch(doc, b), NEW r, IsRequest(r), r.kind # "cancel"
    PROVE  IsBatch(doc, LandRequest(b, r))
<1>1. /\ b = [doc |-> b.doc, steps |-> b.steps, gestures |-> b.gestures,
              panicked |-> b.panicked]
      /\ Leads(doc, b.doc, b.steps)
      /\ IsFiniteSet(b.gestures) /\ b.gestures \subseteq Nat
      /\ IsDocument(b.doc)
  BY Zenon DEF IsBatch, BatchOf, Leads
<1>2. CASE b.panicked
  BY Zenon, <1>2 DEF LandRequest
<1>3. CASE ~b.panicked /\ r.kind = "view"
  <2>1. PICK tabs : tabs = IF r.shows THEN b.doc.tabs \cup {r.node}
                           ELSE b.doc.tabs \ {r.node}
    OBVIOUS
  <2>2. PICK d : d = [b.doc EXCEPT !.tabs = tabs]
    OBVIOUS
  <2>3. PICK c : c = LandRequest(b, r)
    OBVIOUS
  <2>4. c = [b EXCEPT !.doc.tabs = tabs]
    BY Zenon, <1>3, <2>1, <2>3 DEF LandRequest, LandView
  <2>5. c = [b EXCEPT !.doc = d]
    BY <2>2, <2>4
  <2>6. c = BatchOf(d, b.steps, b.gestures, b.panicked)
    BY <1>1, <2>5 DEF BatchOf
  <2>7. PICK e : e = b.doc
    OBVIOUS
  <2>8. e = [nodes |-> e.nodes, bindings |-> e.bindings, subs |-> e.subs,
             stubs |-> e.stubs, place |-> e.place, ties |-> e.ties,
             routes |-> e.routes, selected |-> e.selected,
             tabs |-> e.tabs, viewport |-> e.viewport]
        /\ IsFiniteSet(e.selected) /\ IsDocument(e)
    BY <1>1, <2>7 DEF IsDocument
  <2>9. HasView(d, e, e.selected, tabs, e.viewport)
    BY <2>2, <2>7, <2>8 DEF HasView, DocOf
  <2>10. IsDocument(d) /\ Content(d) = Content(e) /\ Ids(d) = Ids(e)
    BY <2>8, <2>9, ViewKeeps
  <2>11. Leads(doc, d, b.steps)
    BY Zenon, <1>1, <2>7, <2>10 DEF Leads, Same
  <2>12. IsBatch(doc, c)
    BY Zenon, <1>1, <2>6, <2>11, BatchMade
  <2>. QED  BY Zenon, <2>3, <2>12
<1>4. CASE /\ ~b.panicked /\ r.kind # "view"
           /\ IsMalformed(r.intent, b.doc, library) \/ IsUnplaced(r.intent, b.doc)
  <2>1. PICK c : c = LandRequest(b, r)
    OBVIOUS
  <2>2. c = [b EXCEPT !.panicked = TRUE]
    BY Zenon, <1>4, <2>1 DEF LandRequest, Crash
  <2>3. c = BatchOf(b.doc, b.steps, b.gestures, TRUE)
    BY <1>1, <2>2 DEF BatchOf
  <2>4. IsBatch(doc, c)
    BY Zenon, <1>1, <2>3, BatchMade
  <2>. QED  BY Zenon, <2>1, <2>4
<1>5. CASE /\ ~b.panicked /\ r.kind # "view"
           /\ ~IsMalformed(r.intent, b.doc, library) /\ ~IsUnplaced(r.intent, b.doc)
  <2>1. PICK landed : landed = CommitIntent(r.intent, b.doc)
    OBVIOUS
  <2>2. r.kind \in {"graph", "joins"} /\ IsIntent(r.intent)
    BY <1>5 DEF IsRequest
  <2>3. Leads(b.doc, landed.doc, landed.steps)
    BY Zenon, <1>1, <1>5, <2>1, <2>2, CommitIntentLeads DEF HasLanded
  <2>4. PICK steps : steps = b.steps \o landed.steps
    OBVIOUS
  <2>5. Leads(doc, landed.doc, steps)
    BY Zenon, <1>1, <2>3, <2>4, LeadsOn
  <2>6. PICK gestures : gestures = IF landed.steps = <<>> THEN b.gestures
                                   ELSE And(b.gestures, JoinsOf(r))
    OBVIOUS
  <2>7. IsFiniteSet(gestures) /\ gestures \subseteq Nat
    BY <1>1, <2>2, <2>6, AndIsNumbers
  <2>8. PICK c : c = LandRequest(b, r)
    OBVIOUS
  <2>9. c = LandGraph(b, r)
    BY Zenon, <1>5, <2>8 DEF LandRequest
  <2>10. PICK d : d = landed.doc
    OBVIOUS
  <2>11. c = [b EXCEPT !.doc = d, !.steps = steps, !.gestures = gestures]
    BY Zenon, <2>1, <2>4, <2>6, <2>9, <2>10 DEF LandGraph
  <2>12. c = BatchOf(d, steps, gestures, b.panicked)
    BY <1>1, <2>11 DEF BatchOf
  <2>13. IsBatch(doc, c)
    BY Zenon, <2>5, <2>7, <2>10, <2>12, BatchMade
  <2>. QED  BY Zenon, <2>8, <2>13
<1>. QED  BY Zenon, <1>2, <1>3, <1>4, <1>5

BatchBody(env, b, r) == LandRequest(b, r)
Batches == INSTANCE Recursion WITH Body <- BatchBody

\* OpenDocument::commit lands a batch of requests that holds no cancel.
LEMMA LandAllKeeps ==
    ASSUME NEW doc, IsDocument(doc), NEW q, IsRequests(q),
           \A k \in DOMAIN q : q[k].kind # "cancel"
    PROVE  IsBatch(doc, LandAll(doc, q))
<1>. DEFINE start == Batch(doc)
            n == Len(q)
<1>1. PICK S : AreRequests(S) /\ q \in Seq(S)
  BY DEF IsRequests
<1>2. n \in Nat /\ DOMAIN q = 1..n /\ \A k \in 1..n : q[k] \in S
  BY <1>1
<1>3. IsBatch(doc, start)
  <2>1. start = BatchOf(doc, <<>>, {}, FALSE)
    BY DEF Batch, BatchOf
  <2>2. Leads(doc, doc, <<>>)
    BY Zenon, LeadsNowhere
  <2>3. IsFiniteSet({}) /\ {} \subseteq Nat
    BY FS_EmptySet
  <2>. HIDE DEF start
  <2>. QED  BY Zenon, <2>1, <2>2, <2>3, BatchMade
<1>4. LandAll(doc, q) = Batches!FoldOf(0, start, q)
  BY Zenon DEF LandAll, Batches!FoldOf, Batches!IsFolding, Batches!Largest,
               BatchBody, FoldLeft, MapThenFoldSet, Max
<1>. HIDE DEF start
<1>5. PICK f : Batches!Unfolds(f, 0, start, q, n)
  BY <1>2, Batches!FoldUnfolds
<1>6. /\ Batches!FoldOf(0, start, q) = f[1..n]
      /\ f[{}] = start
      /\ \A k \in 1..n : f[1..k] = LandRequest(f[1..(k - 1)], q[k])
  BY <1>5 DEF Batches!Unfolds, BatchBody
<1>. HIDE DEF n
<1>. DEFINE I == {k \in 0..n : IsBatch(doc, f[1..k])}
<1>7. 0 \in I
  <2>1. 1..0 = {} /\ 0 \in 0..n
    BY <1>2
  <2>. QED  BY <1>3, <1>6, <2>1
<1>8. ASSUME NEW k \in 1..n, k - 1 \in I PROVE k \in I
  <2>1. IsBatch(doc, f[1..(k - 1)]) /\ k \in 0..n
    BY <1>2, <1>8
  <2>2. IsRequest(q[k]) /\ q[k].kind # "cancel"
    BY <1>1, <1>2 DEF AreRequests
  <2>3. IsBatch(doc, LandRequest(f[1..(k - 1)], q[k]))
    BY Zenon, <2>1, <2>2, LandRequestKeeps
  <2>. QED  BY <1>6, <2>1, <2>3
<1>9. n \in I
  <2>. HIDE DEF I
  <2>. QED  BY <1>2, <1>7, <1>8, Batches!StepsReach
<1>10. IsBatch(doc, f[1..n])
  BY <1>9
<1>. QED  BY Zenon, <1>4, <1>6, <1>10

\* The gesture a batch is named by, if its steps all join the same one.
LEMMA NamedIsGesture ==
    ASSUME NEW gestures, IsFiniteSet(gestures), gestures \subseteq Nat
    PROVE  Named(gestures) = {} \/ \E id \in Nat : Named(gestures) = {id}
<1>1. CASE Cardinality(gestures) = 1
  <2>1. \E x : gestures = {x}
    BY <1>1, FS_Singleton
  <2>. QED  BY <2>1 DEF Named
<1>2. CASE Cardinality(gestures) # 1
  BY <1>2 DEF Named
<1>. QED  BY <1>1, <1>2

-----------------------------------------------------------------------------
\* Sequences of intents and of requests: those a frame raises, one after the
\* other.
AreIntents(S) == \A x \in S : IsIntent(x)
IsIntents(s) == \E S : AreIntents(S) /\ s \in Seq(S)

\* None, one, and the ones of two sequences.
LEMMA IntentsJoin ==
    /\ IsIntents(<<>>)
    /\ \A x : IsIntent(x) => IsIntents(<<x>>)
    /\ \A s, t : IsIntents(s) /\ IsIntents(t) => IsIntents(s \o t)
<1>1. IsIntents(<<>>)
  <2>1. AreIntents({}) /\ <<>> \in Seq({})
    BY DEF AreIntents
  <2>. QED  BY <2>1 DEF IsIntents
<1>2. ASSUME NEW x, IsIntent(x) PROVE IsIntents(<<x>>)
  <2>1. AreIntents({x})
    BY <1>2 DEF AreIntents
  <2>2. <<x>> \in Seq({x})
    OBVIOUS
  <2>. QED  BY <2>1, <2>2 DEF IsIntents
<1>3. ASSUME NEW s, NEW t, IsIntents(s), IsIntents(t) PROVE IsIntents(s \o t)
  <2>1. PICK S : AreIntents(S) /\ s \in Seq(S)
    BY <1>3 DEF IsIntents
  <2>2. PICK T : AreIntents(T) /\ t \in Seq(T)
    BY <1>3 DEF IsIntents
  <2>3. s \in Seq(S \cup T) /\ t \in Seq(S \cup T)
    BY <2>1, <2>2
  <2>4. s \o t \in Seq(S \cup T)
    BY <2>3
  <2>5. AreIntents(S \cup T)
    BY <2>1, <2>2 DEF AreIntents
  <2>. QED  BY <2>4, <2>5 DEF IsIntents
<1>. QED  BY <1>1, <1>2, <1>3

\* One for each place of a sequence.
LEMMA NumberedAreIntents ==
    ASSUME NEW n \in Nat, NEW s, IsMap(s), DOMAIN s = 1..n,
           \A k \in 1..n : IsIntent(s[k])
    PROVE  IsIntents(s)
<1>. DEFINE S == {s[k] : k \in 1..n}
<1>1. AreIntents(S)
  BY DEF AreIntents
<1>2. s \in Seq(S)
  <2>1. s \in [1..n -> S]
    BY DEF IsMap
  <2>. HIDE DEF S
  <2>. QED  BY <2>1
<1>. HIDE DEF S
<1>. QED  BY <1>1, <1>2 DEF IsIntents

\* One for each member of a finite set, in whatever order.
LEMMA SetsAreIntents ==
    ASSUME NEW S, IsFiniteSet(S), AreIntents(S)
    PROVE  IsIntents(SetToSeq(S))
<1>1. SetToSeq(S) \in Seq(S)
  BY SetToSeqNumbers
<1>. QED  BY Zenon, <1>1 DEF IsIntents

\* The requests of a frame.
LEMMA RequestsOfRequests ==
    ASSUME NEW q, IsRequests(q)
    PROVE  /\ Len(q) \in Nat /\ DOMAIN q = 1..Len(q)
           /\ \A k \in 1..Len(q) : IsRequest(q[k])
<1>1. PICK S : AreRequests(S) /\ q \in Seq(S)
  BY DEF IsRequests
<1>. QED  BY <1>1 DEF AreRequests

\* None, one, those of two sequences, and a range of one.
LEMMA RequestsJoin ==
    /\ IsRequests(<<>>)
    /\ \A r : IsRequest(r) => IsRequests(<<r>>)
    /\ \A q, t : IsRequests(q) /\ IsRequests(t) => IsRequests(q \o t)
<1>1. IsRequests(<<>>)
  <2>1. AreRequests({}) /\ <<>> \in Seq({})
    BY DEF AreRequests
  <2>. QED  BY <2>1 DEF IsRequests
<1>2. ASSUME NEW r, IsRequest(r) PROVE IsRequests(<<r>>)
  <2>1. AreRequests({r})
    BY <1>2 DEF AreRequests
  <2>2. <<r>> \in Seq({r})
    OBVIOUS
  <2>. QED  BY <2>1, <2>2 DEF IsRequests
<1>3. ASSUME NEW q, NEW t, IsRequests(q), IsRequests(t) PROVE IsRequests(q \o t)
  <2>1. PICK S : AreRequests(S) /\ q \in Seq(S)
    BY <1>3 DEF IsRequests
  <2>2. PICK T : AreRequests(T) /\ t \in Seq(T)
    BY <1>3 DEF IsRequests
  <2>3. q \in Seq(S \cup T) /\ t \in Seq(S \cup T)
    BY <2>1, <2>2
  <2>4. q \o t \in Seq(S \cup T)
    BY <2>3
  <2>5. AreRequests(S \cup T)
    BY <2>1, <2>2 DEF AreRequests
  <2>. QED  BY <2>4, <2>5 DEF IsRequests
<1>. QED  BY <1>1, <1>2, <1>3

\* A range of them, and what is left behind the first.
LEMMA RequestsCut ==
    ASSUME NEW q, IsRequests(q)
    PROVE  /\ \A i \in 1..(Len(q) + 1), j \in 0..Len(q) :
                 /\ IsRequests(SubSeq(q, i, j))
                 /\ DOMAIN SubSeq(q, i, j) = 1..Len(SubSeq(q, i, j))
                 /\ \A k \in DOMAIN SubSeq(q, i, j) :
                       i + k - 1 \in i..j /\ SubSeq(q, i, j)[k] = q[i + k - 1]
           /\ q # <<>> => IsRequests(Tail(q)) /\ IsRequest(Head(q)) /\ Head(q) = q[1]
<1>1. PICK S : AreRequests(S) /\ q \in Seq(S)
  BY DEF IsRequests
<1>2. ASSUME NEW i \in 1..(Len(q) + 1), NEW j \in 0..Len(q)
      PROVE  /\ IsRequests(SubSeq(q, i, j))
             /\ DOMAIN SubSeq(q, i, j) = 1..Len(SubSeq(q, i, j))
             /\ \A k \in DOMAIN SubSeq(q, i, j) :
                   i + k - 1 \in i..j /\ SubSeq(q, i, j)[k] = q[i + k - 1]
  <2>1. SubSeq(q, i, j) \in Seq(S)
    BY <1>1
  <2>2. Len(SubSeq(q, i, j)) = IF i <= j THEN j - i + 1 ELSE 0
    BY <1>1
  <2>3. DOMAIN SubSeq(q, i, j) = 1..Len(SubSeq(q, i, j))
    BY <2>1
  <2>4. \A k \in 1..Len(SubSeq(q, i, j)) :
           i + k - 1 \in i..j /\ SubSeq(q, i, j)[k] = q[i + k - 1]
    BY <1>1, <2>2
  <2>. QED  BY Zenon, <1>1, <2>1, <2>3, <2>4 DEF IsRequests
<1>3. ASSUME q # <<>>
      PROVE  IsRequests(Tail(q)) /\ IsRequest(Head(q)) /\ Head(q) = q[1]
  <2>1. Tail(q) \in Seq(S) /\ Head(q) \in S /\ Head(q) = q[1]
    BY <1>1, <1>3
  <2>. QED  BY <1>1, <2>1 DEF IsRequests, AreRequests
<1>. QED  BY Zenon, <1>2, <1>3

\* DocumentQueue: the intents of a frame, each as a request.
LEMMA GraphsAreRequests ==
    ASSUME NEW s, IsIntents(s)
    PROVE  /\ IsRequests(Graphs(s))
           /\ \A id \in Nat : IsRequests(InGestures(id, s))
<1>1. PICK S : AreIntents(S) /\ s \in Seq(S)
  BY DEF IsIntents
<1>2. Len(s) \in Nat /\ DOMAIN s = 1..Len(s) /\ \A k \in 1..Len(s) : IsIntent(s[k])
  BY <1>1 DEF AreIntents
<1>3. ASSUME NEW x, IsIntent(x) PROVE IsRequest(Graph(x))
  BY <1>3 DEF IsRequest, Graph
<1>4. ASSUME NEW x, IsIntent(x), NEW id \in Nat PROVE IsRequest(InGesture(id, x))
  BY <1>4 DEF IsRequest, InGesture
<1>5. IsRequests(Graphs(s))
  <2>. DEFINE g == Graphs(s)
              T == {g[k] : k \in 1..Len(s)}
  <2>1. g = [k \in 1..Len(s) |-> Graph(s[k])]
    BY Zenon, <1>2 DEF Graphs
  <2>2. \A k \in 1..Len(s) : g[k] = Graph(s[k])
    BY <2>1
  <2>3. AreRequests(T)
    BY Zenon, <1>2, <1>3, <2>2 DEF AreRequests
  <2>4. g \in [1..Len(s) -> T]
    BY <2>1
  <2>. HIDE DEF g, T
  <2>5. g \in Seq(T)
    BY <1>2, <2>4
  <2>. QED  BY Zenon, <2>3, <2>5 DEF IsRequests, g
<1>6. ASSUME NEW id \in Nat PROVE IsRequests(InGestures(id, s))
  <2>. DEFINE g == InGestures(id, s)
              T == {g[k] : k \in 1..Len(s)}
  <2>1. g = [k \in 1..Len(s) |-> InGesture(id, s[k])]
    BY Zenon, <1>2 DEF InGestures
  <2>2. \A k \in 1..Len(s) : g[k] = InGesture(id, s[k])
    BY <2>1
  <2>3. AreRequests(T)
    BY Zenon, <1>2, <1>4, <2>2 DEF AreRequests
  <2>4. g \in [1..Len(s) -> T]
    BY <2>1
  <2>. HIDE DEF g, T
  <2>5. g \in Seq(T)
    BY <1>2, <2>4
  <2>. QED  BY Zenon, <2>3, <2>5 DEF IsRequests, g
<1>. QED  BY <1>5, <1>6

-----------------------------------------------------------------------------
\* The intents of the vocabulary that belong to no held gesture.
LEMMA LooseIntents ==
    /\ \A n : IsIntent([op |-> "removeNode", id |-> n])
    /\ \A t : IsIntent([op |-> "removeTie", tie |-> t])
    /\ \A n : IsIntent([op |-> "raise", id |-> n])
    /\ \A i, to : IsIntent([op |-> "setInput", input |-> i, to |-> to])
    /\ \A n, to : IsIntent([op |-> "setValue", id |-> n, to |-> to])
    /\ \A t, w : IsIntent([op |-> "releaseWire", tie |-> t, wire |-> w])
    /\ \A to : IsIntent([op |-> "setViewport", to |-> to])
  BY DEF IsIntent, StepOps, GestureOf

\* A tie drawn across wires, and one that more wires join.
LEMMA TieIntents ==
    ASSUME NEW wires, ArePieces(wires)
    PROVE  /\ \A t : IsIntent([op |-> "joinTie", tie |-> t, wires |-> wires])
           /\ \A t, pos : IsIntent([op |-> "tieWires", tie |-> t, pos |-> pos,
                                   wires |-> wires])
<1>1. ASSUME NEW t PROVE IsIntent([op |-> "joinTie", tie |-> t, wires |-> wires])
  <2>1. PICK x : x = [op |-> "joinTie", tie |-> t, wires |-> wires]
    OBVIOUS
  <2>2. x.op = "joinTie" /\ x.wires = wires /\ "gesture" \notin DOMAIN x
    BY <2>1
  <2>3. IsIntent(x)
    BY <2>2 DEF IsIntent, StepOps, GestureOf
  <2>. QED  BY Zenon, <2>1, <2>3
<1>2. ASSUME NEW t, NEW pos
      PROVE  IsIntent([op |-> "tieWires", tie |-> t, pos |-> pos, wires |-> wires])
  <2>1. PICK x : x = [op |-> "tieWires", tie |-> t, pos |-> pos, wires |-> wires]
    OBVIOUS
  <2>2. x.op = "tieWires" /\ x.wires = wires /\ "gesture" \notin DOMAIN x
    BY <2>1
  <2>3. IsIntent(x)
    BY <2>2 DEF IsIntent, StepOps, GestureOf
  <2>. QED  BY Zenon, <2>1, <2>3
<1>. QED  BY <1>1, <1>2

\* A node added with its default bindings.
LEMMA AddIsIntent ==
    ASSUME NEW n \in Nat, NEW pos, NEW bindings, IsFiniteMap(bindings)
    PROVE  IsIntent([op |-> "addNode", id |-> n, pos |-> pos,
                     bindings |-> bindings])
<1>1. PICK x : x = [op |-> "addNode", id |-> n, pos |-> pos, bindings |-> bindings]
  OBVIOUS
<1>2. /\ x.op = "addNode" /\ x.id = n /\ x.bindings = bindings
      /\ "gesture" \notin DOMAIN x
  BY <1>1
<1>3. IsIntent(x)
  BY <1>2 DEF IsIntent, StepOps, GestureOf
<1>. QED  BY Zenon, <1>1, <1>3

\* A selection put to some items.
LEMMA SelectIsIntent ==
    ASSUME NEW to, IsFiniteSet(to)
    PROVE  IsIntent([op |-> "setSelection", to |-> to])
  BY DEF IsIntent, StepOps, GestureOf

\* A frame of a held gesture, and the angle a tie is given without one.
LEMMA FramesAreIntents ==
    /\ \A anchor, offset :
          anchor.gesture \in Nat => IsIntent(MoveFrame(anchor, offset))
    /\ \A anchor, angle :
          anchor.gesture \in Nat => IsIntent(TurnFrame(anchor, angle))
    /\ \A t, angle : IsIntent([op |-> "setTieAngle", tie |-> t, angle |-> angle,
                               gesture |-> {}])
<1>1. ASSUME NEW anchor, NEW offset, anchor.gesture \in Nat
      PROVE  IsIntent(MoveFrame(anchor, offset))
  BY <1>1 DEF MoveFrame, IsIntent, StepOps, GestureOf
<1>2. ASSUME NEW anchor, NEW angle, anchor.gesture \in Nat
      PROVE  IsIntent(TurnFrame(anchor, angle))
  BY <1>2 DEF TurnFrame, IsIntent, StepOps, GestureOf
<1>3. ASSUME NEW t, NEW angle
      PROVE  IsIntent([op |-> "setTieAngle", tie |-> t, angle |-> angle,
                       gesture |-> {}])
  BY DEF IsIntent, StepOps, GestureOf
<1>. QED  BY Zenon, <1>1, <1>2, <1>3

-----------------------------------------------------------------------------
\* The inputs a library declares of a node, and their defaults.
LEMMA DefaultsAreFinite ==
    ASSUME NEW n \in NodeIds, NEW bindings,
           bindings = [i \in {j \in DeclaredInputs(n) : Unwired(j) # {}} |->
                          CHOOSE b \in Unwired(i) : TRUE]
    PROVE  IsFiniteMap(bindings)
<1>1. InputsOf[n] \in Nat
  BY DocumentAssumption
<1>2. PICK ports : ports = 0..(InputsOf[n] - 1) /\ IsFiniteSet(ports)
  BY <1>1, FS_Interval
<1>3. IsFiniteSet(DeclaredInputs(n))
  <2>. DEFINE f == [i \in ports |-> <<n, i>>]
  <2>1. DeclaredInputs(n) = {f[i] : i \in ports}
    BY <1>2 DEF DeclaredInputs
  <2>. HIDE DEF f
  <2>2. IsFiniteSet({f[i] : i \in ports})
    BY <1>2, ImageIsFinite
  <2>. QED  BY Zenon, <2>1, <2>2
<1>4. IsMap(bindings) /\ DOMAIN bindings \subseteq DeclaredInputs(n)
  <2>. DEFINE D == {j \in DeclaredInputs(n) : Unwired(j) # {}}
  <2>1. D \subseteq DeclaredInputs(n)
    OBVIOUS
  <2>. HIDE DEF D
  <2>2. bindings = [i \in D |-> CHOOSE b \in Unwired(i) : TRUE]
    BY Zenon DEF D
  <2>3. IsMap(bindings) /\ DOMAIN bindings = D
    BY <2>2 DEF IsMap
  <2>. QED  BY <2>1, <2>3
<1>. QED  BY <1>3, <1>4, FS_Subset DEF IsFiniteMap

\* What the canvas holds is finite.
LEMMA ItemsAreFinite ==
    ASSUME NEW doc, IsDocument(doc)
    PROVE  /\ IsFiniteSet(AllItems(doc))
           /\ IsFiniteSet(SelectedNodes(doc)) /\ IsFiniteSet(SelectedTies(doc))
<1>1. /\ IsFiniteSet(DOMAIN doc.place) /\ IsFiniteSet(DOMAIN doc.ties)
      /\ IsFiniteSet(doc.selected)
  BY DEF IsDocument, IsFiniteMap
<1>. DEFINE node == [n \in DOMAIN doc.place |-> NodeItem(n)]
            tie  == [t \in DOMAIN doc.ties |-> TieItem(t)]
            id   == [i \in doc.selected |-> i[2]]
<1>2. IsFiniteSet({node[n] : n \in DOMAIN doc.place})
  <2>. HIDE DEF node
  <2>. QED  BY <1>1, ImageIsFinite
<1>3. IsFiniteSet({tie[t] : t \in DOMAIN doc.ties})
  <2>. HIDE DEF tie
  <2>. QED  BY <1>1, ImageIsFinite
<1>4. IsFiniteSet({id[i] : i \in doc.selected})
  <2>. HIDE DEF id
  <2>. QED  BY <1>1, ImageIsFinite
<1>5. AllItems(doc) = {node[n] : n \in DOMAIN doc.place}
                          \cup {tie[t] : t \in DOMAIN doc.ties}
  BY DEF AllItems
<1>6. /\ SelectedNodes(doc) \subseteq {id[i] : i \in doc.selected}
      /\ SelectedTies(doc) \subseteq {id[i] : i \in doc.selected}
  BY DEF SelectedNodes, SelectedTies
<1>. HIDE DEF node, tie, id
<1>. QED  BY <1>2, <1>3, <1>4, <1>5, <1>6, FS_Union, FS_Subset

\* One intent for each id of a finite set, in the order of the ids.
LEMMA OrderedAreIntents ==
    ASSUME NEW ids, IsFiniteSet(ids), NEW s, IsMap(s),
           DOMAIN s = DOMAIN InIdOrder(ids), \A k \in DOMAIN s : IsIntent(s[k])
    PROVE  IsIntents(s)
<1>1. Cardinality(ids) \in Nat /\ DOMAIN s = 1..Cardinality(ids)
  BY InIdOrderIsSeq
<1>. QED  BY <1>1, NumberedAreIntents

\* GraphIntent::remove_selection.
LEMMA RemovesAreIntents ==
    ASSUME NEW ids, IsFiniteSet(ids)
    PROVE  /\ IsIntents(EachOf(ids, LAMBDA n : [op |-> "removeNode", id |-> n]))
           /\ IsIntents(EachOf(ids, LAMBDA t : [op |-> "removeTie", tie |-> t]))
<1>1. PICK order : order = InIdOrder(ids)
  OBVIOUS
<1>2. PICK s : s = [k \in DOMAIN order |-> [op |-> "removeNode", id |-> order[k]]]
  OBVIOUS
<1>3. s = EachOf(ids, LAMBDA n : [op |-> "removeNode", id |-> n])
  BY Zenon, <1>1, <1>2 DEF EachOf
<1>4. /\ IsMap(s) /\ DOMAIN s = DOMAIN order
      /\ \A k \in DOMAIN s : s[k] = [op |-> "removeNode", id |-> order[k]]
  BY <1>2 DEF IsMap
<1>5. \A k \in DOMAIN s : IsIntent(s[k])
  BY Zenon, <1>4, LooseIntents
<1>6. IsIntents(s)
  BY Zenon, <1>1, <1>4, <1>5, OrderedAreIntents
<1>7. PICK t : t = [k \in DOMAIN order |-> [op |-> "removeTie", tie |-> order[k]]]
  OBVIOUS
<1>8. t = EachOf(ids, LAMBDA x : [op |-> "removeTie", tie |-> x])
  BY Zenon, <1>1, <1>7 DEF EachOf
<1>9. /\ IsMap(t) /\ DOMAIN t = DOMAIN order
      /\ \A k \in DOMAIN t : t[k] = [op |-> "removeTie", tie |-> order[k]]
  BY <1>7 DEF IsMap
<1>10. \A k \in DOMAIN t : IsIntent(t[k])
  BY Zenon, <1>9, LooseIntents
<1>11. IsIntents(t)
  BY Zenon, <1>1, <1>9, <1>10, OrderedAreIntents
<1>. QED  BY Zenon, <1>3, <1>6, <1>8, <1>11

\* What the Delete chord raises: the removes, after the severed inputs.
LEMMA RemoveSelectionIsIntents ==
    ASSUME NEW doc, IsDocument(doc)
    PROVE  IsIntents(RemoveSelection(doc))
  BY Zenon, ItemsAreFinite, RemovesAreIntents, IntentsJoin DEF RemoveSelection

\* GraphIntent::click.
LEMMA ClickIsIntents ==
    ASSUME NEW item
    PROVE  IsIntents(ClickOn(item))
<1>1. IsIntent([op |-> "setSelection", to |-> {item}])
  <2>1. IsFiniteSet({item})
    BY FS_Singleton
  <2>. QED  BY Zenon, <2>1, SelectIsIntent
<1>2. IsIntent([op |-> "raise", id |-> item[2]])
  BY Zenon, LooseIntents
<1>3. IsIntents(<<[op |-> "setSelection", to |-> {item}]>>)
  BY Zenon, <1>1, IntentsJoin
<1>4. IsIntents(<<[op |-> "raise", id |-> item[2]]>>)
  BY Zenon, <1>2, IntentsJoin
<1>. QED  BY Zenon, <1>3, <1>4, IntentsJoin DEF ClickOn

-----------------------------------------------------------------------------
FlatBody(seqs, flat, i) == IF i = 1 THEN seqs[i] ELSE flat[i - 1] \o seqs[i]
Flattening == INSTANCE Recursion WITH Body <- FlatBody

\* Sequences of intents one after the other.
LEMMA FlatIsIntents ==
    ASSUME NEW n \in Nat, NEW seqs, IsMap(seqs), DOMAIN seqs = 1..n,
           \A k \in 1..n : IsIntents(seqs[k])
    PROVE  IsIntents(FlattenSeq(seqs))
<1>1. seqs \in Seq({seqs[k] : k \in 1..n}) /\ Len(seqs) = n
  <2>. DEFINE S == {seqs[k] : k \in 1..n}
  <2>1. seqs \in [1..n -> S]
    BY DEF IsMap
  <2>. HIDE DEF S
  <2>. QED  BY <2>1
<1>2. CASE n = 0
  <2>1. seqs = <<>> /\ Len(seqs) = 0
    BY <1>1, <1>2
  <2>2. FlattenSeq(seqs) = seqs
    BY Zenon, <2>1 DEF FlattenSeq
  <2>. QED  BY Zenon, <2>1, <2>2, IntentsJoin
<1>3. CASE n # 0
  <2>1. \E f : f = [i \in 1..n |-> FlatBody(seqs, f, i)]
    <3>. DEFINE rank == [i \in 1..n |-> i]
    <3>1. rank \in [1..n -> Nat] /\ n + 1 \in Nat /\ \A i \in 1..n : rank[i] < n + 1
      OBVIOUS
    <3>2. Flattening!ReadsBelow(seqs, 1..n, rank)
      BY DEF Flattening!ReadsBelow, FlatBody
    <3>. HIDE DEF rank
    <3>. QED  BY <3>1, <3>2, Flattening!RecursionSolved
  <2>2. PICK f : /\ f = [i \in 1..n |-> IF i = 1 THEN seqs[i]
                                       ELSE f[i - 1] \o seqs[i]]
                 /\ FlattenSeq(seqs) = f[n]
    <3>. DEFINE Solves(f) == f = [i \in 1..n |-> IF i = 1 THEN seqs[i]
                                                 ELSE f[i - 1] \o seqs[i]]
                flatten == CHOOSE f : Solves(f)
    <3>1. \E f : Solves(f)
      BY Zenon, <2>1 DEF FlatBody
    <3>2. Solves(flatten)
      <4>. HIDE DEF Solves
      <4>. QED  BY Zenon, <3>1
    <3>3. n # 0 => FlattenSeq(seqs) = flatten[n]
      BY Zenon, <1>1 DEF FlattenSeq
    <3>. HIDE DEF flatten
    <3>. QED  BY Zenon, <1>3, <3>2, <3>3
  <2>. DEFINE I == {k \in 0..n : k = 0 \/ IsIntents(f[k])}
  <2>3. 0 \in I
    OBVIOUS
  <2>4. ASSUME NEW k \in 1..n, k - 1 \in I PROVE k \in I
    <3>1. CASE k = 1
      <4>1. f[k] = seqs[k]
        BY <2>2, <3>1
      <4>. QED  BY <4>1
    <3>2. CASE k # 1
      <4>1. f[k] = f[k - 1] \o seqs[k]
        BY <2>2, <3>2
      <4>2. IsIntents(f[k - 1]) /\ IsIntents(seqs[k])
        BY <2>4, <3>2
      <4>3. IsIntents(f[k])
        BY Zenon, <4>1, <4>2, IntentsJoin
      <4>. QED  BY <4>3
    <3>. QED  BY <3>1, <3>2
  <2>5. n \in I
    <3>. HIDE DEF I
    <3>. QED  BY <2>3, <2>4, Flattening!StepsReach
  <2>. QED  BY <1>3, <2>2, <2>5
<1>. QED  BY <1>2, <1>3

-----------------------------------------------------------------------------
\* GraphIntent::duplicate: the copy of a node.
LEMMA CloneIsIntent ==
    ASSUME NEW doc, IsDocument(doc), NEW clones, NEW keep \in BOOLEAN, NEW n,
           clones[n] \in Nat
    PROVE  IsIntent(CloneNode(doc, clones, keep, n))
<1>. DEFINE own == {k \in SeededInputs(doc, clones, keep) : k[1] = n}
            key == [j \in own |-> <<clones[n], j[2]>>]
            D   == {<<clones[n], j[2]>> : j \in own}
            value(i) == CHOOSE b \in Seed(doc, <<n, i[2]>>, keep) : TRUE
<1>1. IsFiniteSet(own)
  <2>1. own \subseteq DOMAIN doc.bindings
    BY DEF SeededInputs
  <2>2. IsFiniteSet(DOMAIN doc.bindings)
    BY DEF IsDocument, IsFiniteMap
  <2>. HIDE DEF own
  <2>. QED  BY <2>1, <2>2, FS_Subset
<1>2. IsFiniteSet(D)
  <2>1. D = {key[j] : j \in own}
    <3>. HIDE DEF own
    <3>. QED  OBVIOUS
  <2>2. IsFiniteSet({key[j] : j \in own})
    <3>. HIDE DEF own, key
    <3>. QED  BY <1>1, ImageIsFinite
  <2>. QED  BY Zenon, <2>1, <2>2
<1>. HIDE DEF value, D
<1>3. PICK bindings : bindings = [i \in D |-> value(i)]
  OBVIOUS
<1>4. IsFiniteMap(bindings)
  <2>1. IsMap(bindings) /\ DOMAIN bindings = D
    BY <1>3 DEF IsMap
  <2>. QED  BY Zenon, <1>2, <2>1 DEF IsFiniteMap
<1>5. CloneNode(doc, clones, keep, n) =
         [op |-> "addNode", id |-> clones[n], pos |-> doc.place[n].pos + 1,
          bindings |-> bindings]
  BY Zenon, <1>3 DEF CloneNode, D, value
<1>6. PICK pos : pos = doc.place[n].pos + 1
  OBVIOUS
<1>. HIDE DEF own, key
<1>7. IsIntent([op |-> "addNode", id |-> clones[n], pos |-> pos,
                bindings |-> bindings])
  BY Zenon, <1>4, AddIsIntent
<1>. QED  BY Zenon, <1>5, <1>6, <1>7

\* The copy of a tie, with its angle if it is not the automatic one.
LEMMA TieCloneIsIntents ==
    ASSUME NEW doc, IsDocument(doc), NEW clones, NEW tied, NEW t
    PROVE  IsIntents(CloneTie(doc, clones, tied, t))
<1>. DEFINE through == Through(doc.routes, t)
            original == [v \in {ClonedWire(w, clones) : w \in through} |->
                            CHOOSE w \in through : ClonedWire(w, clones) = v]
            wires == [v \in DOMAIN original |->
                         MadeBefore(doc.routes[original[v]], tied, t)]
<1>0. ArePieces(wires)
  <2>1. SUFFICES ASSUME NEW v \in DOMAIN original
                 PROVE  MadeBefore(doc.routes[original[v]], tied, t) \in Nat
    BY DEF ArePieces
  <2>2. original[v] \in through
    OBVIOUS
  <2>3. PICK route : route = doc.routes[original[v]]
    OBVIOUS
  <2>4. IsRoute(route)
    BY Zenon, <2>2, <2>3 DEF Through, IsDocument, AreRoutes
  <2>5. IsFiniteSet(DOMAIN route)
    BY <2>4, RouteParts
  <2>6. PICK S : S = {k \in DOMAIN route :
                         /\ \E j \in DOMAIN route : route[j] = t /\ k < j
                         /\ route[k] \in DOMAIN tied /\ route[k] < t}
    OBVIOUS
  <2>7. S \subseteq DOMAIN route
    BY <2>6
  <2>8. Cardinality(S) \in Nat
    BY <2>5, <2>7, FS_Subset, FS_CardinalityType
  <2>. QED  BY Zenon, <2>3, <2>6, <2>8 DEF MadeBefore
<1>1. PICK made : /\ ArePieces(made)
                  /\ CloneTie(doc, clones, tied, t) =
                       <<[op |-> "tieWires", tie |-> tied[t],
                          pos |-> doc.ties[t].pos + 1, wires |-> made]>> \o
                       IF doc.ties[t].angle = "auto" THEN <<>>
                       ELSE <<[op |-> "setTieAngle", tie |-> tied[t],
                               gesture |-> {}, angle |-> doc.ties[t].angle]>>
  BY Zenon, <1>0 DEF CloneTie
<1>2. PICK pos, angle, tie :
         pos = doc.ties[t].pos + 1 /\ angle = doc.ties[t].angle /\ tie = tied[t]
  OBVIOUS
<1>3. PICK x : x = [op |-> "tieWires", tie |-> tie, pos |-> pos, wires |-> made]
  OBVIOUS
<1>4. PICK y : y = [op |-> "setTieAngle", tie |-> tie, gesture |-> {},
                    angle |-> angle]
  OBVIOUS
<1>5. y = [op |-> "setTieAngle", tie |-> tie, angle |-> angle, gesture |-> {}]
  BY <1>4
<1>6. IsIntent(x)
  BY Zenon, <1>1, <1>3, TieIntents
<1>7. IsIntent(y)
  BY Zenon, <1>5, FramesAreIntents
<1>8. IsIntents(<<x>>) /\ IsIntents(<<y>>)
  BY Zenon, <1>6, <1>7, IntentsJoin
<1>9. CloneTie(doc, clones, tied, t) =
         <<x>> \o IF angle = "auto" THEN <<>> ELSE <<y>>
  BY Zenon, <1>1, <1>2, <1>3, <1>4
<1>. QED  BY Zenon, <1>8, <1>9, IntentsJoin

\* The copy of a selection.
LEMMA DuplicateIsIntents ==
    ASSUME NEW doc, IsDocument(doc), NEW keep \in BOOLEAN, NEW clones, NEW tied,
           IsFiniteSet(DOMAIN clones), DOMAIN clones \subseteq Nat,
           \A n \in DOMAIN clones : clones[n] \in Nat,
           IsFiniteSet(DOMAIN tied)
    PROVE  IsIntents(Duplicate(doc, clones, tied, keep))
<1>. DEFINE inner == {i \in DOMAIN doc.bindings :
                         i[1] \in DOMAIN clones /\ IsInner(doc, i, clones)}
            heard == {s \in doc.subs :
                         s[2] \in DOMAIN clones /\ (keep \/ s[1] \in DOMAIN clones)}
            nodes == EachOf(DOMAIN clones, LAMBDA n : CloneNode(doc, clones, keep, n))
            wires == {CloneWire(doc, clones, i) : i \in inner}
            subs  == {CloneSub(clones, s) : s \in heard}
            ties  == EachOf(DOMAIN tied, LAMBDA t : CloneTie(doc, clones, tied, t))
            items == {NodeItem(clones[n]) : n \in DOMAIN clones}
                         \cup {TieItem(tied[t]) : t \in DOMAIN tied}
<1>1. IsIntents(nodes)
  <2>1. PICK order : order = InIdOrder(DOMAIN clones)
    OBVIOUS
  <2>2. nodes = [k \in DOMAIN order |-> CloneNode(doc, clones, keep, order[k])]
    BY Zenon, <2>1 DEF EachOf
  <2>3. /\ IsMap(nodes) /\ DOMAIN nodes = DOMAIN order
        /\ \A k \in DOMAIN order :
              nodes[k] = CloneNode(doc, clones, keep, order[k])
    <3>. HIDE DEF nodes
    <3>. QED  BY <2>2 DEF IsMap
  <2>4. \A k \in DOMAIN order : order[k] \in DOMAIN clones
    BY <2>1, InIdOrderHoldsIds
  <2>. HIDE DEF nodes
  <2>5. \A k \in DOMAIN nodes : IsIntent(nodes[k])
    BY Zenon, <2>3, <2>4, CloneIsIntent
  <2>. QED  BY Zenon, <2>1, <2>3, <2>5, OrderedAreIntents
<1>2. IsIntents(SetToSeq(wires))
  <2>. DEFINE f == [i \in inner |-> CloneWire(doc, clones, i)]
  <2>1. IsFiniteSet(inner)
    <3>1. inner \subseteq DOMAIN doc.bindings
      OBVIOUS
    <3>2. IsFiniteSet(DOMAIN doc.bindings)
      BY DEF IsDocument, IsFiniteMap
    <3>. HIDE DEF inner
    <3>. QED  BY <3>1, <3>2, FS_Subset
  <2>. HIDE DEF inner
  <2>2. wires = {f[i] : i \in inner}
    OBVIOUS
  <2>3. AreIntents(wires)
    BY Zenon, LooseIntents DEF AreIntents, CloneWire
  <2>4. IsFiniteSet({f[i] : i \in inner})
    <3>. HIDE DEF f
    <3>. QED  BY <2>1, ImageIsFinite
  <2>5. IsFiniteSet(wires)
    BY Zenon, <2>2, <2>4
  <2>. HIDE DEF wires
  <2>. QED  BY Zenon, <2>3, <2>5, SetsAreIntents
<1>3. IsIntents(SetToSeq(subs))
  <2>. DEFINE f == [s \in heard |-> CloneSub(clones, s)]
  <2>1. IsFiniteSet(heard)
    <3>1. heard \subseteq doc.subs
      OBVIOUS
    <3>2. IsFiniteSet(doc.subs)
      BY DEF IsDocument
    <3>. HIDE DEF heard
    <3>. QED  BY <3>1, <3>2, FS_Subset
  <2>. HIDE DEF heard
  <2>2. subs = {f[s] : s \in heard}
    OBVIOUS
  <2>3. AreIntents(subs)
    <3>1. SUFFICES ASSUME NEW s \in heard PROVE IsIntent(CloneSub(clones, s))
      BY Zenon DEF AreIntents
    <3>2. PICK x : x = CloneSub(clones, s)
      OBVIOUS
    <3>3. x.op = "setSubscription" /\ "gesture" \notin DOMAIN x
      BY <3>2 DEF CloneSub
    <3>4. IsIntent(x)
      BY <3>3 DEF IsIntent, StepOps, GestureOf
    <3>. QED  BY Zenon, <3>2, <3>4
  <2>4. IsFiniteSet({f[s] : s \in heard})
    <3>. HIDE DEF f
    <3>. QED  BY <2>1, ImageIsFinite
  <2>5. IsFiniteSet(subs)
    BY Zenon, <2>2, <2>4
  <2>. HIDE DEF subs
  <2>. QED  BY Zenon, <2>3, <2>5, SetsAreIntents
<1>4. IsIntents(FlattenSeq(ties))
  <2>1. PICK order : order = InIdOrder(DOMAIN tied)
    OBVIOUS
  <2>2. ties = [k \in DOMAIN order |-> CloneTie(doc, clones, tied, order[k])]
    BY Zenon, <2>1 DEF EachOf
  <2>3. /\ IsMap(ties) /\ DOMAIN ties = DOMAIN order
        /\ \A k \in DOMAIN order : ties[k] = CloneTie(doc, clones, tied, order[k])
    <3>. HIDE DEF ties
    <3>. QED  BY <2>2 DEF IsMap
  <2>4. PICK n \in Nat : DOMAIN order = 1..n
    BY <2>1, InIdOrderIsSeq
  <2>. HIDE DEF ties
  <2>5. \A k \in 1..n : IsIntents(ties[k])
    BY Zenon, <2>3, <2>4, TieCloneIsIntents
  <2>6. DOMAIN ties = 1..n
    BY <2>3, <2>4
  <2>. QED  BY Zenon, <2>3, <2>5, <2>6, FlatIsIntents
<1>5. IsIntents(<<[op |-> "setSelection", to |-> items]>>)
  <2>. DEFINE f == [n \in DOMAIN clones |-> NodeItem(clones[n])]
              g == [t \in DOMAIN tied |-> TieItem(tied[t])]
  <2>1. items = {f[n] : n \in DOMAIN clones} \cup {g[t] : t \in DOMAIN tied}
    OBVIOUS
  <2>2. IsFiniteSet({f[n] : n \in DOMAIN clones})
    <3>. HIDE DEF f
    <3>. QED  BY ImageIsFinite
  <2>3. IsFiniteSet({g[t] : t \in DOMAIN tied})
    <3>. HIDE DEF g
    <3>. QED  BY ImageIsFinite
  <2>4. IsFiniteSet(items)
    <3>. HIDE DEF f, g, items
    <3>. QED  BY <2>1, <2>2, <2>3, FS_Union
  <2>. HIDE DEF items
  <2>. QED  BY Zenon, <2>4, SelectIsIntent, IntentsJoin
<1>6. Duplicate(doc, clones, tied, keep) =
         nodes \o SetToSeq(wires) \o SetToSeq(subs) \o FlattenSeq(ties)
             \o <<[op |-> "setSelection", to |-> items]>>
  BY Zenon DEF Duplicate
<1>. HIDE DEF nodes, wires, subs, ties, items
<1>. QED  BY Zenon, <1>1, <1>2, <1>3, <1>4, <1>5, <1>6, IntentsJoin

-----------------------------------------------------------------------------
\* What a click, a rubber band, a menu pick or a widget of a node asks for.
LEMMA EditsAreIntents ==
    ASSUME NEW doc, IsDocument(doc), NEW edit \in Edits(doc)
    PROVE  IsIntents(edit)
<1>1. CASE \E item \in AllItems(doc) : edit = ClickOn(item)
  BY Zenon, <1>1, ClickIsIntents
<1>2. CASE edit = <<[op |-> "setSelection", to |-> AllItems(doc)]>>
  BY Zenon, <1>2, ItemsAreFinite, SelectIsIntent, IntentsJoin
<1>3. CASE \E x \in InputEdits(doc) : edit = <<x>>
  <2>1. PICK x \in InputEdits(doc) : edit = <<x>>
    BY <1>3
  <2>2. x.op = "setInput" /\ "gesture" \notin DOMAIN x
    BY <2>1 DEF InputEdits
  <2>3. IsIntent(x)
    BY <2>2 DEF IsIntent, StepOps, GestureOf
  <2>. QED  BY Zenon, <2>1, <2>3, IntentsJoin
<1>4. CASE \E p : edit = <<[op |-> "setSubscription", emitter |-> p[1],
                         subscriber |-> p[2], to |-> p \notin doc.subs]>>
  <2>1. PICK p : edit = <<[op |-> "setSubscription", emitter |-> p[1],
                        subscriber |-> p[2], to |-> p \notin doc.subs]>>
    BY <1>4
  <2>2. PICK to : to = (p \notin doc.subs)
    OBVIOUS
  <2>3. PICK x : x = [op |-> "setSubscription", emitter |-> p[1],
                      subscriber |-> p[2], to |-> p \notin doc.subs]
    OBVIOUS
  <2>4. x.op = "setSubscription" /\ "gesture" \notin DOMAIN x
    BY <2>3
  <2>5. IsIntent(x)
    BY <2>4 DEF IsIntent, StepOps, GestureOf
  <2>. QED  BY Zenon, <2>1, <2>3, <2>5, IntentsJoin
<1>5. CASE \E n, v : edit = <<[op |-> "setValue", id |-> n, to |-> v]>>
  BY Zenon, <1>5, LooseIntents, IntentsJoin
<1>6. CASE \E w : edit = <<[op |-> "releaseWire", tie |-> w[1], wire |-> w[2]]>>
  BY Zenon, <1>6, LooseIntents, IntentsJoin
<1>7. CASE \E t : edit = <<[op |-> "setTieAngle", tie |-> t, angle |-> "auto",
                         gesture |-> {}]>>
  BY Zenon, <1>7, FramesAreIntents, IntentsJoin
<1>. DEFINE clicks == {ClickOn(item) : item \in AllItems(doc)}
            all    == {<<[op |-> "setSelection", to |-> AllItems(doc)]>>}
            inputs == {<<e>> : e \in {x \in InputEdits(doc) : Admitted(x)}}
            subs   == {<<[op |-> "setSubscription", emitter |-> s[1],
                          subscriber |-> s[2], to |-> s \notin doc.subs]>> :
                         s \in {p \in (DOMAIN doc.nodes) \X (DOMAIN doc.nodes) :
                                   AdmitsSub(p[1], p[2])}}
            values == {<<[op |-> "setValue", id |-> n, to |-> v]>> :
                         n \in DOMAIN doc.nodes, v \in Values}
            leaves == {<<[op |-> "releaseWire", tie |-> w[1], wire |-> w[2]]>> :
                         w \in {p \in (DOMAIN doc.ties) \X (DOMAIN doc.routes) :
                                   p[1] \in ToSet(doc.routes[p[2]])}}
            angles == {<<[op |-> "setTieAngle", tie |-> t, angle |-> "auto",
                          gesture |-> {}]>> : t \in DOMAIN doc.ties}
<1>8. Edits(doc) = clicks \cup all \cup inputs \cup subs \cup values
                       \cup leaves \cup angles
  BY DEF Edits
<1>9. /\ edit \in clicks => IsIntents(edit)
      /\ edit \in all => IsIntents(edit)
  BY Zenon, <1>1, <1>2
<1>10. edit \in inputs => IsIntents(edit)
  BY Zenon, <1>3
<1>11. edit \in subs => IsIntents(edit)
  BY Zenon, <1>4
<1>12. /\ edit \in leaves => IsIntents(edit)
       /\ edit \in angles => IsIntents(edit)
  BY Zenon, <1>6, <1>7
<1>13. ASSUME edit \in values PROVE IsIntents(edit)
  <2>1. \E n, v : edit = <<[op |-> "setValue", id |-> n, to |-> v]>>
    BY <1>13
  <2>. QED  BY Zenon, <1>5, <2>1
<1>. HIDE DEF clicks, all, inputs, subs, values, leaves, angles
<1>. QED  BY <1>8, <1>9, <1>10, <1>11, <1>12, <1>13

\* Breaker release.
LEMMA SeveredIsIntents ==
    ASSUME NEW nodes, IsFiniteSet(nodes), NEW inputs, IsFiniteSet(inputs),
           NEW subs, IsFiniteSet(subs)
    PROVE  IsIntents(Severed(nodes, inputs, subs))
<1>. DEFINE own   == {j \in inputs : j[1] \notin nodes}
            heard == {x \in subs : {x[1], x[2]} \cap nodes = {}}
            cut(i) == [op |-> "setInput", input |-> i, to |-> {}]
            leave(s) == [op |-> "setSubscription", emitter |-> s[1],
                         subscriber |-> s[2], to |-> FALSE]
            wires == {cut(i) : i \in own}
            events == {leave(s) : s \in heard}
<1>1. IsIntents(EachOf(nodes, LAMBDA n : [op |-> "removeNode", id |-> n]))
  BY Zenon, RemovesAreIntents
<1>2. IsIntents(SetToSeq(wires))
  <2>. DEFINE f == [i \in own |-> cut(i)]
  <2>1. IsFiniteSet(own)
    <3>1. own \subseteq inputs
      OBVIOUS
    <3>. HIDE DEF own
    <3>. QED  BY <3>1, FS_Subset
  <2>. HIDE DEF own
  <2>2. wires = {f[i] : i \in own}
    OBVIOUS
  <2>3. AreIntents(wires)
    BY Zenon, LooseIntents DEF AreIntents
  <2>4. IsFiniteSet({f[i] : i \in own})
    <3>. HIDE DEF f
    <3>. QED  BY <2>1, ImageIsFinite
  <2>5. IsFiniteSet(wires)
    BY Zenon, <2>2, <2>4
  <2>. HIDE DEF wires
  <2>. QED  BY Zenon, <2>3, <2>5, SetsAreIntents
<1>3. IsIntents(SetToSeq(events))
  <2>. DEFINE f == [s \in heard |-> leave(s)]
  <2>1. IsFiniteSet(heard)
    <3>1. heard \subseteq subs
      OBVIOUS
    <3>. HIDE DEF heard
    <3>. QED  BY <3>1, FS_Subset
  <2>. HIDE DEF heard
  <2>2. events = {f[s] : s \in heard}
    OBVIOUS
  <2>3. AreIntents(events)
    <3>1. SUFFICES ASSUME NEW s \in heard PROVE IsIntent(leave(s))
      BY Zenon DEF AreIntents
    <3>2. PICK x : x = leave(s)
      OBVIOUS
    <3>3. x.op = "setSubscription" /\ "gesture" \notin DOMAIN x
      BY <3>2
    <3>4. IsIntent(x)
      BY <3>3 DEF IsIntent, StepOps, GestureOf
    <3>. QED  BY Zenon, <3>2, <3>4
  <2>4. IsFiniteSet({f[s] : s \in heard})
    <3>. HIDE DEF f
    <3>. QED  BY <2>1, ImageIsFinite
  <2>5. IsFiniteSet(events)
    BY Zenon, <2>2, <2>4
  <2>. HIDE DEF events
  <2>. QED  BY Zenon, <2>3, <2>5, SetsAreIntents
<1>4. Severed(nodes, inputs, subs) =
         EachOf(nodes, LAMBDA n : [op |-> "removeNode", id |-> n])
             \o SetToSeq(wires) \o SetToSeq(events)
  BY Zenon DEF Severed
<1>. HIDE DEF wires, events
<1>. QED  BY Zenon, <1>1, <1>2, <1>3, <1>4, IntentsJoin

\* PreviewSpawn::intents.
LEMMA SpawnIsIntents ==
    ASSUME NEW n \in NodeIds, NEW pos, NEW output
    PROVE  IsIntents(Spawn(n, pos, output))
<1>1. PICK bindings :
         bindings = [i \in {j \in DeclaredInputs(n) : Unwired(j) # {}} |->
                        CHOOSE b \in Unwired(i) : TRUE]
  OBVIOUS
<1>2. IsFiniteMap(bindings)
  BY Zenon, <1>1, DefaultsAreFinite
<1>3. PICK x : x = [op |-> "addNode", id |-> n, pos |-> pos, bindings |-> bindings]
  OBVIOUS
<1>4. PICK y : y = [op |-> "setInput", input |-> <<n, 0>>, to |-> {Wire(output)}]
  OBVIOUS
<1>5. n \in Nat
  BY DocumentAssumption
<1>6. IsIntent(x) /\ IsIntent(y)
  BY Zenon, <1>2, <1>3, <1>4, <1>5, AddIsIntent, LooseIntents
<1>7. Spawn(n, pos, output) = <<x, y>>
  BY Zenon, <1>1, <1>3, <1>4 DEF Spawn
<1>8. <<x, y>> = <<x>> \o <<y>>
  OBVIOUS
<1>. QED  BY Zenon, <1>6, <1>7, <1>8, IntentsJoin

\* Two intents.
LEMMA PairIsIntents ==
    ASSUME NEW x, NEW y, IsIntent(x), IsIntent(y)
    PROVE  IsIntents(<<x, y>>)
<1>1. AreIntents({x, y})
  BY DEF AreIntents
<1>2. <<x, y>> \in Seq({x, y})
  OBVIOUS
<1>. QED  BY <1>1, <1>2 DEF IsIntents

\* The release of the tie line.
LEMMA ReleasedLineIsIntents ==
    ASSUME NEW doc, NEW l, NEW fresh, ArePieces(l.wires)
    PROVE  IsIntents(ReleasedLine(doc, l, fresh))
<1>. DEFINE select(t) == [op |-> "setSelection", to |-> {TieItem(t)}]
            free(t) == {w \in DOMAIN l.wires : t \notin ToSet(RouteIn(doc, w))}
            join(t) == [op |-> "joinTie", tie |-> t,
                        wires |-> [w \in free(t) |-> l.wires[w]]]
            tie == [op |-> "tieWires", tie |-> fresh, pos |-> 0, wires |-> l.wires]
<1>1. ASSUME NEW t PROVE IsIntent(select(t))
  <2>1. IsFiniteSet({TieItem(t)})
    BY FS_Singleton
  <2>. QED  BY Zenon, <2>1, SelectIsIntent
<1>2. ASSUME NEW t PROVE IsIntents(<<join(t), select(t)>>)
  <2>1. IsIntent(join(t))
    <3>1. ArePieces([w \in free(t) |-> l.wires[w]])
      BY DEF ArePieces
    <3>. QED  BY Zenon, <3>1, TieIntents
  <2>. QED  BY Zenon, <1>1, <2>1, PairIsIntents
<1>3. IsIntents(<<tie, select(fresh)>>)
  <2>1. IsIntent(tie)
    BY Zenon, TieIntents
  <2>. QED  BY Zenon, <1>1, <2>1, PairIsIntents
<1>4. CASE l.tie # {}
  <2>1. PICK t : t = CHOOSE x \in l.tie : TRUE
    OBVIOUS
  <2>2. ReleasedLine(doc, l, fresh) =
           IF free(t) = {} THEN <<>> ELSE <<join(t), select(t)>>
    BY <1>4, <2>1 DEF ReleasedLine
  <2>. QED  BY Zenon, <1>2, <2>2, IntentsJoin
<1>5. CASE l.tie = {} /\ l.wires = Nothing
  <2>1. ReleasedLine(doc, l, fresh) = <<>>
    BY <1>5 DEF ReleasedLine
  <2>. QED  BY Zenon, <2>1, IntentsJoin
<1>6. CASE l.tie = {} /\ l.wires # Nothing
  <2>1. ReleasedLine(doc, l, fresh) = <<tie, select(fresh)>>
    BY <1>6 DEF ReleasedLine
  <2>. QED  BY Zenon, <1>3, <2>1
<1>. QED  BY <1>4, <1>5, <1>6

-----------------------------------------------------------------------------
\* What the canvas keeps: the requests it raised, the gesture it holds, the
\* number of the last one, and the wires the tie line crosses.
IsAnchor(a) == "gesture" \in DOMAIN a /\ a.gesture \in Nat
LineHolds == \A l \in line : ArePieces(l.wires)
CanvasHolds ==
    /\ IsRequests(queue) /\ (\A a \in held : IsAnchor(a)) /\ lastGesture \in Nat
    /\ LineHolds

\* A frame touches nothing but the canvas.
LeavesTheRest ==
    UNCHANGED <<document, dirty, history, stamp, signals, committing, file>>

\* What is raised joins the queue, and no more changes.
LEMMA RaiseKeeps ==
    ASSUME IsRequests(queue), NEW requests, IsRequests(requests), Raise(requests)
    PROVE  IsRequests(queue') /\ LeavesTheRest
<1>1. queue' = queue \o requests /\ LeavesTheRest
  BY DEF Raise, LeavesTheRest, disk
<1>. QED  BY Zenon, <1>1, RequestsJoin

\* The same of intents raised one request each.
LEMMA RaiseGraphsKeeps ==
    ASSUME IsRequests(queue), NEW s, IsIntents(s), Raise(Graphs(s))
    PROVE  IsRequests(queue') /\ LeavesTheRest
  BY Zenon, GraphsAreRequests, RaiseKeeps

\* The sorts of request a frame raises one at a time.
LEMMA OneRequest ==
    /\ \A x : IsIntent(x) => IsRequests(<<Graph(x)>>)
    /\ \A shows, n : IsRequests(<<View(shows, n)>>)
    /\ \A id, x : id \in Nat /\ IsIntent(x) => IsRequests(<<Cancel(id, x)>>)
<1>1. ASSUME NEW x, IsIntent(x) PROVE IsRequest(Graph(x))
  BY <1>1 DEF IsRequest, Graph
<1>2. ASSUME NEW shows, NEW n PROVE IsRequest(View(shows, n))
  BY DEF IsRequest, View
<1>3. ASSUME NEW id \in Nat, NEW x, IsIntent(x) PROVE IsRequest(Cancel(id, x))
  BY <1>3 DEF IsRequest, Cancel
<1>. QED  BY Zenon, <1>1, <1>2, <1>3, RequestsJoin

-----------------------------------------------------------------------------
\* The clicks, picks, cuts and chords that hold no gesture.
LEMMA EditsKeepTheCanvas ==
    ASSUME CanvasHolds, IsDocument(document),
           EditGraph \/ BreakAcross \/ ShowTab \/ MoveCamera \/ DeleteSelection
    PROVE  CanvasHolds' /\ LeavesTheRest
<1>1. /\ IsRequests(queue) /\ (\A a \in held : IsAnchor(a)) /\ lastGesture \in Nat
      /\ LineHolds
  BY DEF CanvasHolds
<1>2. UNCHANGED <<held, line, lastGesture>>
  BY DEF EditGraph, BreakAcross, ShowTab, MoveCamera, DeleteSelection
<1>3. SUFFICES IsRequests(queue') /\ LeavesTheRest
  BY <1>1, <1>2 DEF CanvasHolds, LineHolds
<1>4. CASE EditGraph
  <2>1. PICK s \in Edits(document) : Raise(Graphs(s))
    BY <1>4 DEF EditGraph
  <2>. QED  BY Zenon, <1>1, <2>1, EditsAreIntents, RaiseGraphsKeeps
<1>5. CASE BreakAcross
  <2>1. PICK nodes \in SUBSET DOMAIN document.place,
             inputs \in SUBSET WiredInputs(document),
             subs \in SUBSET document.subs :
             Raise(Graphs(Severed(nodes, inputs, subs)))
    BY <1>5 DEF BreakAcross, AtMostOne
  <2>2. /\ IsFiniteSet(DOMAIN document.place) /\ IsFiniteSet(document.subs)
        /\ IsFiniteSet(DOMAIN document.bindings)
    BY DEF IsDocument, IsFiniteMap
  <2>3. inputs \subseteq DOMAIN document.bindings
    BY DEF WiredInputs
  <2>4. IsFiniteSet(nodes) /\ IsFiniteSet(inputs) /\ IsFiniteSet(subs)
    BY <2>2, <2>3, FS_Subset
  <2>. QED  BY Zenon, <1>1, <2>1, <2>4, SeveredIsIntents, RaiseGraphsKeeps
<1>6. CASE ShowTab
  <2>1. PICK n : Raise(<<View(n \notin document.tabs, n)>>)
    BY <1>6 DEF ShowTab
  <2>2. IsRequest(View(n \notin document.tabs, n))
    <3>1. PICK r : r = View(n \notin document.tabs, n)
      OBVIOUS
    <3>2. r.kind = "view"
      BY <3>1 DEF View
    <3>3. IsRequest(r)
      BY <3>2 DEF IsRequest
    <3>. QED  BY Zenon, <3>1, <3>3
  <2>. QED  BY Zenon, <1>1, <2>1, <2>2, RequestsJoin, RaiseKeeps
<1>7. CASE MoveCamera
  <2>1. Raise(<<Graph([op |-> "setViewport", to |-> 1])>>)
    BY Zenon, <1>7 DEF MoveCamera
  <2>. QED  BY Zenon, <1>1, <2>1, LooseIntents, OneRequest, RaiseKeeps
<1>8. CASE DeleteSelection
  <2>1. Raise(Graphs(RemoveSelection(document)))
    BY <1>8 DEF DeleteSelection
  <2>. QED  BY Zenon, <1>1, <2>1, RemoveSelectionIsIntents, RaiseGraphsKeeps
<1>. QED  BY <1>4, <1>5, <1>6, <1>7, <1>8

\* A node from the palette.
LEMMA AddNodeKeepsTheCanvas ==
    ASSUME CanvasHolds, AddNode
    PROVE  CanvasHolds' /\ LeavesTheRest
<1>1. /\ IsRequests(queue) /\ (\A a \in held : IsAnchor(a)) /\ lastGesture \in Nat
      /\ LineHolds
  BY DEF CanvasHolds
<1>2. UNCHANGED <<held, line, lastGesture>>
  BY DEF AddNode
<1>3. SUFFICES IsRequests(queue') /\ LeavesTheRest
  BY <1>1, <1>2 DEF CanvasHolds, LineHolds
<1>4. PICK n \in FreshNodes :
         Raise(<<Graph([op |-> "addNode", id |-> n, pos |-> 0,
                        bindings |-> [i \in {j \in DeclaredInputs(n) :
                                                Unwired(j) # {}} |->
                            CHOOSE b \in Unwired(i) : TRUE]])>>)
  BY Zenon DEF AddNode
<1>5. n \in NodeIds /\ n \in Nat
  BY DocumentAssumption DEF FreshNodes
<1>6. PICK bindings : bindings = [i \in {j \in DeclaredInputs(n) :
                                             Unwired(j) # {}} |->
                                     CHOOSE b \in Unwired(i) : TRUE]
  OBVIOUS
<1>7. IsFiniteMap(bindings)
  BY Zenon, <1>5, <1>6, DefaultsAreFinite
<1>8. IsIntent([op |-> "addNode", id |-> n, pos |-> 0, bindings |-> bindings])
  BY Zenon, <1>5, <1>7, AddIsIntent
<1>. QED  BY Zenon, <1>1, <1>4, <1>6, <1>8, OneRequest, RaiseKeeps

\* The duplicate chord and the menu's pick.
LEMMA DuplicateKeepsTheCanvas ==
    ASSUME CanvasHolds, IsDocument(document), DuplicateChord \/ DuplicatePick
    PROVE  CanvasHolds' /\ LeavesTheRest
<1>1. /\ IsRequests(queue) /\ (\A a \in held : IsAnchor(a)) /\ lastGesture \in Nat
      /\ LineHolds
  BY DEF CanvasHolds
<1>2. PICK keep \in BOOLEAN : DuplicateSelection(keep)
  BY Zenon DEF DuplicateChord, DuplicatePick
<1>3. UNCHANGED <<held, line, lastGesture>>
  BY Zenon, <1>2 DEF DuplicateSelection
<1>4. SUFFICES IsRequests(queue') /\ LeavesTheRest
  BY <1>1, <1>3 DEF CanvasHolds, LineHolds
<1>5. PICK clones \in [Copied(document) -> FreshNodes],
           tied \in [TiesWithin(document, Copied(document)) -> FreshTies] :
           Raise(Graphs(Duplicate(document, clones, tied, keep)))
  BY Zenon, <1>2 DEF DuplicateSelection
<1>6. DOMAIN clones \subseteq DOMAIN document.nodes /\ DOMAIN tied \subseteq DOMAIN document.ties
  BY DEF Copied, TiesWithin
<1>7. /\ IsFiniteSet(DOMAIN document.nodes) /\ DOMAIN document.nodes \subseteq Nat
      /\ IsFiniteSet(DOMAIN document.ties)
  BY DEF IsDocument, IsFiniteMap
<1>8. IsFiniteSet(DOMAIN clones) /\ IsFiniteSet(DOMAIN tied)
  BY <1>6, <1>7, FS_Subset
<1>9. DOMAIN clones \subseteq Nat
  BY <1>6, <1>7
<1>10. \A n \in DOMAIN clones : clones[n] \in Nat
  <2>1. FreshNodes \subseteq Nat
    BY DocumentAssumption DEF FreshNodes
  <2>. QED  BY <2>1
<1>11. IsIntents(Duplicate(document, clones, tied, keep))
  BY Zenon, <1>8, <1>9, <1>10, DuplicateIsIntents
<1>. QED  BY Zenon, <1>1, <1>5, <1>11, RaiseGraphsKeeps

-----------------------------------------------------------------------------
\* A press that latches a gesture.
LEMMA GrabsKeepTheCanvas ==
    ASSUME CanvasHolds, GrabItem \/ GrabSpawn \/ GrabKnob
    PROVE  CanvasHolds' /\ LeavesTheRest
<1>1. IsRequests(queue) /\ lastGesture \in Nat /\ LineHolds
  BY DEF CanvasHolds
<1>0. line' = line
  BY DEF GrabItem, GrabSpawn, GrabKnob
<1>2. lastGesture' = Gesture /\ Gesture \in Nat
  BY <1>1 DEF GrabItem, GrabSpawn, GrabKnob, OpensGesture, Gesture
<1>3. SUFFICES IsRequests(queue') /\ LeavesTheRest /\ (\A a \in held' : IsAnchor(a))
  BY <1>0, <1>1, <1>2 DEF CanvasHolds, LineHolds
<1>4. ASSUME NEW item, NEW members, NEW frames, NEW a,
             a = GroupAnchor(item, members, Gesture, frames)
      PROVE  IsAnchor(a) /\ a.gesture \in Nat
  BY <1>2, <1>4 DEF GroupAnchor, IsAnchor
<1>5. CASE GrabItem
  <2>1. PICK item, anchor :
           /\ anchor = GroupAnchor(item, GrabMembers(document, item), Gesture,
                                   MaxFrames)
           /\ held' = {anchor}
           /\ Raise(InGestures(Gesture, GrabJoins(document, item))
                        \o <<Graph(MoveFrame(anchor, 1))>>)
    BY Zenon, <1>5 DEF GrabItem
  <2>2. IsAnchor(anchor) /\ anchor.gesture \in Nat
    BY Zenon, <1>4, <2>1
  <2>3. IsIntents(GrabJoins(document, item))
    BY Zenon, ClickIsIntents, IntentsJoin DEF GrabJoins
  <2>4. IsRequests(InGestures(Gesture, GrabJoins(document, item)))
    BY Zenon, <1>2, <2>3, GraphsAreRequests
  <2>5. IsRequests(<<Graph(MoveFrame(anchor, 1))>>)
    BY Zenon, <2>2, FramesAreIntents, OneRequest
  <2>6. IsRequests(queue') /\ LeavesTheRest
    BY Zenon, <1>1, <2>1, <2>4, <2>5, RequestsJoin, RaiseKeeps
  <2>. QED  BY <2>1, <2>2, <2>6
<1>6. CASE GrabSpawn
  <2>1. PICK n, output, pos, anchor, members :
           /\ n \in FreshNodes
           /\ anchor = GroupAnchor(NodeItem(n), members, Gesture, MaxFrames)
           /\ held' = {anchor}
           /\ Raise(InGestures(Gesture, Spawn(n, pos, output))
                        \o <<Graph(MoveFrame(anchor, 1))>>)
    BY Zenon, <1>6 DEF GrabSpawn
  <2>2. IsAnchor(anchor) /\ anchor.gesture \in Nat
    BY Zenon, <1>4, <2>1
  <2>3. n \in NodeIds
    BY <2>1 DEF FreshNodes
  <2>4. IsRequests(InGestures(Gesture, Spawn(n, pos, output)))
    BY Zenon, <1>2, <2>3, SpawnIsIntents, GraphsAreRequests
  <2>5. IsRequests(<<Graph(MoveFrame(anchor, 1))>>)
    BY Zenon, <2>2, FramesAreIntents, OneRequest
  <2>6. IsRequests(queue') /\ LeavesTheRest
    BY Zenon, <1>1, <2>1, <2>4, <2>5, RequestsJoin, RaiseKeeps
  <2>. QED  BY <2>1, <2>2, <2>6
<1>7. CASE GrabKnob
  <2>1. PICK t : held' = {KnobAnchor(document, t, Gesture, MaxFrames)}
    BY <1>7 DEF GrabKnob
  <2>2. IsAnchor(KnobAnchor(document, t, Gesture, MaxFrames))
    BY <1>2 DEF KnobAnchor, IsAnchor
  <2>3. IsRequests(queue') /\ LeavesTheRest
    BY Zenon, <1>1, <1>7, RequestsJoin, RaiseKeeps DEF GrabKnob
  <2>. QED  BY <2>1, <2>2, <2>3
<1>. QED  BY <1>5, <1>6, <1>7

\* The frames of a held gesture, its drop and its Esc, and the tie line.
LEMMA GesturesKeepTheCanvas ==
    ASSUME CanvasHolds, \/ HoldGesture \/ DropGesture \/ EscapeDrag \/ EscapeKnob
                        \/ DrawLine \/ ReleaseLine \/ DropLine
    PROVE  CanvasHolds' /\ LeavesTheRest
<1>1. /\ IsRequests(queue) /\ (\A a \in held : IsAnchor(a)) /\ lastGesture \in Nat
      /\ LineHolds
  BY DEF CanvasHolds
<1>2. lastGesture' = lastGesture
  BY DEF HoldGesture, DropGesture, EscapeDrag, EscapeKnob, DrawLine, ReleaseLine,
         DropLine
<1>0. LineHolds'
  <2>1. CASE line' = line \/ line' = {}
    BY <1>1, <2>1 DEF LineHolds
  <2>2. CASE DrawLine
    <3>1. PICK crossed, tie, pieces :
             /\ pieces \in [crossed -> 0..Cardinality(TieIds)]
             /\ line' = {Crossing(pieces, tie, FALSE)}
      BY <2>2 DEF DrawLine
    <3>2. ArePieces(pieces)
      BY <3>1 DEF ArePieces
    <3>. QED  BY <3>1, <3>2 DEF LineHolds, Crossing
  <2>. QED  BY <2>1, <2>2 DEF HoldGesture, DropGesture, EscapeDrag, EscapeKnob,
                              ReleaseLine, DropLine
<1>3. SUFFICES IsRequests(queue') /\ LeavesTheRest /\ (\A a \in held' : IsAnchor(a))
  BY <1>0, <1>1, <1>2 DEF CanvasHolds
<1>4. CASE HoldGesture
  <2>1. PICK anchor, frame :
           /\ anchor \in held /\ frame \in Moves(anchor)
           /\ held' = {[anchor EXCEPT !.frames = @ - 1]}
           /\ Raise(<<Graph(frame)>>)
    BY Zenon, <1>4 DEF HoldGesture
  <2>2. IsAnchor(anchor) /\ anchor.gesture \in Nat
    BY <1>1, <2>1 DEF IsAnchor
  <2>3. IsAnchor([anchor EXCEPT !.frames = @ - 1])
    BY <2>2 DEF IsAnchor
  <2>4. (\E d : frame = MoveFrame(anchor, d)) \/ \E a : frame = TurnFrame(anchor, a)
    BY <2>1 DEF Moves
  <2>5. IsIntent(frame)
    BY Zenon, <2>2, <2>4, FramesAreIntents
  <2>6. IsRequests(queue') /\ LeavesTheRest
    BY Zenon, <1>1, <2>1, <2>5, OneRequest, RaiseKeeps
  <2>. QED  BY <2>1, <2>3, <2>6
<1>5. CASE DropGesture
  <2>1. held' = {} /\ Raise(<<>>)
    BY <1>5 DEF DropGesture
  <2>2. IsRequests(queue') /\ LeavesTheRest
    BY Zenon, <1>1, <2>1, RequestsJoin, RaiseKeeps
  <2>. QED  BY <2>1, <2>2
<1>6. CASE EscapeDrag
  <2>1. PICK anchor \in held : /\ held' = {}
           /\ Raise(<<Cancel(anchor.gesture, MoveFrame(anchor, 0))>>)
    BY <1>6 DEF EscapeDrag
  <2>2. anchor.gesture \in Nat
    BY <1>1 DEF IsAnchor
  <2>3. IsRequests(queue') /\ LeavesTheRest
    BY Zenon, <1>1, <2>1, <2>2, FramesAreIntents, OneRequest, RaiseKeeps
  <2>. QED  BY <2>1, <2>3
<1>7. CASE EscapeKnob
  <2>1. PICK anchor \in held : /\ held' = {}
           /\ Raise(<<Graph(TurnFrame(anchor, anchor.from))>>)
    BY <1>7 DEF EscapeKnob
  <2>2. anchor.gesture \in Nat
    BY <1>1 DEF IsAnchor
  <2>3. IsRequests(queue') /\ LeavesTheRest
    BY Zenon, <1>1, <2>1, <2>2, FramesAreIntents, OneRequest, RaiseKeeps
  <2>. QED  BY <2>1, <2>3
<1>8. CASE DrawLine
  <2>1. held' = held /\ Raise(<<>>)
    BY Zenon, <1>8 DEF DrawLine
  <2>2. IsRequests(queue') /\ LeavesTheRest
    BY Zenon, <1>1, <2>1, RequestsJoin, RaiseKeeps
  <2>. QED  BY <1>1, <2>1, <2>2
<1>9. CASE ReleaseLine
  <2>1. PICK l, t : /\ l \in line /\ held' = held
                    /\ Raise(Graphs(ReleasedLine(document, l, t)))
    BY Zenon, <1>9 DEF ReleaseLine
  <2>3. ArePieces(l.wires)
    BY <1>1, <2>1 DEF LineHolds
  <2>2. IsRequests(queue') /\ LeavesTheRest
    BY Zenon, <1>1, <2>1, <2>3, ReleasedLineIsIntents, RaiseGraphsKeeps
  <2>. QED  BY <1>1, <2>1, <2>2
<1>10. CASE DropLine
  <2>1. held' = held /\ Raise(<<>>)
    BY <1>10 DEF DropLine
  <2>2. IsRequests(queue') /\ LeavesTheRest
    BY Zenon, <1>1, <2>1, RequestsJoin, RaiseKeeps
  <2>. QED  BY <1>1, <2>1, <2>2
<1>. QED  BY <1>4, <1>5, <1>6, <1>7, <1>8, <1>9, <1>10

-----------------------------------------------------------------------------
\* A load on its way: the document so far, which holds what the file's does
\* unless something was repaired.
LoadOf(doc, repairs) == [doc |-> doc, repairs |-> repairs]
Loads(doc, load) ==
    /\ load = LoadOf(load.doc, load.repairs)
    /\ IsDocument(load.doc)
    /\ load.repairs = {} => Content(load.doc) = Content(doc)

\* A pass that repairs says so, and one that does not keeps the content.
LEMMA RepairedLoads ==
    ASSUME NEW doc, NEW load, Loads(doc, load), NEW d, IsDocument(d), NEW repairs,
           repairs = {} => Content(d) = Content(load.doc)
    PROVE  Loads(doc, Repaired(load, d, repairs))
<1>1. PICK l : l = Repaired(load, d, repairs)
  OBVIOUS
<1>2. l.doc = d /\ l.repairs = load.repairs \cup repairs /\ l = LoadOf(l.doc, l.repairs)
  BY <1>1 DEF Repaired, LoadOf
<1>3. l.repairs = {} => load.repairs = {} /\ repairs = {}
  BY <1>2
<1>4. Loads(doc, l)
  BY Zenon, <1>2, <1>3 DEF Loads
<1>. QED  BY Zenon, <1>1, <1>4

\* A document with other nodes, wiring and stubs.
HasWhole(d, doc, nodes, bindings, subs, stubs) ==
    d = DocOf(nodes, bindings, subs, stubs, doc.place, doc.ties,
              doc.routes, doc.selected, doc.tabs, doc.viewport)

\* Such a document is one, of the same content when its parts are.
LEMMA WholeKeeps ==
    ASSUME NEW doc, IsDocument(doc), NEW nodes, AreNodes(nodes),
           NEW bindings, IsFiniteMap(bindings), NEW subs, IsFiniteSet(subs),
           NEW stubs, AreStubs(stubs), NEW d,
           HasWhole(d, doc, nodes, bindings, subs, stubs)
    PROVE  /\ IsDocument(d)
           /\ /\ nodes = doc.nodes /\ bindings = doc.bindings /\ subs = doc.subs
              /\ stubs = doc.stubs
              => Content(d) = Content(doc)
<1>1. /\ ArePlacements(doc.place)
      /\ IsFiniteMap(doc.ties) /\ AreRoutes(doc.routes) /\ IsFiniteSet(doc.selected)
  BY Zenon, DocumentParts
<1>2. /\ d.nodes = nodes /\ d.bindings = bindings /\ d.subs = subs
      /\ d.stubs = stubs /\ d.place = doc.place /\ d.ties = doc.ties
      /\ d.routes = doc.routes
  BY DEF DocOf, HasWhole
<1>3. IsDocument(DocOf(nodes, bindings, subs, stubs, doc.place, doc.ties,
                       doc.routes, doc.selected, doc.tabs, doc.viewport))
  BY Zenon, <1>1, DocumentOfParts
<1>4. IsDocument(d)
  BY Zenon, <1>3 DEF HasWhole
<1>. QED  BY Zenon, <1>2, <1>4 DEF Content

\* A document with other placements, ties and routes.
HasLayout(d, doc, place, ties, routes) ==
    d = DocOf(doc.nodes, doc.bindings, doc.subs, doc.stubs, place, ties,
              routes, doc.selected, doc.tabs, doc.viewport)

\* Such a document is one, of the same content when its parts are.
LEMMA LayoutKeeps ==
    ASSUME NEW doc, IsDocument(doc), NEW place, ArePlacements(place),
           NEW ties, IsFiniteMap(ties), NEW routes, AreRoutes(routes), NEW d,
           HasLayout(d, doc, place, ties, routes)
    PROVE  /\ IsDocument(d)
           /\ place = doc.place /\ ties = doc.ties /\ routes = doc.routes
              => Content(d) = Content(doc)
<1>1. /\ AreNodes(doc.nodes) /\ AreStubs(doc.stubs)
      /\ IsFiniteMap(doc.bindings) /\ IsFiniteSet(doc.subs)
      /\ IsFiniteSet(doc.selected)
  BY Zenon, DocumentParts
<1>2. /\ d.nodes = doc.nodes /\ d.bindings = doc.bindings /\ d.subs = doc.subs
      /\ d.stubs = doc.stubs /\ d.place = place /\ d.ties = ties
      /\ d.routes = routes
  BY DEF DocOf, HasLayout
<1>3. IsDocument(DocOf(doc.nodes, doc.bindings, doc.subs, doc.stubs, place, ties,
                       routes, doc.selected, doc.tabs, doc.viewport))
  BY Zenon, <1>1, DocumentOfParts
<1>4. IsDocument(d)
  BY Zenon, <1>3 DEF HasLayout
<1>. QED  BY Zenon, <1>2, <1>4 DEF Content

\* A map with nothing taken out, and one with nothing merged in.
LEMMA MapsStay ==
    ASSUME NEW map, IsMap(map)
    PROVE  /\ \A keys : keys = {} => Drop(map, keys) = map
           /\ \A more : DOMAIN more = {} => Merge(map, more) = map
  BY DEF IsMap, Drop, Merge

\* A document and its parts.
LEMMA PartsOf ==
    ASSUME NEW doc, IsDocument(doc)
    PROVE  doc = [nodes |-> doc.nodes, bindings |-> doc.bindings, subs |-> doc.subs,
                  stubs |-> doc.stubs, place |-> doc.place, ties |-> doc.ties,
                  routes |-> doc.routes, selected |-> doc.selected,
                  tabs |-> doc.tabs, viewport |-> doc.viewport]
  BY DEF IsDocument

-----------------------------------------------------------------------------
\* reattach_stubs: a stub under a graph node's id goes.
LEMMA DropDuplicateStubsLoads ==
    ASSUME NEW doc, NEW load, Loads(doc, load)
    PROVE  Loads(doc, DropDuplicateStubs(load))
<1>1. PICK e : e = load.doc
  OBVIOUS
<1>2. IsDocument(e)
  BY Zenon, <1>1 DEF Loads
<1>3. PICK twice : twice = DOMAIN e.stubs \cap DOMAIN e.nodes
  OBVIOUS
<1>4. PICK stubs : stubs = Drop(e.stubs, twice)
  OBVIOUS
<1>5. PICK d : d = [e EXCEPT !.stubs = stubs]
  OBVIOUS
<1>6. PICK repairs : repairs = {<<"duplicateStub", n>> : n \in twice}
  OBVIOUS
<1>7. DropDuplicateStubs(load) = Repaired(load, d, repairs)
  BY Zenon, <1>1, <1>3, <1>4, <1>5, <1>6 DEF DropDuplicateStubs
<1>8. HasWhole(d, e, e.nodes, e.bindings, e.subs, stubs)
  BY <1>2, <1>5, PartsOf DEF HasWhole, DocOf
<1>9. /\ AreNodes(e.nodes) /\ IsFiniteMap(e.bindings) /\ IsFiniteSet(e.subs)
      /\ AreStubs(e.stubs)
  BY Zenon, <1>2, DocumentParts
<1>10. AreStubs(stubs)
  BY Zenon, <1>4, <1>9, DropStubs
<1>11. repairs = {} => stubs = e.stubs
  <2>1. repairs = {} => twice = {}
    BY <1>6
  <2>2. IsMap(e.stubs)
    BY Zenon, <1>9 DEF AreStubs, IsFiniteMap
  <2>. QED  BY Zenon, <1>4, <2>1, <2>2, MapsStay
<1>12. IsDocument(d) /\ (stubs = e.stubs => Content(d) = Content(e))
  BY <1>2, <1>8, <1>9, <1>10, WholeKeeps
<1>. QED  BY Zenon, <1>1, <1>7, <1>11, <1>12, RepairedLoads

\* What of a graph its bindings keep as stubs come back: all of it.
KeepsBindings(e, d) ==
    \A i \in DOMAIN e.bindings : i \in DOMAIN d.bindings /\ d.bindings[i] = e.bindings[i]
KeepsNodes(e, d) == d.nodes = e.nodes /\ d.stubs = e.stubs
Returns(e, d, lib) ==
    /\ Ids(d) = Ids(e) /\ KeepsBindings(e, d) /\ DOMAIN d.stubs \cap lib = {}
    /\ DOMAIN e.nodes \cap DOMAIN e.stubs = {} => DOMAIN d.nodes \cap DOMAIN d.stubs = {}

\* One record's wiring comes back.
LEMMA ReattachKeeps ==
    ASSUME NEW load, IsDocument(load.doc), load.repairs # {},
           NEW record, IsDetached(record)
    PROVE  /\ IsDocument(Reattach(load, record).doc)
           /\ Reattach(load, record).repairs # {}
           /\ Reattach(load, record) = LoadOf(Reattach(load, record).doc,
                                              Reattach(load, record).repairs)
           /\ KeepsNodes(load.doc, Reattach(load, record).doc)
           /\ KeepsBindings(load.doc, Reattach(load, record).doc)
<1>1. PICK e : e = load.doc
  OBVIOUS
<1>2. PICK kept : kept = {i \in DOMAIN record.bindings :
                             /\ EndsHeld(e, i, record.bindings[i])
                             /\ i \notin DOMAIN e.bindings}
  OBVIOUS
<1>3. PICK more : more = [i \in kept |-> record.bindings[i]]
  OBVIOUS
<1>4. PICK joined : joined = {s \in record.subs : SubEndsHeld(e, s)}
  OBVIOUS
<1>5. PICK bindings : bindings = Merge(e.bindings, more)
  OBVIOUS
<1>6. PICK subs : subs = e.subs \cup joined
  OBVIOUS
<1>7. PICK d : d = [e EXCEPT !.bindings = bindings, !.subs = subs]
  OBVIOUS
<1>8. PICK repairs : Reattach(load, record) = Repaired(load, d, repairs)
  BY Zenon, <1>1, <1>2, <1>3, <1>4, <1>5, <1>6, <1>7 DEF Reattach
<1>9. HasGraph(d, e, e.nodes, bindings, subs)
  <2>1. e = [nodes |-> e.nodes, bindings |-> e.bindings, subs |-> e.subs,
             stubs |-> e.stubs, place |-> e.place, ties |-> e.ties,
             routes |-> e.routes, selected |-> e.selected,
             tabs |-> e.tabs, viewport |-> e.viewport]
    BY Zenon, <1>1, PartsOf
  <2>. QED  BY <1>7, <2>1 DEF HasGraph, DocOf
<1>10. AreNodes(e.nodes) /\ IsFiniteMap(e.bindings) /\ IsFiniteSet(e.subs)
  BY Zenon, <1>1, DocumentParts
<1>11. IsFiniteMap(record.bindings) /\ IsFiniteSet(record.subs)
  BY DEF IsDetached
<1>12. IsFiniteMap(more)
  <2>1. IsMap(more) /\ DOMAIN more \subseteq DOMAIN record.bindings
    BY <1>2, <1>3 DEF IsMap
  <2>. QED  BY <1>11, <2>1, FS_Subset DEF IsFiniteMap
<1>13. IsFiniteMap(bindings)
  BY Zenon, <1>5, <1>10, <1>12, MergeMakes
<1>14. IsFiniteSet(subs)
  <2>1. joined \subseteq record.subs
    BY <1>4
  <2>. QED  BY <1>6, <1>10, <1>11, <2>1, FS_Subset, FS_Union
<1>15. IsDocument(d)
  BY <1>1, <1>9, <1>10, <1>13, <1>14, GraphKeeps
<1>16. PICK l : l = Repaired(load, d, repairs)
  OBVIOUS
<1>17. l.doc = d /\ l.repairs # {} /\ l = LoadOf(l.doc, l.repairs)
  BY <1>16 DEF Repaired, LoadOf
<1>18. d.nodes = e.nodes /\ d.stubs = e.stubs /\ d.bindings = bindings
  BY <1>9 DEF HasGraph, DocOf
<1>19. KeepsNodes(e, d) /\ KeepsBindings(e, d)
  <2>1. ASSUME NEW i \in DOMAIN e.bindings
        PROVE  i \in DOMAIN bindings /\ bindings[i] = e.bindings[i]
    <3>1. /\ DOMAIN bindings = DOMAIN e.bindings \cup DOMAIN more
          /\ \A x \in DOMAIN e.bindings \ DOMAIN more : bindings[x] = e.bindings[x]
      BY Zenon, <1>5, <1>10, <1>12, MergeMakes
    <3>2. i \notin DOMAIN more
      BY <1>2, <1>3
    <3>. QED  BY <3>1, <3>2
  <2>. QED  BY <1>18, <2>1 DEF KeepsNodes, KeepsBindings
<1>. QED  BY Zenon, <1>1, <1>8, <1>15, <1>16, <1>17, <1>19

AttachBody(env, load, record) == Reattach(load, record)
Attaching == INSTANCE Recursion WITH Body <- AttachBody
StubBody(env, load, node) == Stub(load, node)
Stubbing == INSTANCE Recursion WITH Body <- StubBody

\* Each other stub whose func resolves comes back.
LEMMA ReattachStubsLoads ==
    ASSUME NEW doc, NEW load, Loads(doc, load), NEW lib
    PROVE  /\ Loads(doc, ReattachStubs(load, lib))
           /\ Returns(load.doc, ReattachStubs(load, lib).doc, lib)
<1>1. PICK e : e = load.doc
  OBVIOUS
<1>2. IsDocument(e)
  BY Zenon, <1>1 DEF Loads
<1>3. /\ AreNodes(e.nodes) /\ IsFiniteMap(e.bindings) /\ IsFiniteSet(e.subs)
      /\ AreStubs(e.stubs)
  BY Zenon, <1>2, DocumentParts
<1>4. PICK resolving : resolving = DOMAIN e.stubs \cap lib
  OBVIOUS
<1>5. PICK ids : ids = InIdOrder(resolving)
  OBVIOUS
<1>6. IsFiniteSet(resolving) /\ resolving \in SUBSET Nat
  BY <1>3, <1>4, FS_Subset DEF AreStubs, IsFiniteMap
<1>7. PICK n \in Nat : DOMAIN ids = 1..n /\ \A k \in 1..n : ids[k] \in resolving
  BY <1>5, <1>6, InIdOrderIsSeq, InIdOrderHoldsIds
<1>8. PICK more : more = [x \in resolving |-> e.stubs[x].value]
  OBVIOUS
<1>9. PICK nodes : nodes = Merge(e.nodes, more)
  OBVIOUS
<1>10. PICK stubs : stubs = Drop(e.stubs, resolving)
  OBVIOUS
<1>11. PICK back : back = [e EXCEPT !.stubs = stubs, !.nodes = nodes]
  OBVIOUS
<1>12. PICK repairs : repairs = {<<"reattached", x>> : x \in resolving}
  OBVIOUS
<1>13. PICK records : records = [k \in DOMAIN ids |-> e.stubs[ids[k]]]
  OBVIOUS
<1>14. PICK base : base = Repaired(load, back, repairs)
  OBVIOUS
<1>15. ReattachStubs(load, lib) = FoldLeft(Reattach, base, records)
  BY Zenon, <1>1, <1>4, <1>5, <1>8, <1>9, <1>10, <1>11, <1>12, <1>13, <1>14
     DEF ReattachStubs
<1>16. HasWhole(back, e, nodes, e.bindings, e.subs, stubs)
  <2>1. e = [nodes |-> e.nodes, bindings |-> e.bindings, subs |-> e.subs,
             stubs |-> e.stubs, place |-> e.place, ties |-> e.ties,
             routes |-> e.routes, selected |-> e.selected,
             tabs |-> e.tabs, viewport |-> e.viewport]
    BY Zenon, <1>2, PartsOf
  <2>. QED  BY <1>11, <2>1 DEF HasWhole, DocOf
<1>17. AreStubs(stubs)
  BY Zenon, <1>3, <1>10, DropStubs
<1>18. IsMap(more) /\ DOMAIN more = resolving
  BY <1>8 DEF IsMap
<1>19. AreNodes(nodes)
  <2>1. IsFiniteMap(more) /\ IsFiniteMap(e.nodes) /\ DOMAIN e.nodes \subseteq Nat
    BY Zenon, <1>3, <1>6, <1>18 DEF IsFiniteMap, AreNodes
  <2>2. IsFiniteMap(nodes) /\ DOMAIN nodes = DOMAIN e.nodes \cup DOMAIN more
    BY Zenon, <1>9, <2>1, MergeMakes
  <2>3. DOMAIN nodes \subseteq Nat
    BY <1>6, <1>18, <2>1, <2>2
  <2>. QED  BY Zenon, <2>2, <2>3 DEF AreNodes
<1>20. /\ IsDocument(back)
       /\ nodes = e.nodes /\ stubs = e.stubs => Content(back) = Content(e)
  BY <1>2, <1>3, <1>16, <1>17, <1>19, WholeKeeps
<1>21. resolving = {} => Content(back) = Content(e)
  <2>1. IsMap(e.nodes) /\ IsMap(e.stubs)
    BY Zenon, <1>3 DEF AreNodes, AreStubs, IsFiniteMap
  <2>2. resolving = {} => nodes = e.nodes /\ stubs = e.stubs
    BY Zenon, <1>9, <1>10, <1>18, <2>1, MapsStay
  <2>. QED  BY Zenon, <1>20, <2>2
<1>22. repairs = {} <=> resolving = {}
  BY <1>12
<1>23. Loads(doc, base)
  BY Zenon, <1>1, <1>14, <1>20, <1>21, <1>22, RepairedLoads
<1>24. FoldLeft(Reattach, base, records) = Attaching!FoldOf(0, base, records)
  BY Zenon DEF Attaching!FoldOf, Attaching!IsFolding, Attaching!Largest,
               AttachBody, FoldLeft, MapThenFoldSet, Max
<1>25. DOMAIN records = 1..n /\ \A k \in 1..n : IsDetached(records[k])
  <2>1. \A k \in 1..n : records[k] = e.stubs[ids[k]] /\ ids[k] \in DOMAIN e.stubs
    BY <1>4, <1>7, <1>13
  <2>2. DOMAIN records = 1..n
    BY <1>7, <1>13
  <2>. QED  BY Zenon, <1>3, <2>1, <2>2 DEF AreStubs
<1>26. PICK f : Attaching!Unfolds(f, 0, base, records, n)
  BY <1>25, Attaching!FoldUnfolds
<1>27. /\ Attaching!FoldOf(0, base, records) = f[1..n]
       /\ f[{}] = base
       /\ \A k \in 1..n : f[1..k] = Reattach(f[1..(k - 1)], records[k])
  BY <1>26 DEF Attaching!Unfolds, AttachBody
<1>28. /\ back.nodes = nodes /\ back.stubs = stubs /\ back.bindings = e.bindings
       /\ DOMAIN nodes = DOMAIN e.nodes \cup resolving
       /\ DOMAIN stubs = DOMAIN e.stubs \ resolving
  <2>1. back.nodes = nodes /\ back.stubs = stubs /\ back.bindings = e.bindings
    BY <1>16 DEF HasWhole, DocOf
  <2>. QED  BY <1>8, <1>9, <1>10, <2>1 DEF Merge, Drop
<1>29. Ids(back) = Ids(e) /\ DOMAIN stubs \cap lib = {}
  BY <1>4, <1>28 DEF Ids
<1>30. ASSUME NEW d, KeepsNodes(back, d), KeepsBindings(back, d) PROVE Returns(e, d, lib)
  <2>1. d.nodes = nodes /\ d.stubs = stubs /\ Ids(d) = Ids(back)
    BY <1>28, <1>30 DEF KeepsNodes, Ids
  <2>2. KeepsBindings(e, d)
    BY <1>28, <1>30 DEF KeepsBindings
  <2>3. DOMAIN e.nodes \cap DOMAIN e.stubs = {} => DOMAIN d.nodes \cap DOMAIN d.stubs = {}
    BY <1>28, <2>1
  <2>. QED  BY <1>29, <2>1, <2>2, <2>3 DEF Returns
<1>31. CASE n = 0
  <2>1. 1..n = {}
    BY <1>31
  <2>2. base.doc = back
    BY <1>14 DEF Repaired
  <2>3. KeepsNodes(back, back) /\ KeepsBindings(back, back)
    BY DEF KeepsNodes, KeepsBindings
  <2>4. Returns(e, back, lib)
    BY Zenon, <1>30, <2>3
  <2>. QED  BY Zenon, <1>1, <1>15, <1>23, <1>24, <1>27, <2>1, <2>2, <2>4
<1>32. CASE n # 0
  <2>1. resolving # {}
    BY <1>7, <1>32
  <2>2. base.repairs # {}
    BY <1>14, <1>22, <2>1 DEF Repaired
  <2>3. IsDocument(base.doc) /\ base = LoadOf(base.doc, base.repairs)
    BY Zenon, <1>23 DEF Loads
  <2>. DEFINE Good(l) == /\ IsDocument(l.doc) /\ l.repairs # {}
                         /\ l = LoadOf(l.doc, l.repairs)
                         /\ KeepsNodes(back, l.doc) /\ KeepsBindings(back, l.doc)
              I == {k \in 0..n : Good(f[1..k])}
  <2>4. 0 \in I
    <3>1. 1..0 = {} /\ 0 \in 0..n
      OBVIOUS
    <3>2. Good(base)
      <4>1. base.doc = back
        BY <1>14 DEF Repaired
      <4>2. KeepsNodes(back, back) /\ KeepsBindings(back, back)
        BY DEF KeepsNodes, KeepsBindings
      <4>. QED  BY Zenon, <2>2, <2>3, <4>1, <4>2
    <3>. HIDE DEF Good
    <3>. QED  BY <1>27, <3>1, <3>2
  <2>5. ASSUME NEW k \in 1..n, k - 1 \in I PROVE k \in I
    <3>1. Good(f[1..(k - 1)]) /\ k \in 0..n
      <4>. HIDE DEF Good
      <4>. QED  BY <2>5
    <3>2. IsDetached(records[k])
      BY <1>25
    <3>3. Good(Reattach(f[1..(k - 1)], records[k]))
      <4>1. PICK l : l = f[1..(k - 1)]
        OBVIOUS
      <4>2. PICK m : m = Reattach(l, records[k])
        OBVIOUS
      <4>3. Good(l)
        <5>. HIDE DEF Good
        <5>. QED  BY <3>1, <4>1
      <4>4. /\ IsDocument(m.doc) /\ m.repairs # {} /\ m = LoadOf(m.doc, m.repairs)
            /\ KeepsNodes(l.doc, m.doc) /\ KeepsBindings(l.doc, m.doc)
        BY Zenon, <3>2, <4>2, <4>3, ReattachKeeps
      <4>5. KeepsNodes(back, m.doc) /\ KeepsBindings(back, m.doc)
        BY <4>3, <4>4 DEF KeepsNodes, KeepsBindings
      <4>6. Good(m)
        BY Zenon, <4>4, <4>5
      <4>. HIDE DEF Good
      <4>. QED  BY <4>1, <4>2, <4>6
    <3>. HIDE DEF Good
    <3>. QED  BY <1>27, <3>1, <3>3
  <2>6. n \in I
    <3>. HIDE DEF I
    <3>. QED  BY <2>4, <2>5, Attaching!StepsReach
  <2>7. Good(f[1..n])
    <3>. HIDE DEF Good
    <3>. QED  BY <2>6
  <2>8. Loads(doc, f[1..n])
    BY Zenon, <2>7 DEF Loads
  <2>9. Returns(e, f[1..n].doc, lib)
    BY Zenon, <1>30, <2>7
  <2>. QED  BY Zenon, <1>1, <1>15, <1>24, <1>27, <2>8, <2>9
<1>. QED  BY <1>31, <1>32

-----------------------------------------------------------------------------
\* A pass that takes out bindings and subscriptions, and reports each.
LEMMA CutLoads ==
    ASSUME NEW doc, NEW load, Loads(doc, load), NEW e, e = load.doc,
           NEW bad, NEW lone, NEW bindings, bindings = Drop(e.bindings, bad),
           NEW subs, subs = e.subs \ lone,
           NEW d, d = [e EXCEPT !.bindings = bindings, !.subs = subs],
           NEW repairs, repairs = {} => bad = {} /\ lone = {}
    PROVE  Loads(doc, Repaired(load, d, repairs))
<1>1. IsDocument(e)
  BY Zenon DEF Loads
<1>2. HasWhole(d, e, e.nodes, bindings, subs, e.stubs)
  <2>1. e = [nodes |-> e.nodes, bindings |-> e.bindings, subs |-> e.subs,
             stubs |-> e.stubs, place |-> e.place, ties |-> e.ties,
             routes |-> e.routes, selected |-> e.selected,
             tabs |-> e.tabs, viewport |-> e.viewport]
    BY Zenon, <1>1, PartsOf
  <2>. QED  BY <2>1 DEF HasWhole, DocOf
<1>3. /\ AreNodes(e.nodes) /\ IsFiniteMap(e.bindings) /\ IsFiniteSet(e.subs)
      /\ AreStubs(e.stubs)
  BY Zenon, <1>1, DocumentParts
<1>4. IsFiniteMap(bindings)
  BY Zenon, <1>3, DropMakes
<1>5. IsFiniteSet(subs)
  BY <1>3, FS_Difference
<1>6. repairs = {} => bindings = e.bindings /\ subs = e.subs
  <2>1. IsMap(e.bindings)
    BY Zenon, <1>3 DEF IsFiniteMap
  <2>2. bad = {} => bindings = e.bindings
    BY Zenon, <2>1, MapsStay
  <2>3. lone = {} => subs = e.subs
    OBVIOUS
  <2>. QED  BY <2>2, <2>3
<1>7. /\ IsDocument(d)
      /\ bindings = e.bindings /\ subs = e.subs => Content(d) = Content(e)
  BY <1>1, <1>2, <1>3, <1>4, <1>5, WholeKeeps
<1>. QED  BY Zenon, <1>6, <1>7, RepairedLoads

\* Graph::reconcile drops what names a node that is gone.
LEMMA DropDanglingLoads ==
    ASSUME NEW doc, NEW load, Loads(doc, load)
    PROVE  Loads(doc, DropDangling(load))
<1>1. PICK e : e = load.doc
  OBVIOUS
<1>2. PICK bad : bad = {i \in DOMAIN e.bindings : ~EndsHeld(e, i, e.bindings[i])}
  OBVIOUS
<1>3. PICK lone : lone = {s \in e.subs : ~SubEndsHeld(e, s)}
  OBVIOUS
<1>4. PICK bindings : bindings = Drop(e.bindings, bad)
  OBVIOUS
<1>5. PICK subs : subs = e.subs \ lone
  OBVIOUS
<1>6. PICK d : d = [e EXCEPT !.bindings = bindings, !.subs = subs]
  OBVIOUS
<1>7. PICK repairs : repairs = {<<"danglingBinding", i>> : i \in bad}
                                   \cup {<<"danglingSubscription", s>> : s \in lone}
  OBVIOUS
<1>8. DropDangling(load) = Repaired(load, d, repairs)
  BY Zenon, <1>1, <1>2, <1>3, <1>4, <1>5, <1>6, <1>7 DEF DropDangling
<1>9. repairs = {} => bad = {} /\ lone = {}
  BY <1>7
<1>10. Loads(doc, Repaired(load, d, repairs))
  BY Zenon, <1>1, <1>4, <1>5, <1>6, <1>9, CutLoads
<1>. QED  BY Zenon, <1>8, <1>10

\* It drops what the library refuses.
LEMMA DropRefusedLoads ==
    ASSUME NEW doc, NEW load, Loads(doc, load)
    PROVE  Loads(doc, DropRefused(load))
<1>1. PICK e : e = load.doc
  OBVIOUS
<1>2. PICK bad : bad = {i \in DOMAIN e.bindings : ~Admits(i, e.bindings[i])}
  OBVIOUS
<1>3. PICK lone : lone = {s \in e.subs : ~AdmitsSub(s[1], s[2])}
  OBVIOUS
<1>4. PICK bindings : bindings = Drop(e.bindings, bad)
  OBVIOUS
<1>5. PICK subs : subs = e.subs \ lone
  OBVIOUS
<1>6. PICK d : d = [e EXCEPT !.bindings = bindings, !.subs = subs]
  OBVIOUS
<1>7. PICK repairs : repairs = {<<"rejectedBinding", i>> : i \in bad}
                                   \cup {<<"rejectedSubscription", s>> : s \in lone}
  OBVIOUS
<1>8. DropRefused(load) = Repaired(load, d, repairs)
  BY Zenon, <1>1, <1>2, <1>3, <1>4, <1>5, <1>6, <1>7 DEF DropRefused
<1>9. repairs = {} => bad = {} /\ lone = {}
  BY <1>7
<1>10. Loads(doc, Repaired(load, d, repairs))
  BY Zenon, <1>1, <1>4, <1>5, <1>6, <1>9, CutLoads
<1>. QED  BY Zenon, <1>8, <1>10

\* It drops the wires that close a cycle.
LEMMA DropClosingLoads ==
    ASSUME NEW doc, NEW load, Loads(doc, load)
    PROVE  Loads(doc, DropClosing(load))
<1>1. PICK e : e = load.doc
  OBVIOUS
<1>2. PICK closing : closing = ClosingWires(e)
  OBVIOUS
<1>3. PICK bindings : bindings = Drop(e.bindings, closing)
  OBVIOUS
<1>4. PICK subs : subs = e.subs \ {}
  OBVIOUS
<1>5. PICK d : d = [e EXCEPT !.bindings = bindings, !.subs = subs]
  OBVIOUS
<1>6. PICK repairs : repairs = {<<"cycleWire", i>> : i \in closing}
  OBVIOUS
<1>7. [e EXCEPT !.bindings = bindings] = d
  <2>1. IsDocument(e)
    BY Zenon, <1>1 DEF Loads
  <2>2. e = [nodes |-> e.nodes, bindings |-> e.bindings, subs |-> e.subs,
             stubs |-> e.stubs, place |-> e.place, ties |-> e.ties,
             routes |-> e.routes, selected |-> e.selected,
             tabs |-> e.tabs, viewport |-> e.viewport]
    BY Zenon, <2>1, PartsOf
  <2>. QED  BY <1>4, <1>5, <2>2
<1>8. DropClosing(load) = Repaired(load, [e EXCEPT !.bindings = bindings], repairs)
  BY Zenon, <1>1, <1>2, <1>3, <1>6 DEF DropClosing
<1>9. repairs = {} => closing = {}
  BY <1>6
<1>10. Loads(doc, Repaired(load, d, repairs))
  BY Zenon, <1>1, <1>3, <1>4, <1>5, <1>9, CutLoads
<1>. QED  BY Zenon, <1>7, <1>8, <1>10

-----------------------------------------------------------------------------
\* Nodes out of a graph, to its stubs, with the wiring that touches them.
StubsOut(e, d, gone) ==
    /\ DOMAIN d.nodes = DOMAIN e.nodes \ gone
    /\ DOMAIN d.stubs = DOMAIN e.stubs \cup gone
    /\ \A i : i \in DOMAIN d.bindings <=>
              i \in DOMAIN e.bindings
                  /\ \A x \in gone : ~ BindingTouches(i, e.bindings[i], x)
    /\ \A i \in DOMAIN d.bindings : d.bindings[i] = e.bindings[i]
    /\ \A s : s \in d.subs <=> s \in e.subs /\ \A x \in gone : x \notin {s[1], s[2]}

\* Graph::detach_node keeps what it takes out as a stub.
LEMMA StubLoads ==
    ASSUME NEW doc, NEW load, Loads(doc, load), NEW n \in Nat
    PROVE  Loads(doc, Stub(load, n)) /\ StubsOut(load.doc, Stub(load, n).doc, {n})
<1>1. PICK e : e = load.doc
  OBVIOUS
<1>2. IsDocument(e)
  BY Zenon, <1>1 DEF Loads
<1>3. PICK r : r = Snapshot(e, n)
  OBVIOUS
<1>4. PICK stubs : stubs = Put(e.stubs, n, r)
  OBVIOUS
<1>5. PICK nodes : nodes = Drop(e.nodes, {n})
  OBVIOUS
<1>6. PICK touching : touching = InputsTouching(e.bindings, n)
  OBVIOUS
<1>7. PICK bindings : bindings = Drop(e.bindings, touching)
  OBVIOUS
<1>8. PICK subs : subs = e.subs \ SubsTouching(e.subs, n)
  OBVIOUS
<1>9. PICK d : d = [e EXCEPT !.stubs = stubs, !.nodes = nodes,
                             !.bindings = bindings, !.subs = subs]
  OBVIOUS
<1>10. PICK repairs : repairs = {<<"stubbed", n>>}
  OBVIOUS
<1>11. Stub(load, n) = Repaired(load, d, repairs)
  BY Zenon, <1>1, <1>3, <1>4, <1>5, <1>6, <1>7, <1>8, <1>9, <1>10 DEF Stub
<1>12. HasWhole(d, e, nodes, bindings, subs, stubs)
  <2>1. e = [nodes |-> e.nodes, bindings |-> e.bindings, subs |-> e.subs,
             stubs |-> e.stubs, place |-> e.place, ties |-> e.ties,
             routes |-> e.routes, selected |-> e.selected,
             tabs |-> e.tabs, viewport |-> e.viewport]
    BY Zenon, <1>2, PartsOf
  <2>. QED  BY <1>9, <2>1 DEF HasWhole, DocOf
<1>13. /\ AreNodes(e.nodes) /\ IsFiniteMap(e.bindings) /\ IsFiniteSet(e.subs)
       /\ AreStubs(e.stubs)
  BY Zenon, <1>2, DocumentParts
<1>14. AreNodes(nodes)
  <2>1. IsFiniteMap(e.nodes) /\ DOMAIN e.nodes \subseteq Nat
    BY <1>13 DEF AreNodes
  <2>2. IsFiniteMap(nodes) /\ DOMAIN nodes = DOMAIN e.nodes \ {n}
    BY Zenon, <1>5, <2>1, DropMakes
  <2>. QED  BY <2>1, <2>2 DEF AreNodes
<1>15. IsFiniteMap(bindings)
  BY Zenon, <1>7, <1>13, DropMakes
<1>16. IsFiniteSet(subs)
  BY <1>8, <1>13, FS_Difference
<1>17. IsDetached(r)
  <2>1. PICK own : own = [i \in InputsTouching(e.bindings, n) |-> e.bindings[i]]
    OBVIOUS
  <2>2. /\ r = [value |-> r.value, bindings |-> r.bindings, subs |-> r.subs]
        /\ r.bindings = own /\ r.subs = SubsTouching(e.subs, n)
    BY <1>3, <2>1 DEF Snapshot
  <2>3. IsFiniteMap(own)
    <3>1. IsMap(own) /\ DOMAIN own \subseteq DOMAIN e.bindings
      BY <2>1 DEF IsMap, InputsTouching
    <3>2. IsFiniteSet(DOMAIN e.bindings)
      BY <1>13 DEF IsFiniteMap
    <3>. QED  BY <3>1, <3>2, FS_Subset DEF IsFiniteMap
  <2>4. IsFiniteSet(r.subs)
    <3>1. r.subs \subseteq e.subs
      BY <2>2 DEF SubsTouching
    <3>. QED  BY <1>13, <3>1, FS_Subset
  <2>. QED  BY <2>2, <2>3, <2>4 DEF IsDetached
<1>18. AreStubs(stubs)
  BY Zenon, <1>4, <1>13, <1>17, PutStub
<1>19. IsDocument(d)
  BY <1>2, <1>12, <1>14, <1>15, <1>16, <1>18, WholeKeeps
<1>20. repairs # {}
  BY <1>10
<1>21. /\ d.nodes = nodes /\ d.stubs = stubs /\ d.bindings = bindings /\ d.subs = subs
       /\ Stub(load, n).doc = d
  BY <1>11, <1>12 DEF HasWhole, DocOf, Repaired
<1>22. StubsOut(e, d, {n})
  <2>1. DOMAIN nodes = DOMAIN e.nodes \ {n} /\ DOMAIN stubs = DOMAIN e.stubs \cup {n}
    BY <1>4, <1>5 DEF Drop, Put
  <2>2. /\ DOMAIN bindings = DOMAIN e.bindings \ touching
        /\ \A i \in DOMAIN bindings : bindings[i] = e.bindings[i]
    BY <1>7 DEF Drop
  <2>3. \A i : i \in DOMAIN bindings <=>
                i \in DOMAIN e.bindings /\ ~ BindingTouches(i, e.bindings[i], n)
    BY <1>6, <2>2 DEF InputsTouching
  <2>4. \A x : x \in subs <=> x \in e.subs /\ n \notin {x[1], x[2]}
    BY <1>8 DEF SubsTouching
  <2>. QED  BY <1>21, <2>1, <2>2, <2>3, <2>4 DEF StubsOut
<1>. QED  BY Zenon, <1>1, <1>11, <1>19, <1>20, <1>21, <1>22, RepairedLoads

\* Nodes taken out one after the other.
LEMMA StubsOutJoin ==
    ASSUME NEW e, NEW d, NEW c, NEW gone, NEW more, NEW all, all = gone \cup more,
           StubsOut(e, d, gone), StubsOut(d, c, more)
    PROVE  StubsOut(e, c, all)
<1>1. \A i : i \in DOMAIN c.bindings <=>
              i \in DOMAIN e.bindings
                  /\ \A x \in all : ~ BindingTouches(i, e.bindings[i], x)
  BY DEF StubsOut
<1>2. \A i \in DOMAIN c.bindings : c.bindings[i] = e.bindings[i]
  BY DEF StubsOut
<1>3. \A s : s \in c.subs <=> s \in e.subs /\ \A x \in all : x \notin {s[1], s[2]}
  BY DEF StubsOut
<1>4. DOMAIN c.nodes = DOMAIN e.nodes \ all /\ DOMAIN c.stubs = DOMAIN e.stubs \cup all
  BY DEF StubsOut
<1>. QED  BY <1>1, <1>2, <1>3, <1>4 DEF StubsOut

\* stub_unresolved: each node of a missing func becomes a stub.
LEMMA StubUnresolvedLoads ==
    ASSUME NEW doc, NEW load, Loads(doc, load), NEW lib
    PROVE  /\ Loads(doc, StubUnresolved(load, lib))
           /\ StubsOut(load.doc, StubUnresolved(load, lib).doc, DOMAIN load.doc.nodes \ lib)
<1>1. PICK gone : gone = DOMAIN load.doc.nodes \ lib
  OBVIOUS
<1>2. PICK ids : ids = InIdOrder(gone)
  OBVIOUS
<1>3. IsFiniteSet(gone) /\ gone \in SUBSET Nat
  <2>1. IsDocument(load.doc)
    BY Zenon DEF Loads
  <2>2. AreNodes(load.doc.nodes)
    BY Zenon, <2>1, DocumentParts
  <2>. QED  BY <1>1, <2>2, FS_Difference DEF AreNodes, IsFiniteMap
<1>4. PICK n \in Nat : DOMAIN ids = 1..n /\ \A k \in 1..n : ids[k] \in Nat
  BY <1>2, <1>3, InIdOrderIsSeq, InIdOrderHoldsIds
<1>5. StubUnresolved(load, lib) = Stubbing!FoldOf(0, load, ids)
  <2>1. StubUnresolved(load, lib) = FoldLeft(Stub, load, ids)
    BY Zenon, <1>1, <1>2 DEF StubUnresolved
  <2>2. FoldLeft(Stub, load, ids) = Stubbing!FoldOf(0, load, ids)
    BY Zenon DEF Stubbing!FoldOf, Stubbing!IsFolding, Stubbing!Largest,
                 StubBody, FoldLeft, MapThenFoldSet, Max
  <2>. QED  BY Zenon, <2>1, <2>2
<1>6. PICK f : Stubbing!Unfolds(f, 0, load, ids, n)
  BY <1>4, Stubbing!FoldUnfolds
<1>7. /\ Stubbing!FoldOf(0, load, ids) = f[1..n]
      /\ f[{}] = load
      /\ \A k \in 1..n : f[1..k] = Stub(f[1..(k - 1)], ids[k])
  BY <1>6 DEF Stubbing!Unfolds, StubBody
<1>. DEFINE Stubbed(k) == {ids[j] : j \in 1..k}
            I == {k \in 0..n : /\ Loads(doc, f[1..k])
                               /\ StubsOut(load.doc, f[1..k].doc, Stubbed(k))}
<1>8. 0 \in I
  <2>1. 1..0 = {} /\ 0 \in 0..n /\ Stubbed(0) = {}
    OBVIOUS
  <2>2. StubsOut(load.doc, load.doc, {})
    BY DEF StubsOut
  <2>. QED  BY <1>7, <2>1, <2>2
<1>9. ASSUME NEW k \in 1..n, k - 1 \in I PROVE k \in I
  <2>1. /\ Loads(doc, f[1..(k - 1)]) /\ k \in 0..n
        /\ StubsOut(load.doc, f[1..(k - 1)].doc, Stubbed(k - 1))
    BY <1>9
  <2>2. ids[k] \in Nat
    BY <1>4
  <2>3. /\ Loads(doc, Stub(f[1..(k - 1)], ids[k]))
        /\ StubsOut(f[1..(k - 1)].doc, Stub(f[1..(k - 1)], ids[k]).doc, {ids[k]})
    BY Zenon, <2>1, <2>2, StubLoads
  <2>4. Stubbed(k) = Stubbed(k - 1) \cup {ids[k]}
    <3>1. 1..k = 1..(k - 1) \cup {k}
      BY <1>4
    <3>. QED  BY <3>1
  <2>5. f[1..k] = Stub(f[1..(k - 1)], ids[k])
    BY <1>7
  <2>. HIDE DEF Stubbed
  <2>6. StubsOut(load.doc, f[1..k].doc, Stubbed(k))
    BY <2>1, <2>3, <2>4, <2>5, StubsOutJoin
  <2>. QED  BY <2>1, <2>3, <2>5, <2>6
<1>10. n \in I
  <2>. HIDE DEF I
  <2>. QED  BY <1>8, <1>9, Stubbing!StepsReach
<1>11. Loads(doc, f[1..n]) /\ StubsOut(load.doc, f[1..n].doc, Stubbed(n))
  BY <1>10
<1>12. Stubbed(n) = gone
  <2>1. /\ \A k \in DOMAIN ids : ids[k] \in gone
        /\ \A i \in gone : \E k \in DOMAIN ids : ids[k] = i
    BY Zenon, <1>2, <1>3, InIdOrderNumbers
  <2>. QED  BY <1>4, <2>1
<1>. QED  BY Zenon, <1>1, <1>5, <1>7, <1>11, <1>12

-----------------------------------------------------------------------------
\* A pass over the selection, the tabs or the viewport.
LEMMA ViewLoads ==
    ASSUME NEW doc, NEW load, Loads(doc, load), NEW e, e = load.doc,
           NEW selected, IsFiniteSet(selected), NEW tabs, NEW viewport, NEW d,
           HasView(d, e, selected, tabs, viewport), NEW repairs
    PROVE  Loads(doc, Repaired(load, d, repairs))
<1>1. IsDocument(e)
  BY Zenon DEF Loads
<1>2. IsDocument(d) /\ Content(d) = Content(e)
  BY <1>1, ViewKeeps
<1>. QED  BY Zenon, <1>2, RepairedLoads

\* repair_view: a viewport no canvas can draw.
LEMMA RepairViewportLoads ==
    ASSUME NEW doc, NEW load, Loads(doc, load)
    PROVE  Loads(doc, RepairViewport(load))
<1>1. PICK e : e = load.doc
  OBVIOUS
<1>2. IsDocument(e)
  BY Zenon, <1>1 DEF Loads
<1>3. PICK d : d = [e EXCEPT !.viewport = 0]
  OBVIOUS
<1>4. e = [nodes |-> e.nodes, bindings |-> e.bindings, subs |-> e.subs,
           stubs |-> e.stubs, place |-> e.place, ties |-> e.ties,
           routes |-> e.routes, selected |-> e.selected,
           tabs |-> e.tabs, viewport |-> e.viewport]
  BY Zenon, <1>2, PartsOf
<1>5. HasView(d, e, e.selected, e.tabs, 0)
  BY <1>3, <1>4 DEF HasView, DocOf
<1>6. IsFiniteSet(e.selected)
  BY Zenon, <1>2, DocumentParts
<1>7. Loads(doc, Repaired(load, d, {<<"viewportReset">>}))
  BY Zenon, <1>1, <1>5, <1>6, ViewLoads
<1>. QED  BY Zenon, <1>1, <1>3, <1>7 DEF RepairViewport

\* The selection keeps what the view holds.
LEMMA RepairSelectionLoads ==
    ASSUME NEW doc, NEW load, Loads(doc, load)
    PROVE  Loads(doc, RepairSelection(load))
<1>1. PICK e : e = load.doc
  OBVIOUS
<1>2. IsDocument(e)
  BY Zenon, <1>1 DEF Loads
<1>3. PICK gone : gone = {item \in e.selected : ~Holds(e, item)}
  OBVIOUS
<1>4. PICK selected : selected = e.selected \ gone
  OBVIOUS
<1>5. PICK d : d = [e EXCEPT !.selected = selected]
  OBVIOUS
<1>6. e = [nodes |-> e.nodes, bindings |-> e.bindings, subs |-> e.subs,
           stubs |-> e.stubs, place |-> e.place, ties |-> e.ties,
           routes |-> e.routes, selected |-> e.selected,
           tabs |-> e.tabs, viewport |-> e.viewport]
  BY Zenon, <1>2, PartsOf
<1>7. HasView(d, e, selected, e.tabs, e.viewport)
  BY <1>5, <1>6 DEF HasView, DocOf
<1>8. IsFiniteSet(selected)
  <2>1. IsFiniteSet(e.selected)
    BY Zenon, <1>2, DocumentParts
  <2>. QED  BY <1>4, <2>1, FS_Difference
<1>9. PICK repairs : repairs = {<<"selectionDropped", item>> : item \in gone}
  OBVIOUS
<1>10. Loads(doc, Repaired(load, d, repairs))
  BY Zenon, <1>1, <1>7, <1>8, ViewLoads
<1>. QED  BY Zenon, <1>1, <1>3, <1>4, <1>5, <1>9, <1>10 DEF RepairSelection

\* repair_layout: the tabs keep what the graph has a viewer for.
LEMMA RepairLayoutLoads ==
    ASSUME NEW doc, NEW load, Loads(doc, load)
    PROVE  Loads(doc, RepairLayout(load))
<1>1. PICK e : e = load.doc
  OBVIOUS
<1>2. IsDocument(e)
  BY Zenon, <1>1 DEF Loads
<1>3. PICK stale : stale = e.tabs \ (DOMAIN e.nodes \cap Previews)
  OBVIOUS
<1>4. PICK tabs : tabs = e.tabs \ stale
  OBVIOUS
<1>5. PICK d : d = [e EXCEPT !.tabs = tabs]
  OBVIOUS
<1>6. e = [nodes |-> e.nodes, bindings |-> e.bindings, subs |-> e.subs,
           stubs |-> e.stubs, place |-> e.place, ties |-> e.ties,
           routes |-> e.routes, selected |-> e.selected,
           tabs |-> e.tabs, viewport |-> e.viewport]
  BY Zenon, <1>2, PartsOf
<1>7. HasView(d, e, e.selected, tabs, e.viewport)
  BY <1>5, <1>6 DEF HasView, DocOf
<1>8. IsFiniteSet(e.selected)
  BY Zenon, <1>2, DocumentParts
<1>9. PICK repairs : repairs = {<<"viewerClosed", n>> : n \in stale}
  OBVIOUS
<1>10. Loads(doc, Repaired(load, d, repairs))
  BY Zenon, <1>1, <1>7, <1>8, ViewLoads
<1>. QED  BY Zenon, <1>1, <1>3, <1>4, <1>5, <1>9, <1>10 DEF RepairLayout

-----------------------------------------------------------------------------
\* A pass over the placements, the ties or the routes.
LEMMA LayoutLoads ==
    ASSUME NEW doc, NEW load, Loads(doc, load), NEW e, e = load.doc,
           NEW place, ArePlacements(place), NEW ties, IsFiniteMap(ties),
           NEW routes, AreRoutes(routes), NEW d, HasLayout(d, e, place, ties, routes),
           NEW repairs,
           repairs = {} => place = e.place /\ ties = e.ties /\ routes = e.routes
    PROVE  Loads(doc, Repaired(load, d, repairs))
<1>1. IsDocument(e)
  BY Zenon DEF Loads
<1>2. /\ IsDocument(d)
      /\ place = e.place /\ ties = e.ties /\ routes = e.routes
         => Content(d) = Content(e)
  BY <1>1, LayoutKeeps
<1>. QED  BY Zenon, <1>2, RepairedLoads

\* Every node has a placement, and nothing else does.
LEMMA RepairPlacementsLoads ==
    ASSUME NEW doc, NEW load, Loads(doc, load)
    PROVE  Loads(doc, RepairPlacements(load))
<1>1. PICK e : e = load.doc
  OBVIOUS
<1>2. IsDocument(e)
  BY Zenon, <1>1 DEF Loads
<1>3. /\ AreNodes(e.nodes) /\ AreStubs(e.stubs) /\ ArePlacements(e.place)
      /\ IsFiniteMap(e.ties) /\ AreRoutes(e.routes)
  BY Zenon, <1>2, DocumentParts
<1>4. PICK lost : lost = DOMAIN e.place \ Ids(e)
  OBVIOUS
<1>5. PICK bad : bad = {n \in DOMAIN e.place \ lost : e.place[n].pos = NotFinite}
  OBVIOUS
<1>6. PICK new : new = Ids(e) \ DOMAIN e.place
  OBVIOUS
<1>7. PICK drawn : drawn = [n \in DOMAIN e.place \ lost |->
                               IF n \in bad THEN [e.place[n] EXCEPT !.pos = 0]
                               ELSE e.place[n]]
  OBVIOUS
<1>8. PICK added : added = [n \in new |-> [pos |-> 0, z |-> 0]]
  OBVIOUS
<1>9. PICK place : place = Merge(drawn, added)
  OBVIOUS
<1>10. PICK d : d = [e EXCEPT !.place = place]
  OBVIOUS
<1>11. PICK repairs : repairs = {<<"placementDropped", n>> : n \in lost}
                                    \cup {<<"posReset", n>> : n \in bad}
                                    \cup {<<"placed", n>> : n \in new}
  OBVIOUS
<1>12. RepairPlacements(load) = Repaired(load, d, repairs)
  BY Zenon, <1>1, <1>4, <1>5, <1>6, <1>7, <1>8, <1>9, <1>10, <1>11
     DEF RepairPlacements
<1>13. e = [nodes |-> e.nodes, bindings |-> e.bindings, subs |-> e.subs,
            stubs |-> e.stubs, place |-> e.place, ties |-> e.ties,
            routes |-> e.routes, selected |-> e.selected,
            tabs |-> e.tabs, viewport |-> e.viewport]
  BY Zenon, <1>2, PartsOf
<1>14. HasLayout(d, e, place, e.ties, e.routes)
  BY <1>10, <1>13 DEF HasLayout, DocOf
<1>15. IsMap(drawn) /\ DOMAIN drawn = DOMAIN e.place \ lost
  BY <1>7 DEF IsMap
<1>16. ASSUME NEW n \in DOMAIN drawn PROVE IsPlacement(drawn[n])
  <2>1. PICK p : p = e.place[n]
    OBVIOUS
  <2>2. IsPlacement(p)
    BY <1>3, <1>15, <2>1 DEF ArePlacements
  <2>3. p = [pos |-> p.pos, z |-> p.z]
    BY Zenon, <2>2 DEF IsPlacement
  <2>4. PICK q : q = [p EXCEPT !.pos = 0]
    OBVIOUS
  <2>5. q = [pos |-> 0, z |-> p.z]
    BY <2>3, <2>4
  <2>6. IsPlacement(q)
    BY <2>5 DEF IsPlacement
  <2>7. drawn[n] = q \/ drawn[n] = p
    BY <1>7, <1>15, <2>1, <2>4
  <2>. QED  BY Zenon, <2>2, <2>6, <2>7
<1>17. IsMap(added) /\ DOMAIN added = new /\ \A n \in new : IsPlacement(added[n])
  <2>1. PICK p : p = [pos |-> 0, z |-> 0]
    OBVIOUS
  <2>2. IsPlacement(p)
    BY <2>1 DEF IsPlacement
  <2>3. \A n \in new : added[n] = p
    BY <1>8, <2>1
  <2>4. IsMap(added) /\ DOMAIN added = new
    BY <1>8 DEF IsMap
  <2>. QED  BY Zenon, <2>2, <2>3, <2>4
<1>18. IsFiniteMap(drawn) /\ IsFiniteMap(added)
  <2>1. /\ IsFiniteSet(DOMAIN e.place) /\ IsFiniteSet(DOMAIN e.nodes)
        /\ IsFiniteSet(DOMAIN e.stubs)
    BY <1>3 DEF ArePlacements, AreNodes, AreStubs, IsFiniteMap
  <2>2. IsFiniteSet(Ids(e))
    BY <2>1, FS_Union DEF Ids
  <2>3. IsFiniteSet(DOMAIN drawn) /\ IsFiniteSet(new)
    BY <1>6, <1>15, <2>1, <2>2, FS_Difference
  <2>. QED  BY Zenon, <1>15, <1>17, <2>3 DEF IsFiniteMap
<1>19. ArePlacements(place)
  <2>1. /\ IsFiniteMap(place) /\ DOMAIN place = DOMAIN drawn \cup new
        /\ \A n \in new : place[n] = added[n]
        /\ \A n \in DOMAIN drawn \ new : place[n] = drawn[n]
    <3>1. /\ IsFiniteMap(place) /\ DOMAIN place = DOMAIN drawn \cup DOMAIN added
          /\ \A n \in DOMAIN added : place[n] = added[n]
          /\ \A n \in DOMAIN drawn \ DOMAIN added : place[n] = drawn[n]
      <4>1. PICK m : m = Merge(drawn, added)
        OBVIOUS
      <4>2. /\ IsFiniteMap(Merge(drawn, added))
            /\ DOMAIN Merge(drawn, added) = DOMAIN drawn \cup DOMAIN added
            /\ \A n \in DOMAIN added : Merge(drawn, added)[n] = added[n]
            /\ \A n \in DOMAIN drawn \ DOMAIN added :
                  Merge(drawn, added)[n] = drawn[n]
        BY <1>18, MergeMakes
      <4>3. /\ IsFiniteMap(m) /\ DOMAIN m = DOMAIN drawn \cup DOMAIN added
            /\ \A n \in DOMAIN added : m[n] = added[n]
            /\ \A n \in DOMAIN drawn \ DOMAIN added : m[n] = drawn[n]
        BY Zenon, <4>1, <4>2
      <4>4. place = m
        BY Zenon, <1>9, <4>1
      <4>. QED  BY Zenon, <4>3, <4>4
    <3>2. DOMAIN added = new
      BY Zenon, <1>17
    <3>. QED  BY Zenon, <3>1, <3>2
  <2>2. ASSUME NEW n \in DOMAIN place PROVE IsPlacement(place[n])
    <3>1. \/ n \in new /\ place[n] = added[n]
          \/ n \in DOMAIN drawn /\ place[n] = drawn[n]
      BY <2>1
    <3>. QED  BY Zenon, <1>16, <1>17, <3>1
  <2>. QED  BY Zenon, <2>1, <2>2 DEF ArePlacements
<1>20. repairs = {} => place = e.place
  <2>1. repairs = {} => lost = {} /\ bad = {} /\ new = {}
    BY <1>11
  <2>2. e.place = [x \in DOMAIN e.place |-> e.place[x]]
    BY Zenon, <1>3 DEF ArePlacements, IsFiniteMap, IsMap
  <2>3. lost = {} /\ bad = {} => drawn = e.place
    BY <1>7, <2>2
  <2>4. new = {} => place = drawn
    BY Zenon, <1>9, <1>15, <1>17, MapsStay
  <2>. QED  BY Zenon, <2>1, <2>3, <2>4
<1>21. Loads(doc, Repaired(load, d, repairs))
  BY Zenon, <1>1, <1>3, <1>14, <1>19, <1>20, LayoutLoads
<1>. QED  BY Zenon, <1>12, <1>21

\* A repaired route names ties the document has, each of them once, and all of
\* those it named before.
LEMMA KeptStepsKept ==
    ASSUME NEW route, IsRoute(route), NEW ties
    PROVE  /\ IsRoute(KeptSteps(route, ties)) /\ IsInjective(KeptSteps(route, ties))
           /\ ToSet(KeptSteps(route, ties)) \subseteq ties
           /\ ToSet(route) \cap ties \subseteq ToSet(KeptSteps(route, ties))
<1>1. PICK places : places = {k \in DOMAIN route : route[k] \in ties /\ FirstOf(route, k)}
  OBVIOUS
<1>2. PICK p : p = Picked(route, places)
  OBVIOUS
<1>3. places \subseteq DOMAIN route
  BY <1>1
<1>4. /\ IsRoute(p)
      /\ \A k \in DOMAIN p : \E j \in places : p[k] = route[j]
      /\ \A j \in places : \E k \in DOMAIN p : p[k] = route[j]
      /\ (\A i, j \in places : route[i] = route[j] => i = j) => IsInjective(p)
  BY <1>2, <1>3, PickedIsRoute
<1>5. DOMAIN route = 1..Len(route) /\ Len(route) \in Nat
  BY RouteParts
<1>6. \A i, j \in places : route[i] = route[j] => i = j
  <2>1. TAKE i, j \in places
  <2>2. i \in 1..Len(route) /\ j \in 1..Len(route)
    BY <1>1, <1>5
  <2>3. route[i] = route[j] => ~(i < j) /\ ~(j < i)
    BY <1>1, <2>2 DEF FirstOf
  <2>. QED  BY <2>2, <2>3
<1>7. ToSet(p) \subseteq ties
  BY <1>1, <1>4 DEF ToSet
<1>8. ToSet(route) \cap ties \subseteq ToSet(p)
  <2>1. SUFFICES ASSUME NEW t \in ties, t \in ToSet(route) PROVE t \in ToSet(p)
    OBVIOUS
  <2>2. PICK named : named = {k \in DOMAIN route : route[k] = t}
    OBVIOUS
  <2>3. named # {} /\ named \subseteq Nat
    BY <1>5, <2>1, <2>2 DEF ToSet
  <2>4. PICK k \in named : \A j \in named : k <= j
    BY <2>3, Replay!LeastNatural
  <2>5. FirstOf(route, k)
    <3>1. SUFFICES ASSUME NEW j \in 1..(k - 1), route[j] = route[k] PROVE FALSE
      BY DEF FirstOf
    <3>2. k \in 1..Len(route) /\ route[k] = t
      BY <1>5, <2>2
    <3>3. j \in 1..Len(route) /\ j < k
      BY <1>5, <3>2
    <3>4. j \in named
      BY <1>5, <2>2, <3>1, <3>2, <3>3
    <3>. QED  BY <2>4, <3>3, <3>4
  <2>6. k \in places
    BY <1>1, <2>2, <2>4, <2>5
  <2>. QED  BY <1>4, <2>2, <2>4, <2>6 DEF ToSet
<1>. QED  BY Zenon, <1>1, <1>2, <1>4, <1>6, <1>7, <1>8 DEF KeptSteps

\* repair_ties: routes keep the ties there are, wires that are gone none.
LEMMA RepairRoutesLoads ==
    ASSUME NEW doc, NEW load, Loads(doc, load)
    PROVE  Loads(doc, RepairRoutes(load))
<1>1. PICK e : e = load.doc
  OBVIOUS
<1>2. IsDocument(e)
  BY Zenon, <1>1 DEF Loads
<1>3. ArePlacements(e.place) /\ IsFiniteMap(e.ties) /\ AreRoutes(e.routes)
  BY Zenon, <1>2, DocumentParts
<1>. DEFINE kept(w) == IF IsHeld(w, e.bindings, e.subs)
                       THEN KeptSteps(e.routes[w], DOMAIN e.ties) ELSE <<>>
            all == [w \in DOMAIN e.routes |-> kept(w)]
<1>4. PICK steps : steps = all
  OBVIOUS
<1>5. PICK gone : gone = {w \in DOMAIN steps : steps[w] = <<>>}
  OBVIOUS
<1>6. PICK routes : routes = Drop(steps, gone)
  OBVIOUS
<1>7. PICK d : d = [e EXCEPT !.routes = routes]
  OBVIOUS
<1>8. PICK repairs : repairs = {<<"routeDropped", w>> : w \in gone}
                                   \cup {<<"routeStepDropped", w>> :
                                            w \in {v \in DOMAIN steps :
                                                     steps[v] # e.routes[v]}}
  OBVIOUS
<1>9. RepairRoutes(load) = Repaired(load, d, repairs)
  BY Zenon, <1>1, <1>4, <1>5, <1>6, <1>7, <1>8 DEF RepairRoutes
<1>10. e = [nodes |-> e.nodes, bindings |-> e.bindings, subs |-> e.subs,
            stubs |-> e.stubs, place |-> e.place, ties |-> e.ties,
            routes |-> e.routes, selected |-> e.selected,
            tabs |-> e.tabs, viewport |-> e.viewport]
  BY Zenon, <1>2, PartsOf
<1>11. HasLayout(d, e, e.place, e.ties, routes)
  BY <1>7, <1>10 DEF HasLayout, DocOf
<1>12. IsMap(steps) /\ DOMAIN steps = DOMAIN e.routes
  <2>. HIDE DEF kept
  <2>. QED  BY <1>4 DEF IsMap
<1>16. \A w \in DOMAIN e.routes : IsRoute(kept(w))
  <2>1. TAKE w \in DOMAIN e.routes
  <2>2. IsRoute(e.routes[w])
    BY <1>3 DEF AreRoutes
  <2>3. IsRoute(KeptSteps(e.routes[w], DOMAIN e.ties))
    BY Zenon, <2>2, KeptStepsKept
  <2>. QED  BY <2>3, RoutesRead, <1>2
<1>17. \A w \in DOMAIN steps : IsRoute(steps[w])
  <2>. HIDE DEF kept
  <2>. QED  BY <1>4, <1>16
<1>. HIDE DEF all
<1>13. AreRoutes(routes)
  <2>1. /\ IsMap(routes) /\ DOMAIN routes \subseteq DOMAIN steps
        /\ \A w \in DOMAIN routes : routes[w] = steps[w]
    BY <1>6 DEF Drop, IsMap
  <2>. QED  BY <1>17, <2>1 DEF AreRoutes
<1>14. repairs = {} => routes = e.routes
  <2>1. repairs = {} => gone = {} /\ \A v \in DOMAIN steps : steps[v] = e.routes[v]
    BY <1>8
  <2>2. (\A v \in DOMAIN steps : steps[v] = e.routes[v]) => steps = e.routes
    <3>1. e.routes = [w \in DOMAIN e.routes |-> e.routes[w]]
      BY Zenon, <1>3 DEF IsMap, AreRoutes
    <3>2. steps = [w \in DOMAIN steps |-> steps[w]]
      BY Zenon, <1>12 DEF IsMap
    <3>. QED  BY <1>12, <3>1, <3>2
  <2>3. gone = {} => routes = steps
    BY Zenon, <1>6, <1>12, MapsStay
  <2>. QED  BY Zenon, <2>1, <2>2, <2>3
<1>15. Loads(doc, Repaired(load, d, repairs))
  BY Zenon, <1>1, <1>3, <1>11, <1>13, <1>14, LayoutLoads
<1>. QED  BY Zenon, <1>9, <1>15

\* A tie no route passes through goes.
LEMMA RepairTiesLoads ==
    ASSUME NEW doc, NEW load, Loads(doc, load)
    PROVE  Loads(doc, RepairTies(load))
<1>1. PICK e : e = load.doc
  OBVIOUS
<1>2. IsDocument(e)
  BY Zenon, <1>1 DEF Loads
<1>3. ArePlacements(e.place) /\ IsFiniteMap(e.ties) /\ AreRoutes(e.routes)
  BY Zenon, <1>2, DocumentParts
<1>4. PICK bare : bare = {t \in DOMAIN e.ties : Through(e.routes, t) = {}}
  OBVIOUS
<1>5. PICK far : far = {t \in DOMAIN e.ties \ bare : e.ties[t].pos = NotFinite}
  OBVIOUS
<1>6. PICK ties : ties = [t \in DOMAIN e.ties \ bare |->
                             IF t \in far THEN [e.ties[t] EXCEPT !.pos = 0]
                             ELSE e.ties[t]]
  OBVIOUS
<1>7. PICK d : d = [e EXCEPT !.ties = ties]
  OBVIOUS
<1>8. PICK repairs : repairs = {<<"tieDropped", t>> : t \in bare}
                                   \cup {<<"tiePosReset", t>> : t \in far}
  OBVIOUS
<1>9. RepairTies(load) = Repaired(load, d, repairs)
  BY Zenon, <1>1, <1>4, <1>5, <1>6, <1>7, <1>8 DEF RepairTies
<1>10. e = [nodes |-> e.nodes, bindings |-> e.bindings, subs |-> e.subs,
            stubs |-> e.stubs, place |-> e.place, ties |-> e.ties,
            routes |-> e.routes, selected |-> e.selected,
            tabs |-> e.tabs, viewport |-> e.viewport]
  BY Zenon, <1>2, PartsOf
<1>11. HasLayout(d, e, e.place, ties, e.routes)
  BY <1>7, <1>10 DEF HasLayout, DocOf
<1>12. IsFiniteMap(ties)
  <2>1. IsMap(ties) /\ DOMAIN ties = DOMAIN e.ties \ bare
    BY <1>6 DEF IsMap
  <2>2. IsFiniteSet(DOMAIN ties)
    BY <1>3, <2>1, FS_Difference DEF IsFiniteMap
  <2>. QED  BY Zenon, <2>1, <2>2 DEF IsFiniteMap
<1>13. repairs = {} => ties = e.ties
  <2>1. repairs = {} => bare = {} /\ far = {}
    BY <1>8
  <2>2. e.ties = [t \in DOMAIN e.ties |-> e.ties[t]]
    BY Zenon, <1>3 DEF IsFiniteMap, IsMap
  <2>3. bare = {} /\ far = {} => ties = e.ties
    BY <1>6, <2>2
  <2>. QED  BY <2>1, <2>3
<1>14. Loads(doc, Repaired(load, d, repairs))
  BY Zenon, <1>1, <1>3, <1>11, <1>12, <1>13, LayoutLoads
<1>. QED  BY Zenon, <1>9, <1>14

-----------------------------------------------------------------------------
\* Document::reconcile answers a document, and the one it was given but for
\* where the user was when it reports no repair.
LEMMA ReconcileLoads ==
    ASSUME NEW doc, IsDocument(doc), NEW lib
    PROVE  Loads(doc, Reconcile(doc, lib))
<1>1. Loads(doc, Decoded(doc))
  <2>1. PICK load : load = Decoded(doc)
    OBVIOUS
  <2>2. load.doc = doc /\ load = LoadOf(load.doc, load.repairs)
    BY <2>1 DEF Decoded, LoadOf
  <2>3. Loads(doc, load)
    BY Zenon, <2>2 DEF Loads
  <2>. QED  BY Zenon, <2>1, <2>3
<1>2. PICK attached : attached = ReattachStubs(DropDuplicateStubs(Decoded(doc)), lib)
  OBVIOUS
<1>3. Loads(doc, attached)
  BY Zenon, <1>1, <1>2, DropDuplicateStubsLoads, ReattachStubsLoads
<1>4. Loads(doc, ReconcileGraph(attached, lib))
  BY Zenon, <1>3, DropDanglingLoads, StubUnresolvedLoads, DropRefusedLoads,
     DropClosingLoads DEF ReconcileGraph
<1>5. Loads(doc, RepairView(ReconcileGraph(attached, lib)))
  BY Zenon, <1>4, RepairViewportLoads, RepairPlacementsLoads, RepairRoutesLoads,
     RepairTiesLoads, RepairSelectionLoads DEF RepairView
<1>. QED  BY Zenon, <1>2, <1>5, RepairLayoutLoads DEF Reconcile

-----------------------------------------------------------------------------
\* The walk of a load goes over a graph whose wires fit its nodes.
WiresIn(bindings) == {i \in DOMAIN bindings : IsWire(bindings[i])}
WiresTo(bindings, node) == {i \in WiresIn(bindings) : i[1] = node}
IsGraph(nodes, bindings) ==
    /\ nodes \subseteq NodeIds
    /\ IsFiniteSet(DOMAIN bindings)
    /\ \A i \in WiresIn(bindings) :
          i[1] \in nodes /\ bindings[i][2] \in nodes /\ i \in DeclaredInputs(i[1])

Visits(nodes, bindings) ==
    {RootOf(n) : n \in nodes} \cup {ExitOf(n) : n \in nodes}
        \cup {WireInto(bindings, i) : i \in WiresIn(bindings)}
Ends(walk, k) == walk.stack[k].kind = "exit"
Wires(walk, k) == walk.stack[k].kind = "wire"
Places(walk) == 1..Len(walk.stack)
Entered(walk) == walk.onPath \cup walk.done
IsWalk(walk, nodes, bindings) ==
    /\ walk = [onPath |-> walk.onPath, done |-> walk.done,
               closing |-> walk.closing, stack |-> walk.stack]
    /\ walk.onPath \subseteq nodes /\ walk.done \subseteq nodes
    /\ walk.onPath \cap walk.done = {}
    /\ walk.closing \subseteq {i \in WiresIn(bindings) : i[1] \in Entered(walk)}
    /\ walk.stack \in Seq(Visits(nodes, bindings))

\* What a visit on the stack is.
LEMMA VisitParts ==
    ASSUME NEW nodes, NEW bindings, IsGraph(nodes, bindings)
    PROVE  /\ \A n : RootOf(n).kind = "root" /\ RootOf(n).node = n
           /\ \A n : ExitOf(n).kind = "exit" /\ ExitOf(n).node = n
           /\ \A i : /\ WireInto(bindings, i).kind = "wire"
                     /\ WireInto(bindings, i).input = i
                     /\ WireInto(bindings, i).node = bindings[i][2]
           /\ \A v \in Visits(nodes, bindings) :
                 /\ v.kind \in {"root", "exit", "wire"} /\ v.node \in nodes
                 /\ v.kind = "wire" => /\ v.input \in WiresIn(bindings)
                                       /\ v.node = bindings[v.input][2]
<1>1. \A n : RootOf(n).kind = "root" /\ RootOf(n).node = n
  BY DEF RootOf
<1>2. \A n : ExitOf(n).kind = "exit" /\ ExitOf(n).node = n
  BY DEF ExitOf
<1>3. \A i : /\ WireInto(bindings, i).kind = "wire"
             /\ WireInto(bindings, i).input = i
             /\ WireInto(bindings, i).node = bindings[i][2]
  BY DEF WireInto
<1>4. ASSUME NEW v \in Visits(nodes, bindings)
      PROVE  /\ v.kind \in {"root", "exit", "wire"} /\ v.node \in nodes
             /\ v.kind = "wire" => /\ v.input \in WiresIn(bindings)
                                   /\ v.node = bindings[v.input][2]
  <2>1. CASE \E n \in nodes : v = RootOf(n) \/ v = ExitOf(n)
    <3>1. PICK n \in nodes : v = RootOf(n) \/ v = ExitOf(n)
      BY <2>1
    <3>. QED  BY <1>1, <1>2, <3>1
  <2>2. CASE \E i \in WiresIn(bindings) : v = WireInto(bindings, i)
    <3>1. PICK i \in WiresIn(bindings) : v = WireInto(bindings, i)
      BY <2>2
    <3>. QED  BY <1>3, <3>1 DEF IsGraph
  <2>. QED  BY <2>1, <2>2 DEF Visits
<1>. QED  BY <1>1, <1>2, <1>3, <1>4

\* The same of every place of a stack.
LEMMA StackParts ==
    ASSUME NEW nodes, NEW bindings, IsGraph(nodes, bindings),
           NEW walk, IsWalk(walk, nodes, bindings)
    PROVE  /\ Len(walk.stack) \in Nat
           /\ \A k \in Places(walk) :
                 /\ walk.stack[k].kind \in {"root", "exit", "wire"}
                 /\ walk.stack[k].node \in nodes
                 /\ Wires(walk, k) =>
                       /\ walk.stack[k].input \in WiresIn(bindings)
                       /\ walk.stack[k].node = bindings[walk.stack[k].input][2]
<1>1. walk.stack \in Seq(Visits(nodes, bindings))
  BY DEF IsWalk
<1>2. /\ Len(walk.stack) \in Nat
      /\ \A k \in Places(walk) : walk.stack[k] \in Visits(nodes, bindings)
  BY <1>1 DEF Places
<1>. QED  BY <1>2, VisitParts DEF Wires

-----------------------------------------------------------------------------
\* The four things a step of the walk can be, of the top of its stack.
TopOf(walk) == walk.stack[Len(walk.stack)]
Pops(walk, next) ==
    /\ Len(next.stack) = Len(walk.stack) - 1
    /\ \A k \in Places(next) : next.stack[k] = walk.stack[k]
PassesBy(walk, next) ==
    /\ TopOf(walk).kind # "exit" /\ TopOf(walk).node \in walk.done
    /\ next.onPath = walk.onPath /\ next.done = walk.done
    /\ next.closing = walk.closing /\ Pops(walk, next)
LeavesNode(walk, next) ==
    /\ TopOf(walk).kind = "exit"
    /\ next.onPath = walk.onPath \ {TopOf(walk).node}
    /\ next.done = walk.done \cup {TopOf(walk).node}
    /\ next.closing = walk.closing /\ Pops(walk, next)
FindsCycle(walk, next) ==
    /\ TopOf(walk).kind = "wire" /\ TopOf(walk).node \in walk.onPath
    /\ next.onPath = walk.onPath /\ next.done = walk.done
    /\ next.closing = walk.closing \cup {TopOf(walk).input} /\ Pops(walk, next)
EntersNode(walk, next, bindings) ==
    LET node == TopOf(walk).node
        top  == Len(walk.stack)
    IN  /\ TopOf(walk).kind # "exit" /\ node \notin Entered(walk)
        /\ next.onPath = walk.onPath \cup {node} /\ next.done = walk.done
        /\ next.closing = walk.closing
        /\ Len(next.stack) = top + Cardinality(WiresTo(bindings, node))
        /\ \A k \in 1..(top - 1) : next.stack[k] = walk.stack[k]
        /\ Ends(next, top) /\ next.stack[top].node = node
        /\ \A k \in Places(next) : k > top =>
              /\ Wires(next, k) /\ next.stack[k].input \in WiresTo(bindings, node)
              /\ \A j \in Places(next) :
                    j > top /\ next.stack[j].input = next.stack[k].input => j = k
        /\ \A i \in WiresTo(bindings, node) :
              \E k \in Places(next) : k > top /\ next.stack[k].input = i

\* The ports of a node that hold a wire number the wires to it.
LEMMA PortsNumberWires ==
    ASSUME NEW nodes, NEW bindings, IsGraph(nodes, bindings), NEW node \in nodes
    PROVE  /\ WiredPorts(bindings, node) \in SUBSET Nat
           /\ IsFiniteSet(WiredPorts(bindings, node))
           /\ Cardinality(WiredPorts(bindings, node)) = Cardinality(WiresTo(bindings, node))
           /\ \A p \in WiredPorts(bindings, node) : <<node, p>> \in WiresTo(bindings, node)
           /\ \A i \in WiresTo(bindings, node) :
                 \E p \in WiredPorts(bindings, node) : i = <<node, p>>
<1>. DEFINE ports == WiredPorts(bindings, node)
            wires == WiresTo(bindings, node)
<1>1. InputsOf[node] \in Nat
  BY DocumentAssumption DEF IsGraph
<1>2. ports \subseteq Nat /\ ports \subseteq 0..(InputsOf[node] - 1)
  BY <1>1 DEF WiredPorts
<1>3. \A p \in ports : <<node, p>> \in wires
  BY DEF WiredPorts, WiresTo, WiresIn
<1>4. ASSUME NEW i \in wires PROVE \E p \in ports : i = <<node, p>>
  <2>1. i \in WiresIn(bindings) /\ i[1] = node /\ i \in DeclaredInputs(node)
    BY DEF WiresTo, IsGraph
  <2>2. PICK p \in 0..(InputsOf[node] - 1) : i = <<node, p>>
    BY <2>1 DEF DeclaredInputs
  <2>. QED  BY <2>1, <2>2 DEF WiredPorts, WiresIn
<1>. HIDE DEF ports, wires
<1>5. IsFiniteSet(ports)
  <2>1. IsFiniteSet(0..(InputsOf[node] - 1))
    BY <1>1, FS_Interval
  <2>. QED  BY <1>2, <2>1, FS_Subset
<1>6. Cardinality(ports) = Cardinality(wires)
  <2>. DEFINE f == [p \in ports |-> <<node, p>>]
  <2>1. f \in Bijection(ports, wires)
    <3>1. f \in [ports -> wires]
      BY <1>3
    <3>2. \A p, q \in ports : f[p] = f[q] => p = q
      OBVIOUS
    <3>3. \A i \in wires : \E p \in ports : f[p] = i
      BY <1>4
    <3>. HIDE DEF f
    <3>. QED  BY <3>1, <3>2, <3>3 DEF Bijection, Injection, Surjection, IsInjective
  <2>. HIDE DEF f
  <2>. QED  BY <1>5, <2>1, FS_Bijection DEF ExistsBijection
<1>. QED  BY <1>2, <1>3, <1>4, <1>5, <1>6 DEF ports, wires

\* The stack without its top.
LEMMA FrontParts ==
    ASSUME NEW S, NEW s \in Seq(S), s # <<>>
    PROVE  /\ Len(s) \in Nat /\ Len(s) > 0 /\ Last(s) = s[Len(s)] /\ Last(s) \in S
           /\ Front(s) \in Seq(S) /\ Len(Front(s)) = Len(s) - 1
           /\ \A k \in 1..(Len(s) - 1) : Front(s)[k] = s[k]
<1>1. Len(s) \in Nat /\ Len(s) > 0 /\ s[Len(s)] \in S
  OBVIOUS
<1>2. /\ SubSeq(s, 1, Len(s) - 1) \in Seq(S)
      /\ Len(SubSeq(s, 1, Len(s) - 1)) = Len(s) - 1
      /\ \A k \in 1..(Len(s) - 1) : SubSeq(s, 1, Len(s) - 1)[k] = s[k]
  <2>1. PICK j \in Nat : j = Len(s) - 1 /\ j <= Len(s)
    BY <1>1
  <2>2. /\ SubSeq(s, 1, j) \in Seq(S) /\ Len(SubSeq(s, 1, j)) = j
        /\ \A k \in 1..j : SubSeq(s, 1, j)[k] = s[k]
    BY <2>1, SMTT(30)
  <2>. QED  BY <2>1, <2>2
<1>. QED  BY <1>1, <1>2 DEF Front, Last

Pushed(past, next, rest, r, nodes, bindings, node) ==
    /\ next = [onPath |-> next.onPath, done |-> next.done,
               closing |-> next.closing, stack |-> next.stack]
    /\ next.onPath = past.onPath \cup {node} /\ next.done = past.done
    /\ next.closing = past.closing
    /\ next.stack \in Seq(Visits(nodes, bindings))
    /\ Len(next.stack) = r + 1 + Cardinality(WiresTo(bindings, node))
    /\ \A k \in 1..r : next.stack[k] = rest[k]
    /\ Ends(next, r + 1) /\ next.stack[r + 1].node = node
    /\ \A k \in Places(next) : k > r + 1 =>
          /\ Wires(next, k) /\ next.stack[k].input \in WiresTo(bindings, node)
          /\ \A j \in Places(next) :
                j > r + 1 /\ next.stack[j].input = next.stack[k].input => j = k
    /\ \A i \in WiresTo(bindings, node) :
          \E k \in Places(next) : k > r + 1 /\ next.stack[k].input = i
\* What entering a node pushes: its exit, and over it one visit of each wire.
LEMMA EnterPushes ==
    ASSUME NEW nodes, NEW bindings, IsGraph(nodes, bindings), NEW node \in nodes,
           NEW rest \in Seq(Visits(nodes, bindings)), NEW r \in Nat, r = Len(rest),
           NEW past, past = [onPath |-> past.onPath, done |-> past.done,
                             closing |-> past.closing, stack |-> rest],
           NEW next, next = Enter(past, bindings, node)
    PROVE  Pushed(past, next, rest, r, nodes, bindings, node)
<1>. DEFINE V == Visits(nodes, bindings)
            m == Cardinality(WiresTo(bindings, node))
            ids == WiredPorts(bindings, node)
<1>1. PICK order : order = InIdOrder(ids)
  OBVIOUS
<1>2. /\ m \in Nat /\ DOMAIN order = 1..m
      /\ \A k \in 1..m : order[k] \in ids
      /\ \A p \in ids : \E k \in 1..m : order[k] = p
      /\ \A j, k \in 1..m : order[j] = order[k] => j = k
  BY <1>1, PortsNumberWires, InIdOrderIsSeq, InIdOrderNumbers DEF IsInjective
<1>3. PICK ports : ports = Reverse(order)
  OBVIOUS
<1>4. Len(order) = m
  <2>0. order = [k \in DOMAIN order |-> order[k]]
    <3>. DEFINE at(k) == CHOOSE n \in ids : Cardinality({q \in ids : q < n}) = k - 1
    <3>1. order = [k \in 1..Cardinality(ids) |-> at(k)]
      BY Zenon, <1>1 DEF InIdOrder
    <3>. HIDE DEF at, ids
    <3>. QED  BY <3>1
  <2>1. order = [k \in 1..m |-> order[k]]
    BY <1>2, <2>0
  <2>2. order \in Seq(ids)
    BY <1>2, <2>1
  <2>. QED  BY <1>2, <2>2
<1>5. DOMAIN ports = 1..m /\ \A k \in 1..m : ports[k] = order[m - k + 1]
  BY <1>3, <1>4 DEF Reverse
<1>6. PICK over : over = [k \in DOMAIN ports |-> WireInto(bindings, <<node, ports[k]>>)]
  OBVIOUS
<1>7. ASSUME NEW k \in 1..m
      PROVE  /\ over[k] = WireInto(bindings, <<node, ports[k]>>)
             /\ <<node, ports[k]>> \in WiresTo(bindings, node)
             /\ over[k] \in V /\ over[k].kind = "wire"
             /\ over[k].input = <<node, ports[k]>>
  <2>1. m - k + 1 \in 1..m
    BY <1>2
  <2>2. over[k] = WireInto(bindings, <<node, ports[k]>>)
    BY <1>5, <1>6
  <2>3. <<node, ports[k]>> \in WiresTo(bindings, node)
    BY <1>2, <1>5, <2>1, PortsNumberWires
  <2>4. over[k] \in V
    BY <2>2, <2>3 DEF Visits, WiresTo
  <2>. QED  BY <2>2, <2>3, <2>4, VisitParts
<1>8. over \in Seq(V) /\ Len(over) = m
  <2>1. over \in [1..m -> V]
    BY <1>5, <1>6, <1>7
  <2>. QED  BY <1>2, <2>1
<1>9. PICK base : base = Append(rest, ExitOf(node))
  OBVIOUS
<1>10. ExitOf(node) \in V /\ rest \in Seq(V)
  BY DEF Visits
<1>. HIDE DEF V, m, ids
<1>11. /\ base \in Seq(V) /\ Len(base) = r + 1 /\ base[r + 1] = ExitOf(node)
       /\ \A k \in 1..r : base[k] = rest[k]
  BY <1>9, <1>10
<1>12. PICK stack : stack = base \o over
  OBVIOUS
<1>13. /\ stack \in Seq(V) /\ Len(stack) = r + 1 + m
       /\ \A k \in 1..(r + 1) : stack[k] = base[k]
       /\ \A k \in 1..m : stack[r + 1 + k] = over[k]
  <2>1. /\ stack \in Seq(V) /\ Len(stack) = Len(base) + Len(over)
        /\ \A k \in 1..Len(base) : stack[k] = base[k]
        /\ \A k \in 1..Len(over) : stack[Len(base) + k] = over[k]
    <3>1. base \in Seq(V) /\ over \in Seq(V)
      BY <1>8, <1>11
    <3>. QED  BY <1>12, <3>1, ConcatParts
  <2>2. Len(base) = r + 1 /\ Len(over) = m
    BY <1>8, <1>11
  <2>. QED  BY Zenon, <2>1, <2>2
<1>14. next = [onPath |-> past.onPath \cup {node}, done |-> past.done,
               closing |-> past.closing, stack |-> stack]
  <2>1. next = [past EXCEPT !.onPath = @ \cup {node},
                           !.stack = Append(@, ExitOf(node)) \o over]
    BY Zenon, <1>1, <1>3, <1>6 DEF Enter, ids
  <2>2. past.stack = rest
    OBVIOUS
  <2>3. Append(past.stack, ExitOf(node)) \o over = stack
    BY Zenon, <1>9, <1>12, <2>2
  <2>4. PICK on : on = past.onPath \cup {node}
    OBVIOUS
  <2>5. next = [past EXCEPT !.onPath = on, !.stack = stack]
    BY Zenon, <2>1, <2>3, <2>4
  <2>. QED  BY <2>4, <2>5
<1>15. /\ next.onPath = past.onPath \cup {node} /\ next.done = past.done
       /\ next.closing = past.closing /\ next.stack = stack
       /\ next = [onPath |-> next.onPath, done |-> next.done,
                  closing |-> next.closing, stack |-> next.stack]
  BY <1>14
<1>16. Ends(next, r + 1) /\ next.stack[r + 1].node = node
  <2>1. stack[r + 1] = ExitOf(node)
    BY <1>11, <1>13
  <2>. QED  BY <1>15, <2>1, VisitParts DEF Ends
<1>17. ASSUME NEW k \in Places(next), k > r + 1
       PROVE  /\ k - r - 1 \in 1..m /\ next.stack[k] = over[k - r - 1]
  <2>1. k \in 1..(r + 1 + m)
    BY <1>13, <1>15 DEF Places
  <2>2. k - r - 1 \in 1..m /\ r + 1 + (k - r - 1) = k
    BY <1>2, <1>17, <2>1
  <2>3. stack[r + 1 + (k - r - 1)] = over[k - r - 1]
    BY <1>13, <2>2
  <2>. QED  BY <1>15, <2>2, <2>3
<1>18. ASSUME NEW k \in Places(next), k > r + 1
       PROVE  /\ Wires(next, k) /\ next.stack[k].input \in WiresTo(bindings, node)
              /\ \A j \in Places(next) :
                    j > r + 1 /\ next.stack[j].input = next.stack[k].input => j = k
  <2>1. /\ k - r - 1 \in 1..m /\ next.stack[k] = over[k - r - 1]
    BY <1>17, <1>18
  <2>2. Wires(next, k) /\ next.stack[k].input \in WiresTo(bindings, node)
    BY <1>7, <2>1 DEF Wires
  <2>3. ASSUME NEW j \in Places(next), j > r + 1,
               next.stack[j].input = next.stack[k].input
        PROVE  j = k
    <3>1. /\ j - r - 1 \in 1..m /\ next.stack[j] = over[j - r - 1]
      BY <1>17, <2>3
    <3>2. ports[j - r - 1] = ports[k - r - 1]
      <4>1. /\ over[j - r - 1].input = <<node, ports[j - r - 1]>>
            /\ over[k - r - 1].input = <<node, ports[k - r - 1]>>
        BY <1>7, <2>1, <3>1
      <4>. QED  BY <2>1, <2>3, <3>1, <4>1
    <3>3. /\ m - (j - r - 1) + 1 \in 1..m /\ m - (k - r - 1) + 1 \in 1..m
          /\ order[m - (j - r - 1) + 1] = order[m - (k - r - 1) + 1]
      BY <1>2, <1>5, <2>1, <3>1, <3>2
    <3>4. m - (j - r - 1) + 1 = m - (k - r - 1) + 1
      BY <1>2, <3>3
    <3>5. j \in Int /\ k \in Int
      BY DEF Places
    <3>. QED  BY <1>2, <3>4, <3>5
  <2>. QED  BY <2>2, <2>3
<1>19. ASSUME NEW i \in WiresTo(bindings, node)
       PROVE  \E k \in Places(next) : k > r + 1 /\ next.stack[k].input = i
  <2>1. PICK p \in ids : i = <<node, p>>
    BY PortsNumberWires DEF ids
  <2>2. PICK j \in 1..m : order[j] = p
    BY <1>2
  <2>3. m - j + 1 \in 1..m /\ m - (m - j + 1) + 1 = j
    BY <1>2
  <2>4. ports[m - j + 1] = p
    BY <1>5, <2>2, <2>3
  <2>5. over[m - j + 1].input = i
    BY <1>7, <2>1, <2>3, <2>4
  <2>6. /\ r + 1 + (m - j + 1) \in Places(next) /\ r + 1 + (m - j + 1) > r + 1
        /\ next.stack[r + 1 + (m - j + 1)] = over[m - j + 1]
    <3>1. Len(next.stack) = r + 1 + m /\ stack[r + 1 + (m - j + 1)] = over[m - j + 1]
      BY <1>13, <1>15, <2>3
    <3>2. r + 1 + (m - j + 1) \in 1..(r + 1 + m) /\ r + 1 + (m - j + 1) > r + 1
      BY <1>2, <2>3
    <3>. QED  BY <1>15, <3>1, <3>2 DEF Places
  <2>. QED  BY <2>5, <2>6
<1>20. /\ next.stack \in Seq(V) /\ Len(next.stack) = r + 1 + m
       /\ \A k \in 1..r : next.stack[k] = rest[k]
  BY <1>11, <1>13, <1>15
<1>. QED  BY Zenon, <1>15, <1>16, <1>18, <1>19, <1>20 DEF V, m, Pushed

\* A visit is one of the four, and leaves a walk.
LEMMA VisitSteps ==
    ASSUME NEW nodes, NEW bindings, IsGraph(nodes, bindings),
           NEW walk, IsWalk(walk, nodes, bindings), walk.stack # <<>>,
           TopOf(walk).kind = "root" => TopOf(walk).node \notin walk.onPath,
           TopOf(walk).kind = "wire" => TopOf(walk).input[1] \in Entered(walk),
           NEW next, next = Visit(walk, bindings)
    PROVE  /\ IsWalk(next, nodes, bindings)
           /\ \/ PassesBy(walk, next) \/ LeavesNode(walk, next)
              \/ FindsCycle(walk, next) \/ EntersNode(walk, next, bindings)
<1>. DEFINE V == Visits(nodes, bindings)
            C(on, done) == {i \in WiresIn(bindings) : i[1] \in on \cup done}
<1>1. PICK visit : visit = Last(walk.stack)
  OBVIOUS
<1>2. PICK front : front = Front(walk.stack)
  OBVIOUS
<1>3. PICK past : past = [walk EXCEPT !.stack = Front(@)]
  OBVIOUS
<1>4. PICK top : top = Len(walk.stack)
  OBVIOUS
<1>5. /\ walk = [onPath |-> walk.onPath, done |-> walk.done,
                 closing |-> walk.closing, stack |-> walk.stack]
      /\ walk.onPath \subseteq nodes /\ walk.done \subseteq nodes
      /\ walk.onPath \cap walk.done = {}
      /\ walk.closing \subseteq C(walk.onPath, walk.done)
      /\ walk.stack \in Seq(V)
  BY DEF IsWalk, Entered
<1>6. /\ top \in Nat /\ top > 0 /\ visit = walk.stack[top] /\ visit \in V
      /\ front \in Seq(V) /\ Len(front) = top - 1
      /\ \A k \in 1..(top - 1) : front[k] = walk.stack[k]
  <2>. HIDE DEF V
  <2>. QED  BY <1>1, <1>2, <1>4, <1>5, FrontParts
<1>7. past = [onPath |-> walk.onPath, done |-> walk.done,
              closing |-> walk.closing, stack |-> front]
  BY <1>2, <1>3, <1>5
<1>8. TopOf(walk) = visit
  BY Zenon, <1>4, <1>6 DEF TopOf
<1>9. /\ visit.kind \in {"root", "exit", "wire"} /\ visit.node \in nodes
      /\ visit.kind = "wire" => visit.input \in WiresIn(bindings)
  BY <1>6, VisitParts
<1>10. ASSUME NEW x, x.stack = front PROVE Pops(walk, x)
  BY <1>4, <1>6, <1>10 DEF Pops, Places
<1>11. CASE visit.kind = "exit"
  <2>1. next = [past EXCEPT !.onPath = @ \ {visit.node}, !.done = @ \cup {visit.node}]
    BY Zenon, <1>1, <1>3, <1>11 DEF Visit
  <2>2. PICK on : on = walk.onPath \ {visit.node}
    OBVIOUS
  <2>3. PICK done : done = walk.done \cup {visit.node}
    OBVIOUS
  <2>4. next = [onPath |-> on, done |-> done, closing |-> walk.closing, stack |-> front]
    BY <1>7, <2>1, <2>2, <2>3
  <2>5. /\ next.onPath = on /\ next.done = done /\ next.closing = walk.closing
        /\ next.stack = front
    BY <2>4
  <2>6. on \subseteq nodes /\ done \subseteq nodes /\ on \cap done = {}
    BY <1>5, <1>9, <2>2, <2>3
  <2>7. walk.closing \subseteq C(on, done)
    BY <1>5, <2>2, <2>3
  <2>8. IsWalk(next, nodes, bindings)
    BY Zenon, <1>6, <2>4, <2>5, <2>6, <2>7 DEF IsWalk, Entered
  <2>9. LeavesNode(walk, next)
    BY Zenon, <1>8, <1>10, <1>11, <2>2, <2>3, <2>5 DEF LeavesNode
  <2>. QED  BY <2>8, <2>9
<1>12. CASE visit.kind # "exit" /\ visit.node \in walk.done
  <2>1. next = past
    <3>1. visit.node \notin walk.onPath
      BY <1>5, <1>12
    <3>. QED  BY Zenon, <1>1, <1>3, <1>12, <3>1 DEF Visit
  <2>2. /\ next = [onPath |-> walk.onPath, done |-> walk.done,
                   closing |-> walk.closing, stack |-> front]
        /\ next.onPath = walk.onPath /\ next.done = walk.done
        /\ next.closing = walk.closing /\ next.stack = front
    BY <1>7, <2>1
  <2>3. IsWalk(next, nodes, bindings)
    BY Zenon, <1>5, <1>6, <2>2 DEF IsWalk, Entered
  <2>4. PassesBy(walk, next)
    BY Zenon, <1>8, <1>10, <1>12, <2>2 DEF PassesBy
  <2>. QED  BY <2>3, <2>4
<1>13. CASE visit.kind # "exit" /\ visit.node \in walk.onPath
  <2>0. visit.kind = "wire" /\ visit.kind # "root"
    BY <1>8, <1>9, <1>13
  <2>1. next = [past EXCEPT !.closing = @ \cup {visit.input}]
    <3>1. visit.node \notin walk.done
      BY <1>5, <1>13
    <3>. QED  BY Zenon, <1>1, <1>3, <1>13, <2>0, <3>1 DEF Visit
  <2>2. PICK closing : closing = walk.closing \cup {visit.input}
    OBVIOUS
  <2>3. next = [onPath |-> walk.onPath, done |-> walk.done,
                closing |-> closing, stack |-> front]
    BY <1>7, <2>1, <2>2
  <2>4. /\ next.onPath = walk.onPath /\ next.done = walk.done
        /\ next.closing = closing /\ next.stack = front
    BY <2>3
  <2>5. closing \subseteq C(walk.onPath, walk.done)
    BY <1>5, <1>8, <1>9, <2>0, <2>2 DEF Entered
  <2>6. IsWalk(next, nodes, bindings)
    BY Zenon, <1>5, <1>6, <2>3, <2>4, <2>5 DEF IsWalk, Entered
  <2>7. FindsCycle(walk, next)
    BY Zenon, <1>8, <1>10, <1>13, <2>0, <2>2, <2>4 DEF FindsCycle
  <2>. QED  BY <2>6, <2>7
<1>14. CASE visit.kind # "exit" /\ visit.node \notin walk.onPath \cup walk.done
  <2>1. next = Enter(past, bindings, visit.node)
    <3>1. visit.node \notin walk.onPath /\ visit.node \notin walk.done
      BY <1>14
    <3>. QED  BY Zenon, <1>1, <1>3, <1>14, <3>1 DEF Visit
  <2>2. PICK node \in nodes : node = visit.node
    BY <1>9
  <2>3. PICK r \in Nat : r = top - 1
    BY <1>6
  <2>4. /\ past.onPath = walk.onPath /\ past.done = walk.done
        /\ past.closing = walk.closing
        /\ past = [onPath |-> past.onPath, done |-> past.done,
                   closing |-> past.closing, stack |-> front]
    BY <1>7
  <2>5. r = Len(front) /\ next = Enter(past, bindings, node)
    BY Zenon, <1>6, <2>1, <2>2, <2>3
  <2>6. /\ next = [onPath |-> next.onPath, done |-> next.done,
                   closing |-> next.closing, stack |-> next.stack]
        /\ next.onPath = past.onPath \cup {node} /\ next.done = past.done
        /\ next.closing = past.closing
        /\ next.stack \in Seq(V)
        /\ Len(next.stack) = r + 1 + Cardinality(WiresTo(bindings, node))
        /\ \A k \in 1..r : next.stack[k] = front[k]
        /\ Ends(next, r + 1) /\ next.stack[r + 1].node = node
        /\ \A k \in Places(next) : k > r + 1 =>
              /\ Wires(next, k) /\ next.stack[k].input \in WiresTo(bindings, node)
              /\ \A j \in Places(next) :
                    j > r + 1 /\ next.stack[j].input = next.stack[k].input => j = k
        /\ \A i \in WiresTo(bindings, node) :
              \E k \in Places(next) : k > r + 1 /\ next.stack[k].input = i
    <3>1. front \in Seq(Visits(nodes, bindings))
      BY <1>6
    <3>2. IsGraph(nodes, bindings) /\ node \in nodes /\ r \in Nat /\ r = Len(front)
      BY <2>5
    <3>. HIDE DEF V
    <3>3. Pushed(past, next, front, r, nodes, bindings, node)
      BY <2>4, <2>5, <3>1, <3>2, EnterPushes
    <3>. QED  BY Zenon, <3>3 DEF V, Pushed
  <2>7. r + 1 = top
    BY <1>6, <2>3
  <2>8. /\ next.onPath = walk.onPath \cup {node} /\ next.done = walk.done
        /\ next.closing = walk.closing
    BY Zenon, <2>4, <2>6
  <2>9. node \notin walk.onPath /\ node \notin walk.done
    BY <1>14, <2>2
  <2>10. IsWalk(next, nodes, bindings)
    <3>1. /\ next.onPath \subseteq nodes /\ next.done \subseteq nodes
          /\ next.onPath \cap next.done = {}
      BY <1>5, <2>8, <2>9
    <3>2. next.closing \subseteq C(next.onPath, next.done)
      BY <1>5, <2>8
    <3>. QED  BY Zenon, <2>6, <3>1, <3>2 DEF IsWalk, Entered
  <2>11. EntersNode(walk, next, bindings)
    <3>1. \A k \in 1..(top - 1) : next.stack[k] = walk.stack[k]
      BY <1>6, <2>3, <2>6
    <3>2. node \notin Entered(walk)
      BY <2>9 DEF Entered
    <3>3. TopOf(walk).kind # "exit" /\ node = TopOf(walk).node
      BY Zenon, <1>8, <1>14, <2>2
    <3>4. /\ Len(next.stack) = top + Cardinality(WiresTo(bindings, node))
          /\ Ends(next, top) /\ next.stack[top].node = node
      BY Zenon, <2>6, <2>7
    <3>5. /\ \A k \in Places(next) : k > top =>
                /\ Wires(next, k) /\ next.stack[k].input \in WiresTo(bindings, node)
                /\ \A j \in Places(next) :
                      j > top /\ next.stack[j].input = next.stack[k].input => j = k
          /\ \A i \in WiresTo(bindings, node) :
                \E k \in Places(next) : k > top /\ next.stack[k].input = i
      BY Zenon, <2>6, <2>7
    <3>. QED  BY Zenon, <1>4, <2>8, <3>1, <3>2, <3>3, <3>4, <3>5 DEF EntersNode
  <2>. QED  BY <2>10, <2>11
<1>. QED  BY <1>11, <1>12, <1>13, <1>14

-----------------------------------------------------------------------------
\* What holds of the walk between two visits.  Its exits are the nodes on the
\* path, each once, over the roots, and a node not entered waits as a root.
Starts(walk, k) == walk.stack[k].kind = "root"
NodeAt(walk, k) == walk.stack[k].node
PathStands(walk, nodes) ==
    /\ \A j, k \in Places(walk) :
          Ends(walk, j) /\ Ends(walk, k) /\ NodeAt(walk, j) = NodeAt(walk, k) => j = k
    /\ \A n \in walk.onPath : \E k \in Places(walk) : Ends(walk, k) /\ NodeAt(walk, k) = n
    /\ \A k \in Places(walk) : Ends(walk, k) => NodeAt(walk, k) \in walk.onPath
    /\ \A j, k \in Places(walk) : j < k /\ Starts(walk, k) => Starts(walk, j)
    /\ \A n \in nodes \ Entered(walk) :
          \E k \in Places(walk) : Starts(walk, k) /\ NodeAt(walk, k) = n
\* A wire still to visit lies over the exit of its consumer, nothing but wires
\* between, once, and is not closing.
Holder(walk, j, k) ==
    /\ j < k /\ Ends(walk, j) /\ NodeAt(walk, j) = walk.stack[k].input[1]
    /\ \A m \in Places(walk) : j < m /\ m <= k => Wires(walk, m)
WiresHang(walk) ==
    /\ \A k \in Places(walk) : Wires(walk, k) => \E j \in Places(walk) : Holder(walk, j, k)
    /\ \A j, k \in Places(walk) :
          /\ Wires(walk, j) /\ Wires(walk, k)
          /\ walk.stack[j].input = walk.stack[k].input
          => j = k
    /\ \A k \in Places(walk) : Wires(walk, k) => walk.stack[k].input \notin walk.closing
\* Each wire into a node on the path is closing, or its producer done, or over
\* the node's exit still the wire itself or the producer's exit.
WaitsAbove(walk, bindings, i, k) ==
    \E m \in Places(walk) :
        /\ m > k
        /\ \/ Wires(walk, m) /\ walk.stack[m].input = i
           \/ Ends(walk, m) /\ NodeAt(walk, m) = bindings[i][2]
PathCovers(walk, bindings) ==
    \A k \in Places(walk) : \A i \in WiresIn(bindings) :
        Ends(walk, k) /\ NodeAt(walk, k) = i[1] =>
            i \in walk.closing \/ bindings[i][2] \in walk.done
                \/ WaitsAbove(walk, bindings, i, k)
\* The nodes done have ranks, and a wire kept between them goes up in rank.
IsRanked(walk, bindings, rank, m) ==
    /\ \A n \in walk.done : rank[n] < m
    /\ \A i \in WiresIn(bindings) :
          i[1] \in walk.done /\ i \notin walk.closing =>
              bindings[i][2] \in walk.done /\ rank[bindings[i][2]] < rank[i[1]]
DoneIsRanked(walk, nodes, bindings) ==
    \E rank \in [nodes -> Nat], m \in Nat : IsRanked(walk, bindings, rank, m)

\* What a pop leaves where it was.
LEMMA PopParts ==
    ASSUME NEW nodes, NEW bindings, IsGraph(nodes, bindings),
           NEW walk, IsWalk(walk, nodes, bindings), walk.stack # <<>>,
           NEW next, Pops(walk, next),
           NEW top, top = Len(walk.stack)
    PROVE  /\ top \in Nat /\ top > 0 /\ Places(walk) = 1..top
           /\ Places(next) = 1..(top - 1)
           /\ \A k \in 1..(top - 1) :
                 /\ next.stack[k] = walk.stack[k]
                 /\ Ends(next, k) <=> Ends(walk, k)
                 /\ Wires(next, k) <=> Wires(walk, k)
                 /\ Starts(next, k) <=> Starts(walk, k)
                 /\ NodeAt(next, k) = NodeAt(walk, k)
<1>1. walk.stack \in Seq(Visits(nodes, bindings))
  BY DEF IsWalk
<1>2. top \in Nat /\ top > 0
  BY <1>1
<1>3. /\ Len(next.stack) = top - 1 /\ Places(next) = 1..(top - 1)
      /\ Places(walk) = 1..top
  BY DEF Pops, Places
<1>4. \A k \in 1..(top - 1) : next.stack[k] = walk.stack[k]
  BY <1>3 DEF Pops
<1>. QED  BY <1>2, <1>3, <1>4 DEF Ends, Wires, Starts, NodeAt

\* What entering a node leaves where it was, and what it puts over that.
LEMMA EnterParts ==
    ASSUME NEW nodes, NEW bindings, IsGraph(nodes, bindings),
           NEW walk, IsWalk(walk, nodes, bindings), walk.stack # <<>>,
           NEW next, IsWalk(next, nodes, bindings), EntersNode(walk, next, bindings),
           NEW top, top = Len(walk.stack),
           NEW node, node = TopOf(walk).node
    PROVE  /\ top \in Nat /\ top > 0 /\ Places(walk) = 1..top /\ 1..top \subseteq Places(next)
           /\ Places(next) \subseteq Nat \ {0}
           /\ \A k \in Places(next) : k <= top \/ k > top
           /\ \A k \in 1..(top - 1) :
                 /\ next.stack[k] = walk.stack[k]
                 /\ Ends(next, k) <=> Ends(walk, k)
                 /\ Wires(next, k) <=> Wires(walk, k)
                 /\ Starts(next, k) <=> Starts(walk, k)
                 /\ NodeAt(next, k) = NodeAt(walk, k)
           /\ Ends(next, top) /\ NodeAt(next, top) = node /\ ~ Wires(next, top) /\ ~ Starts(next, top)
           /\ \A k \in Places(next) : k > top =>
                 /\ Wires(next, k) /\ ~ Ends(next, k) /\ ~ Starts(next, k)
                 /\ next.stack[k].input \in WiresIn(bindings)
                 /\ next.stack[k].input[1] = node
                 /\ \A j \in Places(next) :
                       j > top /\ next.stack[j].input = next.stack[k].input => j = k
           /\ \A i \in WiresIn(bindings) :
                 i[1] = node => \E k \in Places(next) : k > top /\ next.stack[k].input = i
           /\ node \notin walk.onPath /\ node \notin walk.done /\ ~ Ends(walk, top)
           /\ next.onPath = walk.onPath \cup {node} /\ next.done = walk.done
           /\ next.closing = walk.closing
           /\ node \in nodes /\ NodeAt(walk, top) = node
<1>1. /\ walk.stack \in Seq(Visits(nodes, bindings))
      /\ next.stack \in Seq(Visits(nodes, bindings))
  BY DEF IsWalk
<1>2. top \in Nat /\ top > 0 /\ Len(next.stack) \in Nat
  BY <1>1
<1>3. Cardinality(WiresTo(bindings, node)) \in Nat
  <2>1. WiresTo(bindings, node) \subseteq DOMAIN bindings
    BY DEF WiresTo, WiresIn
  <2>. QED  BY <2>1, FS_Subset, FS_CardinalityType DEF IsGraph
<1>4. /\ Len(next.stack) = top + Cardinality(WiresTo(bindings, node))
      /\ \A k \in 1..(top - 1) : next.stack[k] = walk.stack[k]
      /\ Ends(next, top) /\ NodeAt(next, top) = node
  BY DEF EntersNode, NodeAt
<1>5. /\ Places(walk) = 1..top /\ 1..top \subseteq Places(next)
      /\ Places(next) \subseteq Nat \ {0}
      /\ \A k \in Places(next) : k <= top \/ k > top
  BY <1>2, <1>3, <1>4 DEF Places
<1>6. \A k \in 1..(top - 1) :
          /\ next.stack[k] = walk.stack[k]
          /\ Ends(next, k) <=> Ends(walk, k)
          /\ Wires(next, k) <=> Wires(walk, k)
          /\ Starts(next, k) <=> Starts(walk, k)
          /\ NodeAt(next, k) = NodeAt(walk, k)
  BY <1>4 DEF Ends, Wires, Starts, NodeAt
<1>7. ~ Wires(next, top) /\ ~ Starts(next, top)
  BY <1>4 DEF Ends, Wires, Starts
<1>8. \A k \in Places(next) : k > top =>
          /\ Wires(next, k) /\ next.stack[k].input \in WiresTo(bindings, node)
          /\ \A j \in Places(next) :
                j > top /\ next.stack[j].input = next.stack[k].input => j = k
  BY DEF EntersNode
<1>9. \A k \in Places(next) : k > top =>
          /\ ~ Ends(next, k) /\ ~ Starts(next, k)
          /\ next.stack[k].input \in WiresIn(bindings)
          /\ next.stack[k].input[1] = node
  BY <1>8 DEF Ends, Wires, Starts, WiresTo
<1>10. \A i \in WiresIn(bindings) :
           i[1] = node => \E k \in Places(next) : k > top /\ next.stack[k].input = i
  BY DEF EntersNode, WiresTo
<1>11. /\ node \notin walk.onPath /\ node \notin walk.done /\ ~ Ends(walk, top)
       /\ next.onPath = walk.onPath \cup {node} /\ next.done = walk.done
       /\ next.closing = walk.closing /\ NodeAt(walk, top) = node
  BY DEF EntersNode, Entered, Ends, NodeAt, TopOf
<1>12. node \in nodes
  BY <1>2, <1>5, StackParts DEF TopOf
<1>. QED  BY Zenon, <1>2, <1>4, <1>5, <1>6, <1>7, <1>8, <1>9, <1>10, <1>11, <1>12

\* Every visit keeps the path standing on the stack.
LEMMA PathStandsOn ==
    ASSUME NEW nodes, NEW bindings, IsGraph(nodes, bindings),
           NEW walk, IsWalk(walk, nodes, bindings), walk.stack # <<>>,
           NEW next, IsWalk(next, nodes, bindings),
           PassesBy(walk, next) \/ LeavesNode(walk, next)
               \/ FindsCycle(walk, next) \/ EntersNode(walk, next, bindings),
           PathStands(walk, nodes)
    PROVE  PathStands(next, nodes)
<1>1. PICK top : top = Len(walk.stack)
  OBVIOUS
<1>2. PICK node : node = TopOf(walk).node
  OBVIOUS
<1>3. /\ \A j, k \in Places(walk) :
            Ends(walk, j) /\ Ends(walk, k) /\ NodeAt(walk, j) = NodeAt(walk, k) => j = k
      /\ \A n \in walk.onPath : \E k \in Places(walk) : Ends(walk, k) /\ NodeAt(walk, k) = n
      /\ \A k \in Places(walk) : Ends(walk, k) => NodeAt(walk, k) \in walk.onPath
      /\ \A j, k \in Places(walk) : j < k /\ Starts(walk, k) => Starts(walk, j)
      /\ \A n \in nodes \ Entered(walk) :
            \E k \in Places(walk) : Starts(walk, k) /\ NodeAt(walk, k) = n
  BY DEF PathStands
<1>4. ASSUME Pops(walk, next), next.onPath = walk.onPath, ~ Ends(walk, top),
             \A n \in nodes \ Entered(next) :
                 n \notin Entered(walk) /\ (Starts(walk, top) => n # node)
      PROVE  PathStands(next, nodes)
  <2>1. /\ top \in Nat /\ top > 0 /\ Places(walk) = 1..top
        /\ Places(next) = 1..(top - 1)
        /\ \A k \in 1..(top - 1) :
              /\ Ends(next, k) <=> Ends(walk, k)
              /\ Starts(next, k) <=> Starts(walk, k)
              /\ NodeAt(next, k) = NodeAt(walk, k)
    BY <1>1, <1>4, PopParts
  <2>2. NodeAt(walk, top) = node
    BY <1>1, <1>2 DEF NodeAt, TopOf
  <2>3. \A j, k \in Places(next) :
            Ends(next, j) /\ Ends(next, k) /\ NodeAt(next, j) = NodeAt(next, k) => j = k
    BY <1>3, <2>1
  <2>4. \A n \in next.onPath : \E k \in Places(next) : Ends(next, k) /\ NodeAt(next, k) = n
    <3>1. SUFFICES ASSUME NEW n \in walk.onPath
                   PROVE  \E k \in Places(next) : Ends(next, k) /\ NodeAt(next, k) = n
      BY <1>4
    <3>2. PICK k \in 1..top : Ends(walk, k) /\ NodeAt(walk, k) = n
      BY <1>3, <2>1
    <3>3. k \in 1..(top - 1)
      BY <1>4, <2>1, <3>2
    <3>. QED  BY <2>1, <3>2, <3>3
  <2>5. \A k \in Places(next) : Ends(next, k) => NodeAt(next, k) \in next.onPath
    BY <1>3, <1>4, <2>1
  <2>6. \A j, k \in Places(next) : j < k /\ Starts(next, k) => Starts(next, j)
    BY <1>3, <2>1
  <2>7. ASSUME NEW n \in nodes \ Entered(next)
        PROVE  \E k \in Places(next) : Starts(next, k) /\ NodeAt(next, k) = n
    <3>1. PICK k \in 1..top : Starts(walk, k) /\ NodeAt(walk, k) = n
      BY <1>3, <1>4, <2>1, <2>7
    <3>2. k \in 1..(top - 1)
      BY <1>4, <2>1, <2>2, <2>7, <3>1
    <3>. QED  BY <2>1, <3>1, <3>2
  <2>. QED  BY <2>3, <2>4, <2>5, <2>6, <2>7 DEF PathStands
<1>5. CASE PassesBy(walk, next)
  <2>1. /\ Pops(walk, next) /\ next.onPath = walk.onPath /\ next.done = walk.done
        /\ ~ Ends(walk, top) /\ node \in walk.done
    BY <1>1, <1>2, <1>5 DEF PassesBy, Ends, TopOf
  <2>. QED  BY <1>4, <2>1 DEF Entered
<1>6. CASE FindsCycle(walk, next)
  <2>1. /\ Pops(walk, next) /\ next.onPath = walk.onPath /\ next.done = walk.done
        /\ ~ Ends(walk, top) /\ node \in walk.onPath
    BY <1>1, <1>2, <1>6 DEF FindsCycle, Ends, TopOf
  <2>. QED  BY <1>4, <2>1 DEF Entered
<1>7. CASE LeavesNode(walk, next)
  <2>0. /\ Pops(walk, next) /\ next.onPath = walk.onPath \ {node}
        /\ next.done = walk.done \cup {node}
        /\ Ends(walk, top) /\ ~ Starts(walk, top) /\ NodeAt(walk, top) = node
    BY <1>1, <1>2, <1>7 DEF LeavesNode, Ends, Starts, TopOf, NodeAt
  <2>1. /\ top \in Nat /\ top > 0 /\ Places(walk) = 1..top
        /\ Places(next) = 1..(top - 1)
        /\ \A k \in 1..(top - 1) :
              /\ Ends(next, k) <=> Ends(walk, k)
              /\ Starts(next, k) <=> Starts(walk, k)
              /\ NodeAt(next, k) = NodeAt(walk, k)
    BY <1>1, <2>0, PopParts
  <2>3. \A j, k \in Places(next) :
            Ends(next, j) /\ Ends(next, k) /\ NodeAt(next, j) = NodeAt(next, k) => j = k
    BY <1>3, <2>1
  <2>4. \A n \in next.onPath : \E k \in Places(next) : Ends(next, k) /\ NodeAt(next, k) = n
    <3>1. SUFFICES ASSUME NEW n \in walk.onPath, n # node
                   PROVE  \E k \in Places(next) : Ends(next, k) /\ NodeAt(next, k) = n
      BY <2>0
    <3>2. PICK k \in 1..top : Ends(walk, k) /\ NodeAt(walk, k) = n
      BY <1>3, <2>1
    <3>3. k \in 1..(top - 1)
      BY <2>0, <2>1, <3>1, <3>2
    <3>. QED  BY <2>1, <3>2, <3>3
  <2>5. ASSUME NEW k \in Places(next), Ends(next, k) PROVE NodeAt(next, k) \in next.onPath
    <3>1. k \in 1..top /\ top \in 1..top /\ k # top
      BY <2>1
    <3>2. Ends(walk, k) /\ NodeAt(walk, k) \in walk.onPath /\ NodeAt(next, k) = NodeAt(walk, k)
      BY <1>3, <2>1, <2>5
    <3>3. NodeAt(walk, k) # node
      BY <1>3, <2>0, <2>1, <3>1, <3>2
    <3>. QED  BY <2>0, <3>2, <3>3
  <2>6. \A j, k \in Places(next) : j < k /\ Starts(next, k) => Starts(next, j)
    BY <1>3, <2>1
  <2>7. ASSUME NEW n \in nodes \ Entered(next)
        PROVE  \E k \in Places(next) : Starts(next, k) /\ NodeAt(next, k) = n
    <3>0. n \notin Entered(walk)
      BY <2>0, <2>7 DEF Entered
    <3>1. PICK k \in 1..top : Starts(walk, k) /\ NodeAt(walk, k) = n
      BY <1>3, <2>1, <3>0
    <3>2. k \in 1..(top - 1)
      BY <2>0, <2>1, <3>1
    <3>. QED  BY <2>1, <3>1, <3>2
  <2>. QED  BY <2>3, <2>4, <2>5, <2>6, <2>7 DEF PathStands
<1>8. CASE EntersNode(walk, next, bindings)
  <2>1. /\ top \in Nat /\ top > 0 /\ Places(walk) = 1..top /\ 1..top \subseteq Places(next)
        /\ Places(next) \subseteq Nat \ {0}
        /\ \A k \in 1..(top - 1) :
              /\ Ends(next, k) <=> Ends(walk, k)
              /\ Starts(next, k) <=> Starts(walk, k)
              /\ NodeAt(next, k) = NodeAt(walk, k)
        /\ Ends(next, top) /\ NodeAt(next, top) = node /\ ~ Starts(next, top)
        /\ \A k \in Places(next) : k > top => ~ Ends(next, k) /\ ~ Starts(next, k)
        /\ node \notin walk.onPath /\ ~ Ends(walk, top)
        /\ next.onPath = walk.onPath \cup {node} /\ next.done = walk.done
        /\ NodeAt(walk, top) = node
    BY <1>1, <1>2, <1>8, EnterParts
  <2>2. \A k \in Places(next) : k \in 1..(top - 1) \/ k = top \/ k > top
    BY <2>1
  <2>3. ASSUME NEW j \in Places(next), NEW k \in Places(next),
               Ends(next, j), Ends(next, k), NodeAt(next, j) = NodeAt(next, k)
        PROVE  j = k
    <3>1. ASSUME NEW l \in 1..(top - 1), Ends(next, l) PROVE NodeAt(next, l) # node
      <4>1. l \in 1..top
        BY <2>1
      <4>2. Ends(walk, l) /\ NodeAt(walk, l) = NodeAt(next, l) /\ NodeAt(walk, l) \in walk.onPath
        BY <1>3, <2>1, <3>1, <4>1
      <4>. QED  BY <2>1, <4>2
    <3>2. CASE j \in 1..(top - 1) /\ k \in 1..(top - 1)
      <4>1. j \in 1..top /\ k \in 1..top
        BY <2>1, <3>2
      <4>. QED  BY <1>3, <2>1, <2>3, <3>2, <4>1
    <3>. QED  BY <2>1, <2>2, <2>3, <3>1, <3>2
  <2>4. \A n \in next.onPath : \E k \in Places(next) : Ends(next, k) /\ NodeAt(next, k) = n
    <3>1. ASSUME NEW n \in walk.onPath
          PROVE  \E k \in Places(next) : Ends(next, k) /\ NodeAt(next, k) = n
      <4>1. PICK k \in 1..top : Ends(walk, k) /\ NodeAt(walk, k) = n
        BY <1>3, <2>1
      <4>2. k \in 1..(top - 1)
        BY <2>1, <4>1
      <4>. QED  BY <2>1, <4>1, <4>2
    <3>. QED  BY <2>1, <3>1
  <2>5. ASSUME NEW k \in Places(next), Ends(next, k) PROVE NodeAt(next, k) \in next.onPath
    <3>1. CASE k \in 1..(top - 1)
      <4>1. k \in 1..top
        BY <2>1, <3>1
      <4>. QED  BY <1>3, <2>1, <2>5, <3>1, <4>1
    <3>. QED  BY <2>1, <2>2, <2>5, <3>1
  <2>6. ASSUME NEW j \in Places(next), NEW k \in Places(next), j < k, Starts(next, k)
        PROVE  Starts(next, j)
    <3>1. k \in 1..(top - 1)
      BY <2>1, <2>2, <2>6
    <3>2. j \in 1..(top - 1) /\ j \in 1..top /\ k \in 1..top
      BY <2>1, <2>6, <3>1
    <3>. QED  BY <1>3, <2>1, <2>6, <3>1, <3>2
  <2>7. ASSUME NEW n \in nodes \ Entered(next)
        PROVE  \E k \in Places(next) : Starts(next, k) /\ NodeAt(next, k) = n
    <3>0. n \notin Entered(walk) /\ n # node
      BY <2>1, <2>7 DEF Entered
    <3>1. PICK k \in 1..top : Starts(walk, k) /\ NodeAt(walk, k) = n
      BY <1>3, <2>1, <3>0
    <3>2. k \in 1..(top - 1)
      BY <2>1, <3>0, <3>1
    <3>. QED  BY <2>1, <3>1, <3>2
  <2>. QED  BY <2>3, <2>4, <2>5, <2>6, <2>7 DEF PathStands
<1>. QED  BY <1>5, <1>6, <1>7, <1>8

\* Every visit keeps the wires still to visit over the exits of their consumers.
LEMMA WiresHangOn ==
    ASSUME NEW nodes, NEW bindings, IsGraph(nodes, bindings),
           NEW walk, IsWalk(walk, nodes, bindings), walk.stack # <<>>,
           NEW next, IsWalk(next, nodes, bindings),
           PassesBy(walk, next) \/ LeavesNode(walk, next)
               \/ FindsCycle(walk, next) \/ EntersNode(walk, next, bindings),
           PathStands(walk, nodes), WiresHang(walk)
    PROVE  WiresHang(next)
<1>1. PICK top : top = Len(walk.stack)
  OBVIOUS
<1>2. PICK node : node = TopOf(walk).node
  OBVIOUS
<1>3. /\ \A k \in Places(walk) : Wires(walk, k) => \E j \in Places(walk) : Holder(walk, j, k)
      /\ \A j, k \in Places(walk) :
            /\ Wires(walk, j) /\ Wires(walk, k)
            /\ walk.stack[j].input = walk.stack[k].input
            => j = k
      /\ \A k \in Places(walk) : Wires(walk, k) => walk.stack[k].input \notin walk.closing
  BY DEF WiresHang
<1>4. ASSUME Pops(walk, next),
             \/ next.closing = walk.closing
             \/ /\ next.closing = walk.closing \cup {TopOf(walk).input}
                /\ Wires(walk, top)
      PROVE  WiresHang(next)
  <2>1. /\ top \in Nat /\ top > 0 /\ Places(walk) = 1..top
        /\ Places(next) = 1..(top - 1)
        /\ \A k \in 1..(top - 1) :
              /\ next.stack[k] = walk.stack[k]
              /\ Ends(next, k) <=> Ends(walk, k)
              /\ Wires(next, k) <=> Wires(walk, k)
              /\ NodeAt(next, k) = NodeAt(walk, k)
    BY <1>1, <1>4, PopParts
  <2>2. \A k \in 1..(top - 1) : k \in 1..top /\ k # top
    BY <2>1
  <2>3. ASSUME NEW k \in Places(next), Wires(next, k)
        PROVE  \E j \in Places(next) : Holder(next, j, k)
    <3>1. PICK j \in 1..top : Holder(walk, j, k)
      BY <1>3, <2>1, <2>2, <2>3
    <3>2. /\ j < k /\ Ends(walk, j) /\ NodeAt(walk, j) = walk.stack[k].input[1]
          /\ \A m \in 1..top : j < m /\ m <= k => Wires(walk, m)
      BY <2>1, <3>1 DEF Holder
    <3>3. j \in 1..(top - 1)
      BY <2>1, <2>3, <3>2
    <3>4. /\ Ends(next, j) /\ NodeAt(next, j) = next.stack[k].input[1]
          /\ \A m \in 1..(top - 1) : j < m /\ m <= k => Wires(next, m)
      BY <2>1, <2>2, <2>3, <3>2, <3>3
    <3>. QED  BY <2>1, <3>2, <3>3, <3>4 DEF Holder
  <2>4. \A j, k \in Places(next) :
            /\ Wires(next, j) /\ Wires(next, k)
            /\ next.stack[j].input = next.stack[k].input
            => j = k
    BY <1>3, <2>1, <2>2
  <2>5. ASSUME NEW k \in Places(next), Wires(next, k)
        PROVE  next.stack[k].input \notin next.closing
    <3>1. /\ k \in 1..top /\ k # top /\ top \in 1..top
          /\ Wires(walk, k) /\ next.stack[k].input = walk.stack[k].input
      BY <2>1, <2>2, <2>5
    <3>2. walk.stack[k].input \notin walk.closing
      BY <1>3, <2>1, <3>1
    <3>3. Wires(walk, top) => walk.stack[k].input # TopOf(walk).input
      BY <1>1, <1>3, <2>1, <3>1 DEF TopOf
    <3>. QED  BY <1>4, <3>1, <3>2, <3>3
  <2>. QED  BY <2>3, <2>4, <2>5 DEF WiresHang
<1>5. CASE PassesBy(walk, next) \/ LeavesNode(walk, next)
  BY <1>4, <1>5 DEF PassesBy, LeavesNode
<1>6. CASE FindsCycle(walk, next)
  BY <1>1, <1>4, <1>6 DEF FindsCycle, Wires, TopOf
<1>7. CASE EntersNode(walk, next, bindings)
  <2>1. /\ top \in Nat /\ top > 0 /\ Places(walk) = 1..top /\ 1..top \subseteq Places(next)
        /\ Places(next) \subseteq Nat \ {0}
        /\ \A k \in 1..(top - 1) :
              /\ next.stack[k] = walk.stack[k]
              /\ Ends(next, k) <=> Ends(walk, k)
              /\ Wires(next, k) <=> Wires(walk, k)
              /\ NodeAt(next, k) = NodeAt(walk, k)
        /\ Ends(next, top) /\ NodeAt(next, top) = node /\ ~ Wires(next, top)
        /\ \A k \in Places(next) : k > top =>
              /\ Wires(next, k)
              /\ next.stack[k].input \in WiresIn(bindings)
              /\ next.stack[k].input[1] = node
              /\ \A j \in Places(next) :
                    j > top /\ next.stack[j].input = next.stack[k].input => j = k
        /\ node \notin walk.onPath /\ node \notin walk.done
        /\ next.closing = walk.closing
    BY <1>1, <1>2, <1>7, EnterParts
  <2>2. \A k \in Places(next) : k \in 1..(top - 1) \/ k = top \/ k > top
    BY <2>1
  <2>3. \A k \in 1..(top - 1) : k \in 1..top /\ k # top
    BY <2>1
  <2>4. ASSUME NEW k \in 1..(top - 1), Wires(next, k)
        PROVE  \E j \in 1..(top - 1) : Holder(next, j, k) /\ NodeAt(next, j) # node
    <3>1. PICK j \in 1..top : Holder(walk, j, k)
      BY <1>3, <2>1, <2>3, <2>4
    <3>2. /\ j < k /\ Ends(walk, j) /\ NodeAt(walk, j) = walk.stack[k].input[1]
          /\ \A m \in 1..top : j < m /\ m <= k => Wires(walk, m)
      BY <2>1, <3>1 DEF Holder
    <3>3. j \in 1..(top - 1)
      BY <2>1, <2>4, <3>2
    <3>4. NodeAt(walk, j) \in walk.onPath
      BY <2>1, <3>2 DEF PathStands
    <3>5. \A m \in Places(next) : j < m /\ m <= k => m \in 1..(top - 1)
      BY <2>1, <2>4, <3>2
    <3>6. /\ Ends(next, j) /\ NodeAt(next, j) = next.stack[k].input[1]
          /\ \A m \in Places(next) : j < m /\ m <= k => Wires(next, m)
      BY <2>1, <2>3, <2>4, <3>2, <3>3, <3>5
    <3>. QED  BY <2>1, <3>2, <3>3, <3>4, <3>6 DEF Holder
  <2>5. ASSUME NEW k \in Places(next), k > top PROVE Holder(next, top, k)
    <3>1. \A m \in Places(next) : top < m => Wires(next, m)
      BY <2>1
    <3>. QED  BY <2>1, <2>5, <3>1 DEF Holder
  <2>6. ASSUME NEW k \in Places(next), Wires(next, k)
        PROVE  \E j \in Places(next) : Holder(next, j, k)
    <3>1. CASE k \in 1..(top - 1)
      BY <2>1, <2>3, <2>4, <2>6, <3>1
    <3>2. CASE k > top
      <4>1. top \in Places(next)
        BY <2>1
      <4>. QED  BY <2>5, <3>2, <4>1
    <3>. QED  BY <2>1, <2>2, <2>6, <3>1, <3>2
  <2>7. ASSUME NEW j \in 1..(top - 1), Wires(next, j) PROVE next.stack[j].input[1] # node
    BY <2>4, <2>7 DEF Holder
  <2>8. ASSUME NEW j \in Places(next), NEW k \in Places(next), Wires(next, j), Wires(next, k),
               next.stack[j].input = next.stack[k].input
        PROVE  j = k
    <3>1. CASE j \in 1..(top - 1) /\ k \in 1..(top - 1)
      BY <1>3, <2>1, <2>3, <2>8, <3>1
    <3>2. CASE j > top /\ k > top
      BY <2>1, <2>8, <3>2
    <3>. QED  BY <2>1, <2>2, <2>7, <2>8, <3>1, <3>2
  <2>9. ASSUME NEW k \in Places(next), Wires(next, k)
        PROVE  next.stack[k].input \notin next.closing
    <3>1. CASE k \in 1..(top - 1)
      BY <1>3, <2>1, <2>3, <2>9, <3>1
    <3>2. CASE k > top
      <4>1. next.stack[k].input[1] \notin Entered(walk)
        BY <2>1, <3>2 DEF Entered
      <4>. QED  BY <2>1, <4>1 DEF IsWalk
    <3>. QED  BY <2>1, <2>2, <2>9, <3>1, <3>2
  <2>. QED  BY <2>6, <2>8, <2>9 DEF WiresHang
<1>. QED  BY <1>5, <1>6, <1>7

\* Every visit leaves each wire into a node on the path covered.
LEMMA PathCoversOn ==
    ASSUME NEW nodes, NEW bindings, IsGraph(nodes, bindings),
           NEW walk, IsWalk(walk, nodes, bindings), walk.stack # <<>>,
           NEW next, IsWalk(next, nodes, bindings),
           PassesBy(walk, next) \/ LeavesNode(walk, next)
               \/ FindsCycle(walk, next) \/ EntersNode(walk, next, bindings),
           PathStands(walk, nodes), PathCovers(walk, bindings)
    PROVE  PathCovers(next, bindings)
<1>1. PICK top : top = Len(walk.stack)
  OBVIOUS
<1>2. PICK node : node = TopOf(walk).node
  OBVIOUS
<1>3. /\ Wires(walk, top) => /\ TopOf(walk) = walk.stack[top]
                             /\ walk.stack[top].input \in WiresIn(bindings)
                             /\ node = bindings[walk.stack[top].input][2]
      /\ NodeAt(walk, top) = node
  <2>1. top \in Places(walk)
    <3>1. walk.stack \in Seq(Visits(nodes, bindings))
      BY DEF IsWalk
    <3>. QED  BY <1>1, <3>1 DEF Places
  <2>. QED  BY <1>1, <1>2, <2>1, StackParts DEF TopOf, NodeAt
<1>4. ASSUME Pops(walk, next), walk.closing \subseteq next.closing,
             walk.done \subseteq next.done,
             Ends(walk, top) => node \in next.done,
             Wires(walk, top) => node \in next.done \/ walk.stack[top].input \in next.closing
      PROVE  PathCovers(next, bindings)
  <2>1. /\ top \in Nat /\ top > 0 /\ Places(walk) = 1..top
        /\ Places(next) = 1..(top - 1)
        /\ \A k \in 1..(top - 1) :
              /\ next.stack[k] = walk.stack[k]
              /\ Ends(next, k) <=> Ends(walk, k)
              /\ Wires(next, k) <=> Wires(walk, k)
              /\ NodeAt(next, k) = NodeAt(walk, k)
    BY <1>1, <1>4, PopParts
  <2>2. \A k \in 1..(top - 1) : k \in 1..top /\ k # top
    BY <2>1
  <2>3. SUFFICES ASSUME NEW k \in 1..(top - 1), NEW i \in WiresIn(bindings),
                        Ends(next, k), NodeAt(next, k) = i[1],
                        i \notin next.closing, bindings[i][2] \notin next.done
                 PROVE  WaitsAbove(next, bindings, i, k)
    BY <2>1 DEF PathCovers
  <2>4. WaitsAbove(walk, bindings, i, k)
    BY <1>4, <2>1, <2>2, <2>3 DEF PathCovers
  <2>5. PICK m \in 1..top :
            /\ m > k
            /\ \/ Wires(walk, m) /\ walk.stack[m].input = i
               \/ Ends(walk, m) /\ NodeAt(walk, m) = bindings[i][2]
    BY <2>1, <2>4 DEF WaitsAbove
  <2>6. m # top
    BY <1>3, <1>4, <2>3, <2>5
  <2>7. m \in 1..(top - 1)
    BY <2>1, <2>6
  <2>. QED  BY <2>1, <2>5, <2>7 DEF WaitsAbove
<1>5. CASE PassesBy(walk, next)
  BY <1>1, <1>2, <1>4, <1>5 DEF PassesBy, Ends, TopOf
<1>6. CASE LeavesNode(walk, next)
  BY <1>1, <1>2, <1>4, <1>6 DEF LeavesNode, Wires, TopOf
<1>7. CASE FindsCycle(walk, next)
  BY <1>1, <1>2, <1>4, <1>7 DEF FindsCycle, Ends, TopOf
<1>8. CASE EntersNode(walk, next, bindings)
  <2>1. /\ top \in Nat /\ top > 0 /\ Places(walk) = 1..top /\ 1..top \subseteq Places(next)
        /\ Places(next) \subseteq Nat \ {0}
        /\ \A k \in 1..(top - 1) :
              /\ next.stack[k] = walk.stack[k]
              /\ Ends(next, k) <=> Ends(walk, k)
              /\ Wires(next, k) <=> Wires(walk, k)
              /\ NodeAt(next, k) = NodeAt(walk, k)
        /\ Ends(next, top) /\ NodeAt(next, top) = node
        /\ \A k \in Places(next) : k > top => Wires(next, k) /\ ~ Ends(next, k)
        /\ \A i \in WiresIn(bindings) :
              i[1] = node => \E k \in Places(next) : k > top /\ next.stack[k].input = i
        /\ ~ Ends(walk, top)
        /\ next.done = walk.done /\ next.closing = walk.closing
    BY <1>1, <1>2, <1>8, EnterParts
  <2>2. \A k \in Places(next) : k \in 1..(top - 1) \/ k = top \/ k > top
    BY <2>1
  <2>3. \A k \in 1..(top - 1) : k \in 1..top /\ k # top
    BY <2>1
  <2>4. SUFFICES ASSUME NEW k \in Places(next), NEW i \in WiresIn(bindings),
                        Ends(next, k), NodeAt(next, k) = i[1],
                        i \notin next.closing, bindings[i][2] \notin next.done
                 PROVE  WaitsAbove(next, bindings, i, k)
    BY DEF PathCovers
  <2>5. CASE k \in 1..(top - 1)
    <3>1. WaitsAbove(walk, bindings, i, k)
      BY <2>1, <2>3, <2>4, <2>5 DEF PathCovers
    <3>2. PICK m \in 1..top :
              /\ m > k
              /\ \/ Wires(walk, m) /\ walk.stack[m].input = i
                 \/ Ends(walk, m) /\ NodeAt(walk, m) = bindings[i][2]
      BY <2>1, <3>1 DEF WaitsAbove
    <3>3. CASE m = top
      <4>1. node = bindings[i][2] /\ top \in Places(next) /\ top > k
        BY <1>3, <2>1, <3>2, <3>3
      <4>. QED  BY <2>1, <4>1 DEF WaitsAbove
    <3>4. CASE m # top
      <4>1. m \in 1..(top - 1) /\ m \in Places(next)
        BY <2>1, <3>4
      <4>. QED  BY <2>1, <3>2, <4>1 DEF WaitsAbove
    <3>. QED  BY <3>3, <3>4
  <2>6. CASE k = top
    <3>1. PICK m \in Places(next) : m > top /\ next.stack[m].input = i
      BY <2>1, <2>4, <2>6
    <3>. QED  BY <2>1, <2>6, <3>1 DEF WaitsAbove
  <2>. QED  BY <2>1, <2>2, <2>4, <2>5, <2>6
<1>. QED  BY <1>5, <1>6, <1>7, <1>8

\* Every visit keeps the nodes done ranked: a node leaves the path over
\* nothing, so each wire into it is closing or comes from a node done.
LEMMA DoneIsRankedOn ==
    ASSUME NEW nodes, NEW bindings, IsGraph(nodes, bindings),
           NEW walk, IsWalk(walk, nodes, bindings), walk.stack # <<>>,
           NEW next, IsWalk(next, nodes, bindings),
           PassesBy(walk, next) \/ LeavesNode(walk, next)
               \/ FindsCycle(walk, next) \/ EntersNode(walk, next, bindings),
           PathCovers(walk, bindings), PathStands(walk, nodes), DoneIsRanked(walk, nodes, bindings)
    PROVE  DoneIsRanked(next, nodes, bindings)
<1>1. PICK rank \in [nodes -> Nat], m \in Nat : IsRanked(walk, bindings, rank, m)
  BY DEF DoneIsRanked
<1>2. /\ \A n \in walk.done : rank[n] < m
      /\ \A i \in WiresIn(bindings) :
            i[1] \in walk.done /\ i \notin walk.closing =>
                bindings[i][2] \in walk.done /\ rank[bindings[i][2]] < rank[i[1]]
  BY <1>1 DEF IsRanked
<1>3. CASE next.done = walk.done /\ walk.closing \subseteq next.closing
  <2>1. IsRanked(next, bindings, rank, m)
    BY <1>2, <1>3 DEF IsRanked
  <2>. QED  BY <2>1 DEF DoneIsRanked
<1>4. CASE LeavesNode(walk, next)
  <2>1. PICK top : top = Len(walk.stack)
    OBVIOUS
  <2>2. PICK node : node = TopOf(walk).node
    OBVIOUS
  <2>3. /\ next.done = walk.done \cup {node} /\ next.closing = walk.closing
        /\ Ends(walk, top) /\ NodeAt(walk, top) = node
    BY <2>1, <2>2, <1>4 DEF LeavesNode, Ends, NodeAt, TopOf
  <2>4. top \in Nat /\ top > 0 /\ Places(walk) = 1..top /\ top \in 1..top
    <3>1. walk.stack \in Seq(Visits(nodes, bindings))
      BY DEF IsWalk
    <3>. QED  BY <2>1, <3>1 DEF Places
  <2>5. node \in nodes /\ node \notin walk.done /\ walk.done \subseteq nodes
    <3>1. node \in walk.onPath
      BY <2>3, <2>4 DEF PathStands
    <3>. QED  BY <3>1 DEF IsWalk
  <2>6. ASSUME NEW i \in WiresIn(bindings), i[1] = node, i \notin walk.closing
        PROVE  bindings[i][2] \in walk.done
    <3>1. ~ WaitsAbove(walk, bindings, i, top)
      BY <2>4 DEF WaitsAbove
    <3>. QED  BY <2>3, <2>4, <2>6, <3>1 DEF PathCovers
  <2>7. PICK higher : higher = [n \in nodes |-> IF n = node THEN m ELSE rank[n]]
    OBVIOUS
  <2>8. /\ higher \in [nodes -> Nat] /\ higher[node] = m
        /\ \A n \in walk.done : higher[n] = rank[n] /\ rank[n] \in Nat
    BY <2>5, <2>7
  <2>9. \A n \in next.done : higher[n] < m + 1
    BY <1>2, <2>3, <2>8
  <2>10. ASSUME NEW i \in WiresIn(bindings), i[1] \in next.done, i \notin next.closing
         PROVE  bindings[i][2] \in next.done /\ higher[bindings[i][2]] < higher[i[1]]
    <3>1. CASE i[1] = node
      BY <1>2, <2>3, <2>6, <2>8, <2>10, <3>1
    <3>2. CASE i[1] \in walk.done
      BY <1>2, <2>3, <2>8, <2>10, <3>2
    <3>. QED  BY <2>3, <2>10, <3>1, <3>2
  <2>11. IsRanked(next, bindings, higher, m + 1)
    BY <2>9, <2>10 DEF IsRanked
  <2>. QED  BY <2>8, <2>11 DEF DoneIsRanked
<1>. QED  BY <1>3, <1>4 DEF PassesBy, FindsCycle, EntersNode

-----------------------------------------------------------------------------
\* A wire the walk has followed for good leads from its consumer to its
\* producer: every set that holds the one and is closed under such wires holds
\* the other.
Reaches(wires, bindings, nodes, from, to) ==
    \A X \in SUBSET nodes :
        from \in X /\ (\A i \in wires : i[1] \in X => bindings[i][2] \in X) => to \in X
Settled(walk, bindings) ==
    {i \in WiresIn(bindings) :
        /\ i[1] \in Entered(walk) /\ i \notin walk.closing
        /\ \A k \in Places(walk) : Wires(walk, k) => walk.stack[k].input # i}
\* The path leads from each of its nodes to those entered after it, and a wire
\* that is closing has its producer lead to its consumer.
PathLeads(walk, nodes, bindings) ==
    /\ \A j, k \in Places(walk) :
          j < k /\ Ends(walk, j) /\ Ends(walk, k) =>
              Reaches(Settled(walk, bindings), bindings, nodes, NodeAt(walk, j), NodeAt(walk, k))
    /\ \A i \in walk.closing :
          Reaches(Settled(walk, bindings), bindings, nodes, bindings[i][2], i[1])

\* What leads, through one more wire or with more wires, leads on.
LEMMA ReachesOn ==
    ASSUME NEW nodes, NEW bindings, NEW wires, NEW more, wires \subseteq more
    PROVE  /\ \A x : Reaches(more, bindings, nodes, x, x)
           /\ \A x, y : Reaches(wires, bindings, nodes, x, y) => Reaches(more, bindings, nodes, x, y)
           /\ \A x, i : i \in more /\ Reaches(more, bindings, nodes, x, i[1]) =>
                 Reaches(more, bindings, nodes, x, bindings[i][2])
  BY Zenon DEF Reaches

\* The wire on top of the stack lies over the last exit.
LEMMA TopHolder ==
    ASSUME NEW nodes, NEW bindings, IsGraph(nodes, bindings),
           NEW walk, IsWalk(walk, nodes, bindings), walk.stack # <<>>,
           PathStands(walk, nodes), WiresHang(walk),
           NEW top, top = Len(walk.stack), Wires(walk, top)
    PROVE  /\ \E j \in Places(walk) :
                 /\ Ends(walk, j) /\ NodeAt(walk, j) = TopOf(walk).input[1] /\ j < top
                 /\ \A k \in Places(walk) : Ends(walk, k) => k <= j
           /\ TopOf(walk).input[1] \in Entered(walk)
           /\ TopOf(walk).input \in WiresIn(bindings)
           /\ bindings[TopOf(walk).input][2] = TopOf(walk).node
<1>1. top \in Nat /\ top > 0 /\ Places(walk) = 1..top /\ top \in 1..top
  <2>1. walk.stack \in Seq(Visits(nodes, bindings))
    BY DEF IsWalk
  <2>. QED  BY <2>1 DEF Places
<1>2. PICK j \in 1..top : Holder(walk, j, top)
  BY <1>1 DEF WiresHang
<1>3. /\ j < top /\ Ends(walk, j) /\ NodeAt(walk, j) = TopOf(walk).input[1]
      /\ \A m \in 1..top : j < m /\ m <= top => Wires(walk, m)
  BY <1>1, <1>2 DEF Holder, TopOf
<1>4. ASSUME NEW k \in 1..top, Ends(walk, k) PROVE k <= j
  <2>1. ~ Wires(walk, k)
    BY <1>4 DEF Ends, Wires
  <2>. QED  BY <1>1, <1>3, <2>1
<1>5. NodeAt(walk, j) \in walk.onPath
  BY <1>1, <1>3 DEF PathStands
<1>6. /\ TopOf(walk).input \in WiresIn(bindings)
      /\ bindings[TopOf(walk).input][2] = TopOf(walk).node
  BY <1>1, StackParts DEF TopOf
<1>. QED  BY <1>1, <1>3, <1>4, <1>5, <1>6 DEF Entered

\* A wire once settled stays so, and the top's is unless it closes a cycle.
LEMMA SettledGrows ==
    ASSUME NEW nodes, NEW bindings, IsGraph(nodes, bindings),
           NEW walk, IsWalk(walk, nodes, bindings), walk.stack # <<>>,
           NEW next, IsWalk(next, nodes, bindings),
           PassesBy(walk, next) \/ LeavesNode(walk, next)
               \/ FindsCycle(walk, next) \/ EntersNode(walk, next, bindings),
           PathStands(walk, nodes), WiresHang(walk)
    PROVE  /\ Settled(walk, bindings) \subseteq Settled(next, bindings)
           /\ ~ FindsCycle(walk, next) /\ Wires(walk, Len(walk.stack)) =>
                 TopOf(walk).input \in Settled(next, bindings)
<1>1. PICK top : top = Len(walk.stack)
  OBVIOUS
<1>2. PICK node : node = TopOf(walk).node
  OBVIOUS
<1>3. PICK input : input = TopOf(walk).input
  OBVIOUS
<1>4. top \in Nat /\ top > 0 /\ Places(walk) = 1..top /\ top \in 1..top
  <2>1. walk.stack \in Seq(Visits(nodes, bindings))
    BY DEF IsWalk
  <2>. QED  BY <1>1, <2>1 DEF Places
<1>5. Wires(walk, top) =>
          /\ input \in WiresIn(bindings) /\ input[1] \in Entered(walk)
          /\ input \notin walk.closing /\ walk.stack[top].input = input
          /\ \A k \in 1..top : Wires(walk, k) /\ walk.stack[k].input = input => k = top
  <2>1. Wires(walk, top) => input \in WiresIn(bindings) /\ input[1] \in Entered(walk)
    BY <1>1, <1>3, TopHolder
  <2>2. walk.stack[top].input = input
    BY <1>1, <1>3 DEF TopOf
  <2>. QED  BY <1>4, <2>1, <2>2 DEF WiresHang
<1>6. ASSUME Pops(walk, next), Entered(next) = Entered(walk),
             next.closing = walk.closing
                 \/ (Wires(walk, top) /\ next.closing = walk.closing \cup {input})
      PROVE  /\ Settled(walk, bindings) \subseteq Settled(next, bindings)
             /\ next.closing = walk.closing /\ Wires(walk, top) => input \in Settled(next, bindings)
  <2>1. /\ Places(next) = 1..(top - 1)
        /\ \A k \in 1..(top - 1) :
              /\ next.stack[k] = walk.stack[k] /\ (Wires(next, k) <=> Wires(walk, k))
    BY <1>1, <1>6, PopParts
  <2>2. \A k \in 1..(top - 1) : k \in 1..top /\ k # top
    BY <1>4
  <2>3. ASSUME NEW i \in Settled(walk, bindings) PROVE i \in Settled(next, bindings)
    <3>1. /\ i \in WiresIn(bindings) /\ i[1] \in Entered(walk) /\ i \notin walk.closing
          /\ \A k \in 1..top : Wires(walk, k) => walk.stack[k].input # i
      BY <1>4, <2>3 DEF Settled
    <3>2. i \notin next.closing
      BY <1>4, <1>5, <1>6, <3>1
    <3>3. \A k \in Places(next) : Wires(next, k) => next.stack[k].input # i
      BY <2>1, <2>2, <3>1
    <3>. QED  BY <1>6, <3>1, <3>2, <3>3 DEF Settled
  <2>4. ASSUME next.closing = walk.closing, Wires(walk, top) PROVE input \in Settled(next, bindings)
    <3>1. \A k \in Places(next) : Wires(next, k) => next.stack[k].input # input
      BY <1>5, <2>1, <2>2, <2>4
    <3>. QED  BY <1>5, <1>6, <2>4, <3>1 DEF Settled
  <2>. QED  BY <2>3, <2>4
<1>7. CASE PassesBy(walk, next)
  BY <1>1, <1>3, <1>6, <1>7 DEF PassesBy, Entered
<1>8. CASE LeavesNode(walk, next)
  <2>1. NodeAt(walk, top) \in walk.onPath /\ NodeAt(walk, top) = node
    BY <1>1, <1>2, <1>4, <1>8 DEF LeavesNode, PathStands, Ends, NodeAt, TopOf
  <2>2. Entered(next) = Entered(walk)
    BY <1>2, <1>8, <2>1 DEF LeavesNode, Entered
  <2>. QED  BY <1>1, <1>3, <1>6, <1>8, <2>2 DEF LeavesNode
<1>9. CASE FindsCycle(walk, next)
  BY <1>1, <1>3, <1>6, <1>9 DEF FindsCycle, Entered, Wires, TopOf
<1>10. CASE EntersNode(walk, next, bindings)
  <2>1. /\ Places(next) \subseteq Nat \ {0}
        /\ \A k \in 1..(top - 1) :
              /\ next.stack[k] = walk.stack[k] /\ (Wires(next, k) <=> Wires(walk, k))
        /\ ~ Wires(next, top)
        /\ \A k \in Places(next) : k > top => next.stack[k].input[1] = node
        /\ node \notin Entered(walk)
        /\ Entered(walk) \subseteq Entered(next)
        /\ next.closing = walk.closing
    BY <1>1, <1>2, <1>10, EnterParts DEF Entered
  <2>2. \A k \in Places(next) : k \in 1..(top - 1) \/ k = top \/ k > top
    BY <1>4, <2>1
  <2>3. \A k \in 1..(top - 1) : k \in 1..top /\ k # top
    BY <1>4
  <2>4. ASSUME NEW i \in WiresIn(bindings), i[1] \in Entered(walk), i \notin walk.closing,
               \A k \in 1..(top - 1) : Wires(walk, k) => walk.stack[k].input # i
        PROVE  i \in Settled(next, bindings)
    <3>1. \A k \in Places(next) : Wires(next, k) => next.stack[k].input # i
      BY <2>1, <2>2, <2>4
    <3>. QED  BY <2>1, <2>4, <3>1 DEF Settled
  <2>5. Settled(walk, bindings) \subseteq Settled(next, bindings)
    BY <1>4, <2>3, <2>4 DEF Settled
  <2>6. Wires(walk, top) => input \in Settled(next, bindings)
    BY <1>5, <2>3, <2>4
  <2>. QED  BY <1>1, <1>3, <2>5, <2>6
<1>. QED  BY <1>7, <1>8, <1>9, <1>10

\* Every visit keeps the path leading up, and closes only what it leads to.
LEMMA PathLeadsOn ==
    ASSUME NEW nodes, NEW bindings, IsGraph(nodes, bindings),
           NEW walk, IsWalk(walk, nodes, bindings), walk.stack # <<>>,
           NEW next, IsWalk(next, nodes, bindings),
           PassesBy(walk, next) \/ LeavesNode(walk, next)
               \/ FindsCycle(walk, next) \/ EntersNode(walk, next, bindings),
           PathStands(walk, nodes), WiresHang(walk), PathLeads(walk, nodes, bindings)
    PROVE  PathLeads(next, nodes, bindings)
<1>1. PICK top : top = Len(walk.stack)
  OBVIOUS
<1>2. PICK node : node = TopOf(walk).node
  OBVIOUS
<1>3. PICK input : input = TopOf(walk).input
  OBVIOUS
<1>4. top \in Nat /\ top > 0 /\ Places(walk) = 1..top /\ top \in 1..top
  <2>1. walk.stack \in Seq(Visits(nodes, bindings))
    BY DEF IsWalk
  <2>. QED  BY <1>1, <2>1 DEF Places
<1>. DEFINE Before(x, y) == Reaches(Settled(walk, bindings), bindings, nodes, x, y)
            After(x, y) == Reaches(Settled(next, bindings), bindings, nodes, x, y)
<1>5. /\ \A x : Before(x, x) /\ After(x, x)
      /\ \A x, y : Before(x, y) => After(x, y)
      /\ \A x, i : i \in Settled(next, bindings) /\ After(x, i[1]) => After(x, bindings[i][2])
  <2>1. Settled(walk, bindings) \subseteq Settled(next, bindings)
    BY SettledGrows
  <2>. QED  BY Zenon, <2>1, ReachesOn
<1>6. /\ \A j, k \in 1..top :
            j < k /\ Ends(walk, j) /\ Ends(walk, k) => Before(NodeAt(walk, j), NodeAt(walk, k))
      /\ \A i \in walk.closing : Before(bindings[i][2], i[1])
  BY <1>4 DEF PathLeads
<1>. HIDE DEF Before, After
<1>7. ASSUME Wires(walk, top)
      PROVE  /\ bindings[input][2] = node
             /\ \E l \in 1..top : /\ Ends(walk, l) /\ NodeAt(walk, l) = input[1]
                                  /\ \A k \in 1..top : Ends(walk, k) => k <= l
  BY <1>1, <1>2, <1>3, <1>4, <1>7, TopHolder
<1>8. ASSUME Wires(walk, top), NEW k \in 1..top, Ends(walk, k)
      PROVE  Before(NodeAt(walk, k), input[1])
  <2>1. PICK l \in 1..top : /\ Ends(walk, l) /\ NodeAt(walk, l) = input[1]
                            /\ \A m \in 1..top : Ends(walk, m) => m <= l
    BY <1>7, <1>8
  <2>2. k = l \/ k < l
    BY <1>8, <2>1
  <2>. QED  BY <1>5, <1>6, <1>8, <2>1, <2>2
<1>9. ASSUME Pops(walk, next), \A i \in next.closing : After(bindings[i][2], i[1])
      PROVE  PathLeads(next, nodes, bindings)
  <2>1. /\ Places(next) = 1..(top - 1)
        /\ \A k \in 1..(top - 1) :
              /\ Ends(next, k) <=> Ends(walk, k)
              /\ NodeAt(next, k) = NodeAt(walk, k)
    BY <1>1, <1>9, PopParts
  <2>2. \A k \in 1..(top - 1) : k \in 1..top
    BY <1>4
  <2>3. \A j, k \in Places(next) :
            j < k /\ Ends(next, j) /\ Ends(next, k) => After(NodeAt(next, j), NodeAt(next, k))
    BY <1>5, <1>6, <2>1, <2>2
  <2>. QED  BY Zenon, <1>9, <2>3 DEF PathLeads, After
<1>10. CASE next.closing = walk.closing /\ Pops(walk, next)
  BY <1>5, <1>6, <1>9, <1>10
<1>11. CASE FindsCycle(walk, next)
  <2>1. /\ Pops(walk, next) /\ next.closing = walk.closing \cup {input}
        /\ Wires(walk, top) /\ node \in walk.onPath
    BY <1>1, <1>2, <1>3, <1>11 DEF FindsCycle, Wires, TopOf
  <2>2. PICK k \in 1..top : Ends(walk, k) /\ NodeAt(walk, k) = node
    BY <1>4, <2>1 DEF PathStands
  <2>3. Before(bindings[input][2], input[1])
    BY <1>7, <1>8, <2>1, <2>2
  <2>4. \A i \in next.closing : After(bindings[i][2], i[1])
    BY <1>5, <1>6, <2>1, <2>3
  <2>. QED  BY <1>9, <2>1, <2>4
<1>12. CASE EntersNode(walk, next, bindings)
  <2>1. /\ Places(next) \subseteq Nat \ {0}
        /\ \A k \in 1..(top - 1) :
              /\ Ends(next, k) <=> Ends(walk, k)
              /\ NodeAt(next, k) = NodeAt(walk, k)
        /\ NodeAt(next, top) = node
        /\ \A k \in Places(next) : k > top => ~ Ends(next, k)
        /\ ~ Ends(walk, top)
        /\ next.closing = walk.closing
    BY <1>1, <1>2, <1>12, EnterParts
  <2>2. \A k \in Places(next) : k \in 1..(top - 1) \/ k = top \/ k > top
    BY <1>4, <2>1
  <2>3. \A k \in 1..(top - 1) : k \in 1..top /\ k # top /\ k < top
    BY <1>4
  <2>4. ASSUME NEW j \in 1..(top - 1), Ends(walk, j) PROVE After(NodeAt(walk, j), node)
    <3>1. Wires(walk, top)
      <4>1. walk.stack[top].kind \in {"root", "exit", "wire"}
        BY <1>4, StackParts
      <4>2. ~ Starts(walk, top)
        <5>1. ~ Starts(walk, j)
          BY <2>4 DEF Ends, Starts
        <5>. QED  BY <1>4, <2>3, <5>1 DEF PathStands
      <4>. QED  BY <2>1, <4>1, <4>2 DEF Ends, Starts, Wires
    <3>2. Before(NodeAt(walk, j), input[1]) /\ bindings[input][2] = node
      BY <1>7, <1>8, <2>3, <2>4, <3>1
    <3>3. input \in Settled(next, bindings)
      <4>1. ~ FindsCycle(walk, next)
        BY <1>12 DEF FindsCycle, EntersNode, Entered
      <4>. QED  BY <1>1, <1>3, <3>1, <4>1, SettledGrows
    <3>. QED  BY <1>5, <3>2, <3>3
  <2>5. ASSUME NEW j \in Places(next), NEW k \in Places(next),
               j < k, Ends(next, j), Ends(next, k)
        PROVE  After(NodeAt(next, j), NodeAt(next, k))
    <3>1. k \in 1..top /\ j \in 1..(top - 1)
      BY <1>4, <2>1, <2>2, <2>5
    <3>2. CASE k = top
      BY <2>1, <2>4, <2>5, <3>1, <3>2
    <3>3. CASE k # top
      <4>1. k \in 1..(top - 1)
        BY <1>4, <3>1, <3>3
      <4>2. Before(NodeAt(walk, j), NodeAt(walk, k))
        BY <1>6, <2>1, <2>3, <2>5, <3>1, <4>1
      <4>. QED  BY <1>5, <2>1, <3>1, <4>1, <4>2
    <3>. QED  BY <3>2, <3>3
  <2>6. \A i \in next.closing : After(bindings[i][2], i[1])
    BY <1>5, <1>6, <2>1
  <2>. QED  BY Zenon, <2>5, <2>6 DEF PathLeads, After
<1>. QED  BY <1>10, <1>11, <1>12 DEF PassesBy, LeavesNode

-----------------------------------------------------------------------------
\* What the walk has left: visits on its stack, nodes to enter, their wires.
StillOut(walk, bindings) == {i \in WiresIn(bindings) : i[1] \notin Entered(walk)}
VisitsLeft(walk, nodes, bindings) ==
    Len(walk.stack) + Cardinality(nodes \ Entered(walk))
        + Cardinality(StillOut(walk, bindings))

\* It is a number, none when the stack is empty and nothing waits.
LEMMA VisitsLeftIsNat ==
    ASSUME NEW nodes, NEW bindings, IsGraph(nodes, bindings),
           NEW walk, IsWalk(walk, nodes, bindings)
    PROVE  /\ IsFiniteSet(nodes) /\ IsFiniteSet(WiresIn(bindings))
           /\ IsFiniteSet(nodes \ Entered(walk)) /\ IsFiniteSet(StillOut(walk, bindings))
           /\ Cardinality(nodes \ Entered(walk)) \in Nat
           /\ Cardinality(StillOut(walk, bindings)) \in Nat
           /\ Len(walk.stack) \in Nat
<1>1. IsFiniteSet(nodes) /\ IsFiniteSet(WiresIn(bindings))
  BY DocumentAssumption, FS_Subset DEF IsGraph, WiresIn
<1>2. nodes \ Entered(walk) \in SUBSET nodes
      /\ StillOut(walk, bindings) \in SUBSET WiresIn(bindings)
  BY DEF StillOut
<1>3. walk.stack \in Seq(Visits(nodes, bindings))
  BY DEF IsWalk
<1>4. IsFiniteSet(nodes \ Entered(walk)) /\ IsFiniteSet(StillOut(walk, bindings))
  BY <1>1, <1>2, FS_Subset
<1>. QED  BY <1>1, <1>3, <1>4, FS_CardinalityType

\* Every visit leaves one less.
LEMMA VisitsRunOut ==
    ASSUME NEW nodes, NEW bindings, IsGraph(nodes, bindings),
           NEW walk, IsWalk(walk, nodes, bindings), walk.stack # <<>>,
           NEW next, IsWalk(next, nodes, bindings),
           PassesBy(walk, next) \/ LeavesNode(walk, next)
               \/ FindsCycle(walk, next) \/ EntersNode(walk, next, bindings),
           PathStands(walk, nodes)
    PROVE  VisitsLeft(next, nodes, bindings) = VisitsLeft(walk, nodes, bindings) - 1
<1>1. PICK top : top = Len(walk.stack)
  OBVIOUS
<1>2. PICK node : node = TopOf(walk).node
  OBVIOUS
<1>3. ASSUME Pops(walk, next), Entered(next) = Entered(walk)
      PROVE  VisitsLeft(next, nodes, bindings) = VisitsLeft(walk, nodes, bindings) - 1
  <2>1. StillOut(next, bindings) = StillOut(walk, bindings)
    BY <1>3 DEF StillOut
  <2>2. Len(next.stack) = Len(walk.stack) - 1
    BY <1>3 DEF Pops
  <2>3. /\ Len(walk.stack) \in Nat
        /\ Cardinality(nodes \ Entered(walk)) \in Nat
        /\ Cardinality(StillOut(walk, bindings)) \in Nat
    BY VisitsLeftIsNat
  <2>4. VisitsLeft(next, nodes, bindings)
            = Len(next.stack) + Cardinality(nodes \ Entered(walk))
                  + Cardinality(StillOut(walk, bindings))
    BY Zenon, <1>3, <2>1 DEF VisitsLeft
  <2>. QED  BY <2>2, <2>3, <2>4 DEF VisitsLeft
<1>4. CASE PassesBy(walk, next) \/ FindsCycle(walk, next)
  BY <1>3, <1>4 DEF PassesBy, FindsCycle, Entered
<1>5. CASE LeavesNode(walk, next)
  <2>1. top \in Places(walk)
    <3>1. walk.stack \in Seq(Visits(nodes, bindings))
      BY DEF IsWalk
    <3>. QED  BY <1>1, <3>1 DEF Places
  <2>2. NodeAt(walk, top) \in walk.onPath /\ NodeAt(walk, top) = node
    BY <1>1, <1>2, <1>5, <2>1 DEF LeavesNode, PathStands, Ends, NodeAt, TopOf
  <2>3. Entered(next) = Entered(walk)
    BY <1>2, <1>5, <2>2 DEF LeavesNode, Entered
  <2>. QED  BY <1>3, <1>5, <2>3 DEF LeavesNode
<1>6. CASE EntersNode(walk, next, bindings)
  <2>. DEFINE N == nodes \ Entered(walk)
              W == StillOut(walk, bindings)
              V == StillOut(next, bindings)
              T == WiresTo(bindings, node)
  <2>1. /\ node \in nodes /\ node \notin Entered(walk)
        /\ Entered(next) = Entered(walk) \cup {node}
    BY <1>1, <1>2, <1>6, EnterParts DEF Entered
  <2>2. Cardinality(nodes \ Entered(next)) = Cardinality(N) - 1
    <3>1. nodes \ Entered(next) = N \ {node} /\ node \in N
      BY <2>1
    <3>2. IsFiniteSet(N)
      BY VisitsLeftIsNat
    <3>. HIDE DEF N
    <3>. QED  BY <3>1, <3>2, FS_RemoveElement
  <2>3. Cardinality(W) = Cardinality(V) + Cardinality(T) /\ Cardinality(T) \in Nat
    <3>1. W = V \cup T /\ V \cap T = {}
      BY <2>1 DEF StillOut, WiresTo
    <3>2. IsFiniteSet(V) /\ IsFiniteSet(T) /\ Cardinality(V) \in Nat
      <4>1. T \in SUBSET WiresIn(bindings)
        BY DEF WiresTo
      <4>. QED  BY <4>1, VisitsLeftIsNat, FS_Subset
    <3>. HIDE DEF V, W, T
    <3>3. Cardinality(T) \in Nat /\ Cardinality({}) = 0
      BY <3>2, FS_CardinalityType, FS_EmptySet
    <3>4. Cardinality(V \cup T)
              = Cardinality(V) + Cardinality(T) - Cardinality(V \cap T)
      BY <3>2, FS_Union
    <3>5. Cardinality(V \cap T) = 0
      BY Zenon, <3>1, <3>3
    <3>6. Cardinality(W) = Cardinality(V \cup T)
      BY Zenon, <3>1
    <3>. QED  BY <3>2, <3>3, <3>4, <3>5, <3>6
  <2>4. Len(next.stack) = top + Cardinality(T)
    BY <1>1, <1>2, <1>6 DEF EntersNode
  <2>5. /\ Cardinality(N) \in Nat /\ Cardinality(W) \in Nat /\ top \in Nat
        /\ Cardinality(V) \in Nat
    BY <1>1, VisitsLeftIsNat
  <2>6. /\ VisitsLeft(walk, nodes, bindings) = top + Cardinality(N) + Cardinality(W)
        /\ VisitsLeft(next, nodes, bindings)
              = Len(next.stack) + Cardinality(nodes \ Entered(next)) + Cardinality(V)
    BY <1>1 DEF VisitsLeft
  <2>. HIDE DEF N, W, V, T
  <2>. QED  BY <2>2, <2>3, <2>4, <2>5, <2>6
<1>. QED  BY <1>4, <1>5, <1>6

\* All of it, k visits in.
Walks(walk, nodes, bindings, k) ==
    /\ IsWalk(walk, nodes, bindings) /\ PathStands(walk, nodes) /\ WiresHang(walk)
    /\ PathCovers(walk, bindings) /\ DoneIsRanked(walk, nodes, bindings)
    /\ PathLeads(walk, nodes, bindings)
    /\ walk.stack = <<>> \/ VisitsLeft(walk, nodes, bindings) + k <= MostVisits(bindings)

\* A walk goes on from one visit to the next.
LEMMA WalkGoesOn ==
    ASSUME NEW nodes, NEW bindings, IsGraph(nodes, bindings), NEW k \in Nat,
           NEW walk, Walks(walk, nodes, bindings, k),
           NEW next, next = WalkOn(walk, bindings)
    PROVE  Walks(next, nodes, bindings, k + 1)
<1>1. CASE walk.stack = <<>>
  <2>1. next = walk
    BY <1>1 DEF WalkOn
  <2>. QED  BY <1>1, <2>1 DEF Walks
<1>2. CASE walk.stack # <<>>
  <2>0. /\ IsWalk(walk, nodes, bindings) /\ PathStands(walk, nodes) /\ WiresHang(walk)
        /\ PathCovers(walk, bindings) /\ DoneIsRanked(walk, nodes, bindings)
        /\ PathLeads(walk, nodes, bindings)
        /\ VisitsLeft(walk, nodes, bindings) + k <= MostVisits(bindings)
    BY <1>2 DEF Walks
  <2>1. next = Visit(walk, bindings)
    BY <1>2 DEF WalkOn
  <2>2. PICK top : top = Len(walk.stack)
    OBVIOUS
  <2>3. top \in Nat /\ top > 0 /\ top \in Places(walk) /\ Places(walk) = 1..top
    <3>1. walk.stack \in Seq(Visits(nodes, bindings))
      BY <2>0 DEF IsWalk
    <3>. QED  BY <1>2, <2>2, <3>1 DEF Places
  <2>4. ASSUME TopOf(walk).kind = "root" PROVE TopOf(walk).node \notin walk.onPath
    <3>1. SUFFICES ASSUME TopOf(walk).node \in walk.onPath PROVE FALSE
      OBVIOUS
    <3>2. PICK j \in 1..top : Ends(walk, j)
      BY <2>0, <2>3, <3>1 DEF PathStands
    <3>3. Starts(walk, top)
      BY <2>2, <2>4 DEF Starts, TopOf
    <3>4. ~ Starts(walk, j) /\ j # top
      BY <3>2, <3>3 DEF Ends, Starts
    <3>5. j < top
      BY <2>3, <3>4
    <3>. QED  BY <2>0, <2>3, <3>3, <3>4, <3>5 DEF PathStands
  <2>5. ASSUME TopOf(walk).kind = "wire" PROVE TopOf(walk).input[1] \in Entered(walk)
    <3>1. Wires(walk, top)
      BY <2>2, <2>5 DEF Wires, TopOf
    <3>. QED  BY <1>2, <2>0, <2>2, <3>1, TopHolder
  <2>6. /\ IsWalk(next, nodes, bindings)
        /\ \/ PassesBy(walk, next) \/ LeavesNode(walk, next)
           \/ FindsCycle(walk, next) \/ EntersNode(walk, next, bindings)
    BY <1>2, <2>0, <2>1, <2>4, <2>5, VisitSteps
  <2>7. PathStands(next, nodes) /\ WiresHang(next)
    BY <1>2, <2>0, <2>6, PathStandsOn, WiresHangOn
  <2>8. PathCovers(next, bindings) /\ DoneIsRanked(next, nodes, bindings)
    BY <1>2, <2>0, <2>6, PathCoversOn, DoneIsRankedOn
  <2>9. PathLeads(next, nodes, bindings)
    BY <1>2, <2>0, <2>6, PathLeadsOn
  <2>10. VisitsLeft(next, nodes, bindings) + (k + 1) <= MostVisits(bindings)
    <3>1. VisitsLeft(next, nodes, bindings) = VisitsLeft(walk, nodes, bindings) - 1
      BY <1>2, <2>0, <2>6, VisitsRunOut
    <3>2. VisitsLeft(walk, nodes, bindings) \in Int
      <4>1. /\ Len(walk.stack) \in Nat
            /\ Cardinality(nodes \ Entered(walk)) \in Nat
            /\ Cardinality(StillOut(walk, bindings)) \in Nat
        BY <2>0, VisitsLeftIsNat
      <4>. QED  BY <4>1 DEF VisitsLeft
    <3>3. MostVisits(bindings) \in Nat
      <4>1. Cardinality(NodeIds) \in Nat /\ Cardinality(DOMAIN bindings) \in Nat
        BY DocumentAssumption, FS_CardinalityType DEF IsGraph
      <4>. QED  BY <4>1 DEF MostVisits
    <3>. QED  BY <2>0, <3>1, <3>2, <3>3
  <2>. QED  BY Zenon, <2>6, <2>7, <2>8, <2>9, <2>10 DEF Walks
<1>. QED  BY <1>1, <1>2

\* The walk starts with every node a root.
LEMMA WalkStarts ==
    ASSUME NEW nodes, NEW bindings, IsGraph(nodes, bindings),
           NEW walk, walk = WalkFrom(nodes)
    PROVE  Walks(walk, nodes, bindings, 0)
<1>1. PICK m : m = Cardinality(nodes)
  OBVIOUS
<1>2. IsFiniteSet(nodes) /\ nodes \in SUBSET Nat /\ m \in Nat
  BY <1>1, DocumentAssumption, FS_Subset, FS_CardinalityType DEF IsGraph
<1>3. PICK order : order = InIdOrder(nodes)
  OBVIOUS
<1>4. /\ DOMAIN order = 1..m
      /\ \A k \in 1..m : order[k] \in nodes
      /\ \A n \in nodes : \E k \in 1..m : order[k] = n
  BY <1>1, <1>2, <1>3, InIdOrderIsSeq, InIdOrderNumbers
<1>5. Len(order) = m
  <2>1. order = [k \in DOMAIN order |-> order[k]]
    <3>. DEFINE at(k) == CHOOSE n \in nodes : Cardinality({q \in nodes : q < n}) = k - 1
    <3>1. order = [k \in 1..Cardinality(nodes) |-> at(k)]
      BY Zenon, <1>3 DEF InIdOrder
    <3>. HIDE DEF at
    <3>. QED  BY <3>1
  <2>2. order \in Seq(nodes)
    BY <1>2, <1>4, <2>1
  <2>. QED  BY <1>2, <1>4, <2>2
<1>6. PICK roots : roots = Reverse(order)
  OBVIOUS
<1>7. DOMAIN roots = 1..m /\ \A k \in 1..m : roots[k] = order[m - k + 1]
  BY <1>5, <1>6 DEF Reverse
<1>8. \A k \in 1..m : m - k + 1 \in 1..m /\ m - (m - k + 1) + 1 = k
  BY <1>2
<1>9. PICK stack : stack = [k \in DOMAIN roots |-> RootOf(roots[k])]
  OBVIOUS
<1>10. /\ DOMAIN stack = 1..m
       /\ \A k \in 1..m : roots[k] \in nodes /\ stack[k] = RootOf(roots[k])
  BY <1>4, <1>7, <1>8, <1>9
<1>11. stack \in Seq(Visits(nodes, bindings)) /\ Len(stack) = m
  <2>1. \A k \in 1..m : stack[k] \in Visits(nodes, bindings)
    BY <1>10 DEF Visits
  <2>2. stack \in [1..m -> Visits(nodes, bindings)]
    BY <1>7, <1>9, <1>10, <2>1
  <2>. QED  BY <1>2, <2>2
<1>12. walk = [onPath |-> {}, done |-> {}, closing |-> {}, stack |-> stack]
  BY Zenon, <1>3, <1>6, <1>9 DEF WalkFrom
<1>13. /\ walk.onPath = {} /\ walk.done = {} /\ walk.closing = {} /\ walk.stack = stack
       /\ Entered(walk) = {} /\ Places(walk) = 1..m
  BY <1>11, <1>12 DEF Entered, Places
<1>14. \A k \in Places(walk) :
           Starts(walk, k) /\ ~ Ends(walk, k) /\ ~ Wires(walk, k) /\ NodeAt(walk, k) = roots[k]
  BY <1>10, <1>13, VisitParts DEF Starts, Ends, Wires, NodeAt
<1>15. IsWalk(walk, nodes, bindings)
  BY <1>11, <1>12, <1>13 DEF IsWalk
<1>16. PathStands(walk, nodes)
  <2>1. ASSUME NEW n \in nodes PROVE \E k \in Places(walk) : NodeAt(walk, k) = n
    <3>1. PICK j \in 1..m : order[j] = n
      BY <1>4
    <3>2. m - j + 1 \in 1..m /\ roots[m - j + 1] = n
      BY <1>7, <1>8, <3>1
    <3>. QED  BY <1>13, <1>14, <3>2
  <2>. QED  BY <1>13, <1>14, <2>1 DEF PathStands
<1>17. WiresHang(walk) /\ PathCovers(walk, bindings)
  BY <1>14 DEF WiresHang, PathCovers
<1>18. DoneIsRanked(walk, nodes, bindings)
  <2>1. [n \in nodes |-> 0] \in [nodes -> Nat]
    OBVIOUS
  <2>2. \A rank : IsRanked(walk, bindings, rank, 0)
    BY <1>13 DEF IsRanked
  <2>. QED  BY <2>1, <2>2 DEF DoneIsRanked
<1>19. PathLeads(walk, nodes, bindings)
  BY <1>13, <1>14 DEF PathLeads
<1>20. VisitsLeft(walk, nodes, bindings) + 0 <= MostVisits(bindings)
  <2>1. nodes \ Entered(walk) = nodes /\ StillOut(walk, bindings) = WiresIn(bindings)
    BY <1>13 DEF StillOut
  <2>2. Cardinality(WiresIn(bindings)) \in Nat
        /\ Cardinality(WiresIn(bindings)) <= Cardinality(DOMAIN bindings)
        /\ Cardinality(DOMAIN bindings) \in Nat
    <3>1. WiresIn(bindings) \in SUBSET DOMAIN bindings /\ IsFiniteSet(DOMAIN bindings)
      BY DEF WiresIn, IsGraph
    <3>. QED  BY <3>1, FS_Subset, FS_CardinalityType
  <2>3. m <= Cardinality(NodeIds) /\ Cardinality(NodeIds) \in Nat
    BY <1>1, DocumentAssumption, FS_Subset, FS_CardinalityType DEF IsGraph
  <2>4. VisitsLeft(walk, nodes, bindings) = m + m + Cardinality(WiresIn(bindings))
    BY <1>1, <1>11, <1>13, <2>1 DEF VisitsLeft
  <2>. QED  BY <1>2, <2>2, <2>3, <2>4 DEF MostVisits
<1>. QED  BY Zenon, <1>15, <1>16, <1>17, <1>18, <1>19, <1>20 DEF Walks

WalkBody(doc, walk, k) ==
    IF k = 0 THEN WalkFrom(DOMAIN doc.nodes) ELSE WalkOn(walk[k - 1], doc.bindings)
Walking == INSTANCE Recursion WITH Body <- WalkBody

\* closing_wires walks the whole graph.  The wires it leaves rank the nodes, so
\* none of them closes a cycle, and over them the producer of a wire it calls
\* closing leads back to the consumer.
IsKeptGraph(nodes, bindings, rank, closing) ==
    /\ closing \subseteq WiresIn(bindings)
    /\ \A i \in WiresIn(bindings) \ closing : rank[bindings[i][2]] < rank[i[1]]
    /\ \A i \in closing :
          Reaches(WiresIn(bindings) \ closing, bindings, nodes, bindings[i][2], i[1])
LEMMA ClosingWiresCloseCycles ==
    ASSUME NEW doc, NEW nodes, nodes = DOMAIN doc.nodes,
           NEW bindings, bindings = doc.bindings, IsGraph(nodes, bindings)
    PROVE  \E rank \in [nodes -> Nat] :
               IsKeptGraph(nodes, bindings, rank, ClosingWires(doc))
<1>1. PICK most : most = MostVisits(bindings)
  OBVIOUS
<1>2. most \in Nat
  <2>1. Cardinality(NodeIds) \in Nat /\ Cardinality(DOMAIN bindings) \in Nat
    BY DocumentAssumption, FS_CardinalityType DEF IsGraph
  <2>. QED  BY <1>1, <2>1 DEF MostVisits
<1>3. \E f : f = [k \in 0..most |-> WalkBody(doc, f, k)]
  <2>. DEFINE rank == [k \in 0..most |-> k]
  <2>1. rank \in [0..most -> Nat] /\ most + 1 \in Nat /\ \A k \in 0..most : rank[k] < most + 1
    BY <1>2
  <2>2. Walking!ReadsBelow(doc, 0..most, rank)
    <3>1. SUFFICES ASSUME NEW k \in 0..most, NEW f, NEW g,
                          \A m \in 0..most : rank[m] < rank[k] => f[m] = g[m]
                   PROVE  WalkBody(doc, f, k) = WalkBody(doc, g, k)
      BY Zenon DEF Walking!ReadsBelow
    <3>2. CASE k = 0
      BY Zenon, <3>2 DEF WalkBody
    <3>3. CASE k # 0
      <4>1. f[k - 1] = g[k - 1]
        <5>1. k - 1 \in 0..most /\ rank[k - 1] < rank[k]
          BY <1>2, <3>3
        <5>. QED  BY <3>1, <5>1
      <4>. QED  BY Zenon, <3>3, <4>1 DEF WalkBody
    <3>. QED  BY <3>2, <3>3
  <2>. HIDE DEF rank
  <2>. QED  BY <2>1, <2>2, Walking!RecursionSolved
<1>4. PICK f : /\ f = [k \in 0..most |-> IF k = 0 THEN WalkFrom(DOMAIN doc.nodes)
                                        ELSE WalkOn(f[k - 1], doc.bindings)]
               /\ ClosingWires(doc) = f[most].closing
  <2>. DEFINE Solves(f) == f = [k \in 0..MostVisits(doc.bindings) |->
                                   IF k = 0 THEN WalkFrom(DOMAIN doc.nodes)
                                   ELSE WalkOn(f[k - 1], doc.bindings)]
              walk == CHOOSE f : Solves(f)
  <2>1. \E f : Solves(f)
    BY Zenon, <1>1, <1>3 DEF WalkBody
  <2>2. Solves(walk)
    <3>. HIDE DEF Solves
    <3>. QED  BY Zenon, <2>1
  <2>3. ClosingWires(doc) = walk[MostVisits(doc.bindings)].closing
    BY Zenon DEF ClosingWires
  <2>. HIDE DEF walk
  <2>. QED  BY Zenon, <1>1, <2>2, <2>3
<1>. DEFINE I == {k \in 0..most : Walks(f[k], nodes, bindings, k)}
<1>5. 0 \in I
  <2>1. f[0] = WalkFrom(nodes)
    BY <1>2, <1>4
  <2>2. Walks(f[0], nodes, bindings, 0)
    BY <2>1, WalkStarts
  <2>. QED  BY <1>2, <2>2
<1>6. ASSUME NEW k \in 1..most, k - 1 \in I PROVE k \in I
  <2>1. k - 1 \in Nat /\ k \in 0..most /\ k # 0 /\ (k - 1) + 1 = k
    BY <1>2
  <2>2. f[k] = WalkOn(f[k - 1], bindings)
    BY <1>4, <2>1
  <2>3. Walks(f[k - 1], nodes, bindings, k - 1)
    BY <1>6
  <2>4. Walks(f[k], nodes, bindings, (k - 1) + 1)
    BY <2>1, <2>2, <2>3, WalkGoesOn
  <2>. QED  BY <2>1, <2>4
<1>7. Walks(f[most], nodes, bindings, most)
  <2>1. most \in I
    <3>. HIDE DEF I
    <3>. QED  BY <1>2, <1>5, <1>6, Walking!StepsReach
  <2>. QED  BY <2>1
<1>8. PICK walk : walk = f[most]
  OBVIOUS
<1>9. /\ IsWalk(walk, nodes, bindings) /\ PathStands(walk, nodes)
      /\ DoneIsRanked(walk, nodes, bindings) /\ PathLeads(walk, nodes, bindings)
      /\ walk.stack = <<>> \/ VisitsLeft(walk, nodes, bindings) + most <= most
  BY <1>1, <1>7, <1>8 DEF Walks
<1>10. /\ Len(walk.stack) \in Nat /\ Cardinality(nodes \ Entered(walk)) \in Nat
       /\ Cardinality(StillOut(walk, bindings)) \in Nat
  BY <1>9, VisitsLeftIsNat
<1>11. Places(walk) = {}
  <2>1. Len(walk.stack) = 0
    <3>1. CASE walk.stack = <<>>
      BY <3>1
    <3>2. CASE VisitsLeft(walk, nodes, bindings) + most <= most
      BY <1>2, <1>10, <3>2 DEF VisitsLeft
    <3>. QED  BY <1>9, <3>1, <3>2
  <2>. QED  BY <2>1 DEF Places
<1>12. walk.onPath = {} /\ walk.done = nodes /\ Entered(walk) = nodes
  <2>1. walk.onPath = {} /\ nodes \ Entered(walk) = {}
    BY <1>9, <1>11 DEF PathStands
  <2>2. walk.done \subseteq nodes
    BY <1>9 DEF IsWalk
  <2>. QED  BY <2>1, <2>2 DEF Entered
<1>13. /\ walk.closing \subseteq WiresIn(bindings)
       /\ Settled(walk, bindings) = WiresIn(bindings) \ walk.closing
  <2>1. walk.closing \subseteq WiresIn(bindings)
    BY <1>9 DEF IsWalk
  <2>. QED  BY <1>11, <1>12, <2>1 DEF Settled, IsGraph
<1>14. PICK rank \in [nodes -> Nat], m \in Nat : IsRanked(walk, bindings, rank, m)
  BY <1>9 DEF DoneIsRanked
<1>15. \A i \in WiresIn(bindings) \ walk.closing : rank[bindings[i][2]] < rank[i[1]]
  BY <1>12, <1>14 DEF IsRanked, IsGraph
<1>16. \A i \in walk.closing :
           Reaches(WiresIn(bindings) \ walk.closing, bindings, nodes, bindings[i][2], i[1])
  BY Zenon, <1>9, <1>13 DEF PathLeads
<1>. QED  BY <1>4, <1>8, <1>13, <1>15, <1>16 DEF IsKeptGraph

-----------------------------------------------------------------------------
ReachBody(bindings, reach, k) ==
    reach[k - 1] \cup Feeding(bindings, reach[k - 1])
FromBody(env, reach, k) == IF k = 0 THEN {env[2]} ELSE ReachBody(env[1], reach, k)
Reaching == INSTANCE Recursion WITH Body <- FromBody
AreLevels(reach, bindings, from, n) ==
    /\ reach[0] = {from}
    /\ \A k \in 1..n : reach[k] = reach[k - 1] \cup Feeding(bindings, reach[k - 1])

\* The levels of a walk backwards over the wires.
LEMMA UpstreamLevels ==
    ASSUME NEW bindings, NEW from
    PROVE  /\ Cardinality(NodeIds) \in Nat
           /\ \E reach : /\ AreLevels(reach, bindings, from, Cardinality(NodeIds))
                         /\ Upstream(bindings, from) = reach[Cardinality(NodeIds)]
<1>1. PICK n : n = Cardinality(NodeIds)
  OBVIOUS
<1>2. n \in Nat
  BY <1>1, DocumentAssumption, FS_CardinalityType
<1>3. PICK env : env = <<bindings, from>>
  OBVIOUS
<1>4. env[1] = bindings /\ env[2] = from
  BY <1>3
<1>5. \E f : f = [k \in 0..n |-> FromBody(env, f, k)]
  <2>. DEFINE rank == [k \in 0..n |-> k]
  <2>1. rank \in [0..n -> Nat] /\ n + 1 \in Nat /\ \A k \in 0..n : rank[k] < n + 1
    BY <1>2
  <2>2. Reaching!ReadsBelow(env, 0..n, rank)
    <3>1. SUFFICES ASSUME NEW k \in 0..n, NEW f, NEW g,
                          \A m \in 0..n : rank[m] < rank[k] => f[m] = g[m]
                   PROVE  FromBody(env, f, k) = FromBody(env, g, k)
      BY Zenon DEF Reaching!ReadsBelow
    <3>2. CASE k = 0
      BY Zenon, <3>2 DEF FromBody
    <3>3. CASE k # 0
      <4>1. f[k - 1] = g[k - 1]
        <5>1. k - 1 \in 0..n /\ rank[k - 1] < rank[k]
          BY <1>2, <3>3
        <5>. QED  BY <3>1, <5>1
      <4>. QED  BY Zenon, <3>3, <4>1 DEF FromBody, ReachBody
    <3>. QED  BY <3>2, <3>3
  <2>. HIDE DEF rank
  <2>. QED  BY <2>1, <2>2, Reaching!RecursionSolved
<1>6. PICK f : /\ f = [k \in 0..n |-> IF k = 0 THEN {from}
                                     ELSE f[k - 1] \cup Feeding(bindings, f[k - 1])]
               /\ Upstream(bindings, from) = f[n]
  <2>. DEFINE Solves(f) == f = [k \in 0..Cardinality(NodeIds) |->
                                   IF k = 0 THEN {from}
                                   ELSE f[k - 1] \cup Feeding(bindings, f[k - 1])]
              reach == CHOOSE f : Solves(f)
  <2>1. \E f : Solves(f)
    BY Zenon, <1>1, <1>4, <1>5 DEF FromBody, ReachBody
  <2>2. Solves(reach)
    <3>. HIDE DEF Solves
    <3>. QED  BY Zenon, <2>1
  <2>3. Upstream(bindings, from) = reach[Cardinality(NodeIds)]
    BY Zenon DEF Upstream
  <2>. HIDE DEF reach
  <2>. QED  BY Zenon, <1>1, <2>2, <2>3
<1>7. AreLevels(f, bindings, from, n)
  <2>1. f[0] = {from}
    BY <1>2, <1>6
  <2>2. ASSUME NEW k \in 1..n PROVE f[k] = f[k - 1] \cup Feeding(bindings, f[k - 1])
    <3>1. k \in 0..n /\ k # 0
      BY <1>2
    <3>. QED  BY <1>6, <3>1
  <2>. QED  BY <2>1, <2>2 DEF AreLevels
<1>. QED  BY <1>1, <1>2, <1>6, <1>7

\* What is upstream of a node is in every set that holds the node and the
\* producers of what it holds.
LEMMA UpstreamIsWithin ==
    ASSUME NEW bindings, NEW from, NEW X, from \in X, Feeding(bindings, X) \subseteq X
    PROVE  Upstream(bindings, from) \subseteq X
<1>1. PICK n : n = Cardinality(NodeIds)
  OBVIOUS
<1>2. PICK reach : n \in Nat /\ AreLevels(reach, bindings, from, n) /\ Upstream(bindings, from) = reach[n]
  BY <1>1, UpstreamLevels
<1>. DEFINE I == {k \in 0..n : reach[k] \subseteq X}
<1>3. 0 \in I
  BY <1>2 DEF AreLevels
<1>4. ASSUME NEW k \in 1..n, k - 1 \in I PROVE k \in I
  <2>1. Feeding(bindings, reach[k - 1]) \subseteq Feeding(bindings, X)
    BY <1>4 DEF Feeding
  <2>2. reach[k] = reach[k - 1] \cup Feeding(bindings, reach[k - 1])
    BY <1>2 DEF AreLevels
  <2>3. k \in 0..n
    BY <1>2
  <2>. QED  BY <1>4, <2>1, <2>2, <2>3
<1>5. n \in I
  <2>. HIDE DEF I
  <2>. QED  BY <1>2, <1>3, <1>4, Reaching!StepsReach
<1>. QED  BY <1>2, <1>5

\* A node is upstream of itself, and over the wires of a graph what feeds a
\* node upstream is upstream too: there are no more levels than nodes.
LEMMA UpstreamIsClosed ==
    ASSUME NEW nodes, NEW bindings, IsGraph(nodes, bindings), NEW from \in nodes
    PROVE  /\ from \in Upstream(bindings, from)
           /\ Feeding(bindings, Upstream(bindings, from)) \subseteq Upstream(bindings, from)
           /\ Upstream(bindings, from) \subseteq nodes
<1>1. PICK n : n = Cardinality(NodeIds)
  OBVIOUS
<1>2. PICK reach : n \in Nat /\ AreLevels(reach, bindings, from, n) /\ Upstream(bindings, from) = reach[n]
  BY <1>1, UpstreamLevels
<1>3. Feeding(bindings, nodes) \subseteq nodes
  BY DEF Feeding, IsGraph, WiresIn
<1>4. \A k \in 1..n : k - 1 \in 0..n /\ k \in 0..n
  BY <1>2
<1>. DEFINE Level(k) == reach[k]
            Full(k) == Feeding(bindings, Level(k)) \subseteq Level(k)
            I == {k \in 0..n : from \in Level(k) /\ Level(k) \subseteq nodes
                                  /\ (Full(k) \/ Cardinality(Level(k)) > k)}
<1>5. \A k \in 1..n : Level(k) = Level(k - 1) \cup Feeding(bindings, Level(k - 1))
  BY <1>2 DEF AreLevels
<1>6. IsFiniteSet(nodes) /\ IsFiniteSet(NodeIds) /\ nodes \in SUBSET NodeIds
  BY DocumentAssumption, FS_Subset DEF IsGraph
<1>7. 0 \in I
  <2>1. Level(0) = {from} /\ Cardinality({from}) = 1
    BY <1>2, FS_Singleton DEF AreLevels
  <2>. QED  BY <1>2, <2>1
<1>8. ASSUME NEW k \in 1..n, k - 1 \in I PROVE k \in I
  <2>1. /\ from \in Level(k - 1) /\ Level(k - 1) \subseteq nodes
        /\ Full(k - 1) \/ Cardinality(Level(k - 1)) > k - 1
    BY <1>8
  <2>2. Feeding(bindings, Level(k - 1)) \subseteq nodes
    BY <1>3, <2>1 DEF Feeding
  <2>3. from \in Level(k) /\ Level(k) \subseteq nodes /\ Level(k - 1) \subseteq Level(k)
    BY <1>5, <2>1, <2>2
  <2>4. CASE Full(k - 1)
    <3>1. Level(k) = Level(k - 1)
      BY <1>5, <2>4
    <3>2. Full(k)
      BY Zenon, <2>4, <3>1
    <3>. QED  BY <1>4, <2>3, <3>2
  <2>5. CASE ~ Full(k - 1)
    <3>1. Level(k - 1) # Level(k)
      BY <1>5, <2>5
    <3>2. /\ IsFiniteSet(Level(k)) /\ IsFiniteSet(Level(k - 1))
          /\ Level(k) \in SUBSET nodes /\ Level(k - 1) \in SUBSET Level(k)
      <4>. HIDE DEF Level
      <4>. QED  BY <1>6, <2>1, <2>3, FS_Subset
    <3>3. Cardinality(Level(k - 1)) <= Cardinality(Level(k))
          /\ Cardinality(Level(k - 1)) # Cardinality(Level(k))
          /\ Cardinality(Level(k - 1)) \in Nat /\ Cardinality(Level(k)) \in Nat
      <4>. HIDE DEF Level
      <4>. QED  BY <3>1, <3>2, FS_Subset, FS_CardinalityType
    <3>4. Cardinality(Level(k)) > k
      <4>. HIDE DEF Level, Full
      <4>. QED  BY <1>2, <2>1, <2>5, <3>3
    <3>. QED  BY <1>4, <2>3, <3>4
  <2>. QED  BY <2>4, <2>5
<1>9. n \in I
  <2>. HIDE DEF I
  <2>. QED  BY <1>2, <1>7, <1>8, Reaching!StepsReach
<1>10. /\ from \in Level(n) /\ Level(n) \subseteq nodes
       /\ Full(n) \/ Cardinality(Level(n)) > n
  BY <1>9
<1>11. Cardinality(Level(n)) <= n /\ Cardinality(Level(n)) \in Nat
  <2>1. Level(n) \in SUBSET NodeIds
    BY <1>6, <1>10
  <2>. HIDE DEF Level
  <2>. QED  BY <1>1, <1>6, <2>1, FS_Subset, FS_CardinalityType
<1>12. Full(n)
  <2>. HIDE DEF Level, Full
  <2>. QED  BY <1>2, <1>10, <1>11
<1>. QED  BY <1>2, <1>10, <1>12

-----------------------------------------------------------------------------
(***************************************************************************)
(* What a load makes of a file is sound, and it keeps what it can.         *)
(***************************************************************************)
\* Bindings and subscriptions out of a graph.
CutFrom(e, d, bad, lone) ==
    /\ d.nodes = e.nodes /\ d.stubs = e.stubs
    /\ DOMAIN d.bindings = DOMAIN e.bindings \ bad
    /\ \A i \in DOMAIN d.bindings : d.bindings[i] = e.bindings[i]
    /\ d.subs = e.subs \ lone

\* What those passes take out.
Dangling(e) == {i \in DOMAIN e.bindings : ~EndsHeld(e, i, e.bindings[i])}
Loose(e) == {s \in e.subs : ~SubEndsHeld(e, s)}
Refused(e) == {i \in DOMAIN e.bindings : ~Admits(i, e.bindings[i])}
RefusedSubs(e) == {s \in e.subs : ~AdmitsSub(s[1], s[2])}

\* What the first pass and those that cut the graph leave of a document.
LEMMA PassesLeave ==
    ASSUME NEW load, NEW e, e = load.doc, IsDocument(e)
    PROVE  /\ LET d == DropDuplicateStubs(load).doc
              IN  /\ d.nodes = e.nodes /\ d.bindings = e.bindings
                  /\ DOMAIN d.stubs = DOMAIN e.stubs \ DOMAIN e.nodes
           /\ CutFrom(e, DropDangling(load).doc, Dangling(e), Loose(e))
           /\ CutFrom(e, DropRefused(load).doc, Refused(e), RefusedSubs(e))
           /\ DropClosing(load).doc.bindings = Drop(e.bindings, ClosingWires(e))
           /\ CutFrom(e, DropClosing(load).doc, ClosingWires(e), {})
<1>1. e = [nodes |-> e.nodes, bindings |-> e.bindings, subs |-> e.subs,
           stubs |-> e.stubs, place |-> e.place, ties |-> e.ties,
           routes |-> e.routes, selected |-> e.selected,
           tabs |-> e.tabs, viewport |-> e.viewport]
  BY Zenon, PartsOf
<1>2. ASSUME NEW bad, NEW lone, NEW bindings, bindings = Drop(e.bindings, bad),
             NEW subs, subs = e.subs \ lone,
             NEW d, d = [e EXCEPT !.bindings = bindings, !.subs = subs]
      PROVE  CutFrom(e, d, bad, lone)
  <2>1. /\ d.nodes = e.nodes /\ d.stubs = e.stubs /\ d.bindings = bindings
        /\ d.subs = e.subs \ lone
    BY <1>1, <1>2
  <2>2. DOMAIN bindings = DOMAIN e.bindings \ bad /\ \A i \in DOMAIN bindings : bindings[i] = e.bindings[i]
    BY <1>2 DEF Drop
  <2>. QED  BY <2>1, <2>2 DEF CutFrom
<1>3. LET d == DropDuplicateStubs(load).doc
      IN  /\ d.nodes = e.nodes /\ d.bindings = e.bindings
          /\ DOMAIN d.stubs = DOMAIN e.stubs \ DOMAIN e.nodes
  <2>1. PICK stubs : stubs = Drop(e.stubs, DOMAIN e.stubs \cap DOMAIN e.nodes)
    OBVIOUS
  <2>2. PICK d : d = [e EXCEPT !.stubs = stubs]
    OBVIOUS
  <2>3. d.nodes = e.nodes /\ d.bindings = e.bindings /\ d.stubs = stubs
    BY <1>1, <2>2
  <2>4. DOMAIN stubs = DOMAIN e.stubs \ DOMAIN e.nodes
    BY <2>1 DEF Drop
  <2>5. DropDuplicateStubs(load).doc = d
    BY <2>1, <2>2 DEF DropDuplicateStubs, Repaired
  <2>. QED  BY Zenon, <2>3, <2>4, <2>5
<1>4. \A d, r : Repaired(load, d, r).doc = d
  BY DEF Repaired
<1>5. CutFrom(e, DropDangling(load).doc, Dangling(e), Loose(e))
  <2>1. PICK bad : bad = Dangling(e)
    OBVIOUS
  <2>2. PICK lone : lone = Loose(e)
    OBVIOUS
  <2>3. PICK bindings, subs : bindings = Drop(e.bindings, bad) /\ subs = e.subs \ lone
    OBVIOUS
  <2>4. PICK d : d = [e EXCEPT !.bindings = bindings, !.subs = subs]
    OBVIOUS
  <2>5. PICK repairs : repairs = {<<"danglingBinding", i>> : i \in bad}
                                     \cup {<<"danglingSubscription", s>> : s \in lone}
    OBVIOUS
  <2>6. CutFrom(e, d, bad, lone)
    BY Zenon, <1>2, <2>3, <2>4
  <2>7. DropDangling(load) = Repaired(load, d, repairs)
    BY Zenon, <2>1, <2>2, <2>3, <2>4, <2>5 DEF DropDangling, Dangling, Loose
  <2>. QED  BY Zenon, <1>4, <2>1, <2>2, <2>6, <2>7
<1>6. CutFrom(e, DropRefused(load).doc, Refused(e), RefusedSubs(e))
  <2>1. PICK bad : bad = Refused(e)
    OBVIOUS
  <2>2. PICK lone : lone = RefusedSubs(e)
    OBVIOUS
  <2>3. PICK bindings, subs : bindings = Drop(e.bindings, bad) /\ subs = e.subs \ lone
    OBVIOUS
  <2>4. PICK d : d = [e EXCEPT !.bindings = bindings, !.subs = subs]
    OBVIOUS
  <2>5. PICK repairs : repairs = {<<"rejectedBinding", i>> : i \in bad}
                                     \cup {<<"rejectedSubscription", s>> : s \in lone}
    OBVIOUS
  <2>6. CutFrom(e, d, bad, lone)
    BY Zenon, <1>2, <2>3, <2>4
  <2>7. DropRefused(load) = Repaired(load, d, repairs)
    BY Zenon, <2>1, <2>2, <2>3, <2>4, <2>5 DEF DropRefused, Refused, RefusedSubs
  <2>. QED  BY Zenon, <1>4, <2>1, <2>2, <2>6, <2>7
<1>7. /\ DropClosing(load).doc.bindings = Drop(e.bindings, ClosingWires(e))
      /\ CutFrom(e, DropClosing(load).doc, ClosingWires(e), {})
  <2>1. PICK bindings : bindings = Drop(e.bindings, ClosingWires(e))
    OBVIOUS
  <2>2. PICK d : d = [e EXCEPT !.bindings = bindings]
    OBVIOUS
  <2>3. CutFrom(e, d, ClosingWires(e), {}) /\ d.bindings = bindings
    <3>1. /\ d.nodes = e.nodes /\ d.stubs = e.stubs /\ d.bindings = bindings
          /\ d.subs = e.subs \ {}
      BY <1>1, <2>2
    <3>. QED  BY <2>1, <3>1 DEF CutFrom, Drop
  <2>4. DropClosing(load).doc = d
    BY Zenon, <1>4, <2>1, <2>2 DEF DropClosing
  <2>. QED  BY Zenon, <2>1, <2>3, <2>4
<1>. QED  BY Zenon, <1>3, <1>5, <1>6, <1>7

\* The wires that do not close a cycle form none, and the consumer of one that
\* does is upstream of its producer over them.
LEMMA ClosingLeavesNoCycle ==
    ASSUME NEW e, NEW nodes, nodes = DOMAIN e.nodes, IsGraph(nodes, e.bindings),
           NEW closing, closing = ClosingWires(e),
           NEW d, d.bindings = Drop(e.bindings, closing)
    PROVE  /\ GraphIsAcyclic(d) /\ closing \subseteq WiresIn(e.bindings)
           /\ \A i \in closing : i[1] \in Upstream(d.bindings, e.bindings[i][2])
<1>1. PICK all, kept : all = e.bindings /\ kept = d.bindings
  OBVIOUS
<1>2. PICK rank \in [nodes -> Nat] : IsKeptGraph(nodes, all, rank, closing)
  BY Zenon, <1>1, ClosingWiresCloseCycles
<1>3. /\ IsFiniteSet(DOMAIN all)
      /\ \A i \in WiresIn(all) : i[1] \in nodes /\ all[i][2] \in nodes /\ i \in DeclaredInputs(i[1])
  BY <1>1 DEF IsGraph
<1>4. /\ DOMAIN kept = DOMAIN all \ closing
      /\ WiresIn(kept) = WiresIn(all) \ closing
      /\ \A i \in DOMAIN kept : kept[i] = all[i]
  BY <1>1 DEF Drop, WiresIn
<1>5. IsGraph(nodes, kept)
  <2>1. IsFiniteSet(DOMAIN kept)
    BY <1>3, <1>4, FS_Subset
  <2>. QED  BY <1>3, <1>4, <2>1 DEF IsGraph, WiresIn
<1>6. ASSUME NEW i \in DOMAIN kept, IsWire(kept[i])
      PROVE  i[1] \notin Upstream(kept, kept[i][2])
  <2>1. PICK from : from = kept[i][2]
    OBVIOUS
  <2>2. i \in WiresIn(all) \ closing
    BY <1>4, <1>6 DEF WiresIn
  <2>3. from \in nodes /\ i[1] \in nodes /\ rank[from] < rank[i[1]]
    BY <1>2, <1>3, <1>4, <1>6, <2>1, <2>2 DEF IsKeptGraph
  <2>4. PICK X : X = {n \in nodes : rank[n] <= rank[from]}
    OBVIOUS
  <2>5. Feeding(kept, X) \subseteq X
    <3>1. SUFFICES ASSUME NEW j \in DOMAIN kept, IsWire(kept[j]), j[1] \in X
                   PROVE  kept[j][2] \in X
      BY DEF Feeding
    <3>2. j \in WiresIn(all) \ closing /\ kept[j] = all[j]
      BY <1>4, <3>1 DEF WiresIn
    <3>3. /\ all[j][2] \in nodes /\ j[1] \in nodes
          /\ rank[all[j][2]] < rank[j[1]] /\ rank[j[1]] <= rank[from]
      BY <1>2, <1>3, <2>4, <3>1, <3>2 DEF IsKeptGraph
    <3>. QED  BY <2>3, <2>4, <3>2, <3>3
  <2>6. from \in X
    BY <2>3, <2>4
  <2>7. Upstream(kept, from) \subseteq X
    BY Zenon, <2>5, <2>6, UpstreamIsWithin
  <2>. QED  BY <2>1, <2>3, <2>4, <2>7
<1>7. ASSUME NEW i \in closing PROVE i[1] \in Upstream(kept, all[i][2])
  <2>1. PICK from : from = all[i][2]
    OBVIOUS
  <2>2. from \in nodes /\ Reaches(WiresIn(all) \ closing, all, nodes, from, i[1])
    BY <1>2, <1>3, <1>7, <2>1 DEF IsKeptGraph
  <2>3. PICK U : U = Upstream(kept, from)
    OBVIOUS
  <2>4. from \in U /\ Feeding(kept, U) \subseteq U /\ U \in SUBSET nodes
    BY <1>5, <2>2, <2>3, UpstreamIsClosed
  <2>5. ASSUME NEW j \in WiresIn(all) \ closing, j[1] \in U PROVE all[j][2] \in U
    <3>1. j \in DOMAIN kept /\ IsWire(kept[j]) /\ kept[j] = all[j]
      BY <1>4, <2>5 DEF WiresIn
    <3>. QED  BY <2>4, <2>5, <3>1 DEF Feeding
  <2>. QED  BY Zenon, <2>1, <2>2, <2>3, <2>4, <2>5 DEF Reaches
<1>8. GraphIsAcyclic(d)
  BY Zenon, <1>1, <1>6 DEF GraphIsAcyclic
<1>. QED  BY Zenon, <1>1, <1>2, <1>7, <1>8 DEF IsKeptGraph

\* Graph::reconcile, pass by pass: what it leaves holds together, is admitted
\* and has no cycle; and a wire it drops had lost an end, is refused, or closes
\* a cycle of what is left.
KeepsWhatItCan(e, d) ==
    /\ Ids(d) = Ids(e)
    /\ \A i \in DOMAIN e.bindings \ DOMAIN d.bindings :
          EndsHeld(d, i, e.bindings[i]) /\ Admits(i, e.bindings[i])
          => i[1] \in Upstream(d.bindings, e.bindings[i][2])
LEMMA GraphIsReconciled ==
    ASSUME NEW doc, NEW load, Loads(doc, load), NEW a, a = load.doc,
           NEW lib, lib \subseteq NodeIds, DOMAIN a.nodes \cap DOMAIN a.stubs = {},
           NEW d, d = ReconcileGraph(load, lib).doc
    PROVE  /\ GraphHoldsTogether(d) /\ GraphIsAdmitted(d) /\ GraphIsAcyclic(d)
           /\ DOMAIN d.nodes \cap DOMAIN d.stubs = {} /\ DOMAIN d.nodes \subseteq lib
           /\ KeepsWhatItCan(a, d)
<1>1. PICK l2 : l2 = DropDangling(load)
  OBVIOUS
<1>2. PICK l3 : l3 = StubUnresolved(l2, lib)
  OBVIOUS
<1>3. PICK l4 : l4 = DropRefused(l3)
  OBVIOUS
<1>4. PICK b, c, e : b = l2.doc /\ c = l3.doc /\ e = l4.doc
  OBVIOUS
<1>5. d = DropClosing(l4).doc
  BY Zenon, <1>1, <1>2, <1>3 DEF ReconcileGraph
<1>6. Loads(doc, l2) /\ Loads(doc, l3) /\ Loads(doc, l4)
  BY Zenon, <1>1, <1>2, <1>3, DropDanglingLoads, StubUnresolvedLoads, DropRefusedLoads
<1>7. IsDocument(a) /\ IsDocument(b) /\ IsDocument(c) /\ IsDocument(e)
  BY Zenon, <1>4, <1>6 DEF Loads
<1>8. CutFrom(a, b, Dangling(a), Loose(a))
  BY Zenon, <1>1, <1>4, <1>7, PassesLeave
<1>9. StubsOut(b, c, DOMAIN b.nodes \ lib)
  BY Zenon, <1>2, <1>4, <1>6, StubUnresolvedLoads
<1>10. CutFrom(c, e, Refused(c), RefusedSubs(c))
  BY Zenon, <1>3, <1>4, <1>7, PassesLeave
<1>11. PICK closing : closing = ClosingWires(e)
  OBVIOUS
<1>12. d.bindings = Drop(e.bindings, closing) /\ CutFrom(e, d, closing, {})
  <2>1. /\ DropClosing(l4).doc.bindings = Drop(e.bindings, ClosingWires(e))
        /\ CutFrom(e, DropClosing(l4).doc, ClosingWires(e), {})
    BY Zenon, <1>4, <1>7, PassesLeave
  <2>. QED  BY Zenon, <1>5, <1>11, <2>1
<1>13. /\ d.nodes = e.nodes /\ e.nodes = c.nodes /\ b.nodes = a.nodes
       /\ d.stubs = e.stubs /\ e.stubs = c.stubs /\ b.stubs = a.stubs
       /\ DOMAIN c.nodes = DOMAIN a.nodes \cap lib
       /\ DOMAIN c.stubs = DOMAIN a.stubs \cup (DOMAIN a.nodes \ lib)
  BY <1>8, <1>9, <1>10, <1>12 DEF CutFrom, StubsOut
<1>14. ASSUME NEW i
       PROVE  /\ i \in DOMAIN c.bindings <=> i \in DOMAIN a.bindings /\ EndsHeld(d, i, a.bindings[i])
              /\ i \in DOMAIN c.bindings => c.bindings[i] = a.bindings[i]
  <2>1. /\ i \in DOMAIN b.bindings <=> i \in DOMAIN a.bindings /\ EndsHeld(a, i, a.bindings[i])
        /\ i \in DOMAIN b.bindings => b.bindings[i] = a.bindings[i]
    BY <1>8 DEF CutFrom, Dangling
  <2>2. /\ i \in DOMAIN c.bindings <=>
             /\ i \in DOMAIN b.bindings
             /\ \A x \in DOMAIN b.nodes \ lib : ~BindingTouches(i, b.bindings[i], x)
        /\ i \in DOMAIN c.bindings => c.bindings[i] = b.bindings[i]
    BY Zenon, <1>9 DEF StubsOut
  <2>3. i \in DOMAIN a.bindings =>
          (EndsHeld(d, i, a.bindings[i]) <=>
             /\ EndsHeld(a, i, a.bindings[i])
             /\ \A x \in DOMAIN b.nodes \ lib : ~BindingTouches(i, a.bindings[i], x))
    BY <1>13 DEF EndsHeld, BindingTouches
  <2>. QED  BY <2>1, <2>2, <2>3
<1>15. ASSUME NEW s
       PROVE  s \in d.subs <=> s \in a.subs /\ SubEndsHeld(d, s) /\ AdmitsSub(s[1], s[2])
  <2>1. s \in b.subs <=> s \in a.subs /\ SubEndsHeld(a, s)
    BY <1>8 DEF CutFrom, Loose
  <2>2. s \in c.subs <=> s \in b.subs /\ \A x \in DOMAIN b.nodes \ lib : x \notin {s[1], s[2]}
    BY Zenon, <1>9 DEF StubsOut
  <2>3. s \in d.subs <=> s \in c.subs /\ AdmitsSub(s[1], s[2])
    BY <1>10, <1>12 DEF CutFrom, RefusedSubs
  <2>4. SubEndsHeld(d, s) <=>
          SubEndsHeld(a, s) /\ \A x \in DOMAIN b.nodes \ lib : x \notin {s[1], s[2]}
    BY <1>13 DEF SubEndsHeld
  <2>. QED  BY <2>1, <2>2, <2>3, <2>4
<1>16. ASSUME NEW i
       PROVE  /\ i \in DOMAIN e.bindings <=>
                   /\ i \in DOMAIN a.bindings
                   /\ EndsHeld(d, i, a.bindings[i]) /\ Admits(i, a.bindings[i])
              /\ i \in DOMAIN e.bindings => e.bindings[i] = a.bindings[i]
  BY <1>10, <1>14 DEF CutFrom, Refused
<1>17. IsGraph(DOMAIN e.nodes, e.bindings)
  <2>1. IsFiniteSet(DOMAIN e.bindings)
    BY Zenon, <1>7, DocumentParts DEF IsFiniteMap
  <2>2. DOMAIN e.nodes \subseteq NodeIds
    BY <1>13
  <2>3. ASSUME NEW i \in WiresIn(e.bindings)
        PROVE  /\ i[1] \in DOMAIN e.nodes /\ e.bindings[i][2] \in DOMAIN e.nodes
               /\ i \in DeclaredInputs(i[1])
    BY <1>13, <1>16 DEF WiresIn, EndsHeld, Admits
  <2>. QED  BY <2>1, <2>2, <2>3 DEF IsGraph
<1>18. /\ GraphIsAcyclic(d) /\ closing \subseteq WiresIn(e.bindings)
       /\ \A i \in closing : i[1] \in Upstream(d.bindings, e.bindings[i][2])
  BY Zenon, <1>11, <1>12, <1>17, ClosingLeavesNoCycle
<1>19. \A i : /\ i \in DOMAIN d.bindings <=> i \in DOMAIN e.bindings /\ i \notin closing
              /\ i \in DOMAIN d.bindings => d.bindings[i] = e.bindings[i]
  BY <1>12 DEF CutFrom
<1>20. GraphHoldsTogether(d)
  <2>1. \A i \in DOMAIN d.bindings : EndsHeld(d, i, d.bindings[i])
    BY <1>16, <1>19
  <2>2. \A s \in d.subs : SubEndsHeld(d, s)
    BY <1>15
  <2>. QED  BY Zenon, <2>1, <2>2 DEF GraphHoldsTogether, EndsHeld, SubEndsHeld
<1>21. GraphIsAdmitted(d)
  <2>1. \A i \in DOMAIN d.bindings : Admits(i, d.bindings[i])
    BY <1>16, <1>19
  <2>. QED  BY <1>15, <2>1 DEF GraphIsAdmitted
<1>22. KeepsWhatItCan(a, d)
  <2>1. Ids(d) = Ids(a)
    BY <1>13 DEF Ids
  <2>2. ASSUME NEW i \in DOMAIN a.bindings \ DOMAIN d.bindings,
               EndsHeld(d, i, a.bindings[i]), Admits(i, a.bindings[i])
        PROVE  i[1] \in Upstream(d.bindings, a.bindings[i][2])
    BY <1>16, <1>18, <1>19, <2>2
  <2>. QED  BY <2>1, <2>2 DEF KeepsWhatItCan
<1>. QED  BY <1>13, <1>18, <1>20, <1>21, <1>22

\* A document of the same graph, and routes that hold.
SameGraph(d, e) ==
    d.nodes = e.nodes /\ d.stubs = e.stubs /\ d.bindings = e.bindings /\ d.subs = e.subs
RoutesHold(d) ==
    \A w \in DOMAIN d.routes :
        /\ IsHeld(w, d.bindings, d.subs) /\ d.routes[w] # <<>>
        /\ IsInjective(d.routes[w]) /\ ToSet(d.routes[w]) \subseteq DOMAIN d.ties

\* repair_view: every node has a placement, and nothing else has.
LEMMA PlacementsAreRepaired ==
    ASSUME NEW load, NEW e, e = load.doc, IsDocument(e),
           NEW d, d = RepairPlacements(load).doc
    PROVE  SameGraph(d, e) /\ ViewPlacesTheNodes(d)
<1>1. PICK lost : lost = DOMAIN e.place \ Ids(e)
  OBVIOUS
<1>2. PICK drawn : drawn = [n \in DOMAIN e.place \ lost |->
               IF n \in {m \in DOMAIN e.place \ lost : e.place[m].pos = NotFinite}
               THEN [e.place[n] EXCEPT !.pos = 0] ELSE e.place[n]]
  OBVIOUS
<1>3. PICK added : added = [n \in Ids(e) \ DOMAIN e.place |-> [pos |-> 0, z |-> 0]]
  OBVIOUS
<1>4. PICK place : place = Merge(drawn, added)
  OBVIOUS
<1>5. d = [e EXCEPT !.place = place]
  BY Zenon, <1>1, <1>2, <1>3, <1>4 DEF RepairPlacements, Repaired
<1>6. DOMAIN place = Ids(e)
  BY <1>1, <1>2, <1>3, <1>4 DEF Merge
<1>7. SameGraph(d, e) /\ d.place = place
  BY <1>5, PartsOf DEF SameGraph
<1>. QED  BY <1>6, <1>7 DEF SameGraph, ViewPlacesTheNodes, Ids

\* repair_ties: each route left is of a wire there is, through ties there are.
LEMMA RoutesAreRepaired ==
    ASSUME NEW load, NEW e, e = load.doc, IsDocument(e), ViewPlacesTheNodes(e),
           NEW d, d = RepairRoutes(load).doc
    PROVE  SameGraph(d, e) /\ ViewPlacesTheNodes(d) /\ RoutesHold(d)
<1>1. PICK steps : steps = [w \in DOMAIN e.routes |->
                     IF IsHeld(w, e.bindings, e.subs)
                     THEN KeptSteps(e.routes[w], DOMAIN e.ties) ELSE <<>>]
  OBVIOUS
<1>2. PICK routes : routes = Drop(steps, {w \in DOMAIN steps : steps[w] = <<>>})
  OBVIOUS
<1>3. d = [e EXCEPT !.routes = routes]
  BY Zenon, <1>1, <1>2 DEF RepairRoutes, Repaired
<1>4. /\ SameGraph(d, e) /\ d.routes = routes /\ d.ties = e.ties /\ d.place = e.place
  BY <1>3, PartsOf DEF SameGraph
<1>5. ASSUME NEW w \in DOMAIN routes
      PROVE  /\ IsHeld(w, e.bindings, e.subs) /\ routes[w] # <<>>
             /\ IsInjective(routes[w]) /\ ToSet(routes[w]) \subseteq DOMAIN e.ties
  <2>1. w \in DOMAIN e.routes /\ routes[w] = steps[w] /\ steps[w] # <<>>
    BY <1>1, <1>2 DEF Drop
  <2>2. IsHeld(w, e.bindings, e.subs) /\ routes[w] = KeptSteps(e.routes[w], DOMAIN e.ties)
    BY <1>1, <2>1
  <2>3. IsRoute(e.routes[w])
    BY Zenon, <2>1, DocumentParts DEF AreRoutes
  <2>4. PICK kept : kept = KeptSteps(e.routes[w], DOMAIN e.ties)
    OBVIOUS
  <2>5. IsInjective(kept) /\ ToSet(kept) \subseteq DOMAIN e.ties
    BY Zenon, <2>3, <2>4, KeptStepsKept
  <2>6. routes[w] = kept
    BY <2>2, <2>4
  <2>. QED  BY <2>1, <2>2, <2>5, <2>6
<1>. QED  BY Zenon, <1>4, <1>5 DEF SameGraph, ViewPlacesTheNodes, RoutesHold, Ids

\* It leaves no tie without a wire through it, and each route keeps its ties.
LEMMA TiesAreRepaired ==
    ASSUME NEW load, NEW e, e = load.doc, IsDocument(e), ViewPlacesTheNodes(e), RoutesHold(e),
           NEW d, d = RepairTies(load).doc
    PROVE  SameGraph(d, e) /\ ViewPlacesTheNodes(d) /\ TiesHoldWires(d)
<1>1. PICK bare : bare = {t \in DOMAIN e.ties : Through(e.routes, t) = {}}
  OBVIOUS
<1>2. PICK ties : ties = [t \in DOMAIN e.ties \ bare |->
               IF t \in {u \in DOMAIN e.ties \ bare : e.ties[u].pos = NotFinite}
               THEN [e.ties[t] EXCEPT !.pos = 0] ELSE e.ties[t]]
  OBVIOUS
<1>3. d = [e EXCEPT !.ties = ties] /\ DOMAIN ties = DOMAIN e.ties \ bare
  BY Zenon, <1>1, <1>2 DEF RepairTies, Repaired
<1>4. /\ SameGraph(d, e) /\ d.routes = e.routes /\ d.ties = ties /\ d.place = e.place
  BY <1>3, PartsOf DEF SameGraph
<1>5. \A w \in DOMAIN e.routes : ToSet(e.routes[w]) \subseteq DOMAIN ties
  BY <1>1, <1>3 DEF RoutesHold, Through
<1>. QED  BY Zenon, <1>1, <1>3, <1>4, <1>5
             DEF SameGraph, ViewPlacesTheNodes, RoutesHold, TiesHoldWires, Ids

\* repair_view: what is selected is there.
LEMMA SelectionIsRepaired ==
    ASSUME NEW load, NEW e, e = load.doc, IsDocument(e), ViewPlacesTheNodes(e), TiesHoldWires(e),
           NEW d, d = RepairSelection(load).doc
    PROVE  SameGraph(d, e) /\ ViewPlacesTheNodes(d) /\ TiesHoldWires(d) /\ SelectionIsHeld(d)
<1>1. PICK gone : gone = {item \in e.selected : ~Holds(e, item)}
  OBVIOUS
<1>2. PICK selected : selected = e.selected \ gone
  OBVIOUS
<1>3. d = [e EXCEPT !.selected = selected]
  BY Zenon, <1>1, <1>2 DEF RepairSelection, Repaired
<1>4. \A item \in selected : Holds(e, item)
  BY <1>1, <1>2
<1>5. /\ SameGraph(d, e) /\ d.routes = e.routes /\ d.ties = e.ties /\ d.place = e.place
      /\ d.selected = selected
  BY <1>3, PartsOf DEF SameGraph
<1>. QED  BY Zenon, <1>4, <1>5
             DEF SameGraph, ViewPlacesTheNodes, TiesHoldWires, SelectionIsHeld, Holds, Ids

\* repair_layout: each tab shows a preview node that is there.
LEMMA LayoutIsRepaired ==
    ASSUME NEW load, NEW e, e = load.doc, IsDocument(e), ViewPlacesTheNodes(e), TiesHoldWires(e),
           SelectionIsHeld(e), NEW d, d = RepairLayout(load).doc
    PROVE  /\ SameGraph(d, e) /\ ViewPlacesTheNodes(d) /\ TiesHoldWires(d)
           /\ SelectionIsHeld(d) /\ TabsAreHeld(d)
<1>1. PICK tabs : d = [e EXCEPT !.tabs = tabs] /\ tabs \subseteq DOMAIN e.nodes \cap Previews
  BY DEF RepairLayout, Repaired
<1>2. /\ SameGraph(d, e) /\ d.routes = e.routes /\ d.ties = e.ties /\ d.place = e.place
      /\ d.selected = e.selected /\ d.tabs = tabs
  BY <1>1, PartsOf DEF SameGraph
<1>. QED  BY Zenon, <1>1, <1>2 DEF SameGraph, ViewPlacesTheNodes, TiesHoldWires,
             SelectionIsHeld, TabsAreHeld, Holds, Ids

\* Whatever document a file holds, a load makes a valid one of it that compiles
\* for the library it met, and drops no more than it has to.
LEMMA ReconcileIsSound ==
    ASSUME NEW doc, IsDocument(doc), NEW lib, lib \subseteq NodeIds,
           NEW d, d = Reconcile(doc, lib).doc
    PROVE  /\ IsValid(d) /\ Compiles(d) /\ DOMAIN d.nodes \subseteq lib
           /\ KeepsWhatItCan(doc, d)
<1>1. Loads(doc, Decoded(doc)) /\ Decoded(doc).doc = doc
  <2>1. PICK load : load = Decoded(doc)
    OBVIOUS
  <2>2. load.doc = doc /\ load = LoadOf(load.doc, load.repairs)
    BY <2>1 DEF Decoded, LoadOf
  <2>. QED  BY Zenon, <2>1, <2>2 DEF Loads
<1>2. PICK l1 : l1 = DropDuplicateStubs(Decoded(doc))
  OBVIOUS
<1>3. PICK l2 : l2 = ReattachStubs(l1, lib)
  OBVIOUS
<1>4. PICK l3 : l3 = ReconcileGraph(l2, lib)
  OBVIOUS
<1>5. PICK l4 : l4 = RepairViewport(l3)
  OBVIOUS
<1>6. PICK l5 : l5 = RepairPlacements(l4)
  OBVIOUS
<1>7. PICK l6 : l6 = RepairRoutes(l5)
  OBVIOUS
<1>8. PICK l7 : l7 = RepairTies(l6)
  OBVIOUS
<1>9. PICK l8 : l8 = RepairSelection(l7)
  OBVIOUS
<1>10. d = RepairLayout(l8).doc
  BY Zenon, <1>2, <1>3, <1>4, <1>5, <1>6, <1>7, <1>8, <1>9 DEF Reconcile, RepairView
<1>11. Loads(doc, l1) /\ Loads(doc, l2) /\ Loads(doc, l3) /\ Loads(doc, l4)
  BY Zenon, <1>1, <1>2, <1>3, <1>4, <1>5, DropDuplicateStubsLoads, ReattachStubsLoads,
     DropDanglingLoads, StubUnresolvedLoads, DropRefusedLoads, DropClosingLoads,
     RepairViewportLoads DEF ReconcileGraph
<1>12. Loads(doc, l5) /\ Loads(doc, l6) /\ Loads(doc, l7) /\ Loads(doc, l8)
  BY Zenon, <1>6, <1>7, <1>8, <1>9, <1>11, RepairPlacementsLoads, RepairRoutesLoads,
     RepairTiesLoads, RepairSelectionLoads
<1>13. PICK a1, a2, a3, a4, a5, a6, a7, a8 :
         /\ a1 = l1.doc /\ a2 = l2.doc /\ a3 = l3.doc /\ a4 = l4.doc
         /\ a5 = l5.doc /\ a6 = l6.doc /\ a7 = l7.doc /\ a8 = l8.doc
  OBVIOUS
<1>14. /\ IsDocument(a3) /\ IsDocument(a4) /\ IsDocument(a5) /\ IsDocument(a6)
       /\ IsDocument(a7) /\ IsDocument(a8)
  BY Zenon, <1>11, <1>12, <1>13 DEF Loads
<1>15. /\ a1.nodes = doc.nodes /\ a1.bindings = doc.bindings
       /\ DOMAIN a1.stubs = DOMAIN doc.stubs \ DOMAIN doc.nodes
  BY Zenon, <1>1, <1>2, <1>13, PassesLeave
<1>16. Returns(a1, a2, lib)
  BY Zenon, <1>3, <1>11, <1>13, ReattachStubsLoads
<1>17. DOMAIN a2.nodes \cap DOMAIN a2.stubs = {}
  BY <1>15, <1>16 DEF Returns
<1>18. /\ GraphHoldsTogether(a3) /\ GraphIsAdmitted(a3) /\ GraphIsAcyclic(a3)
       /\ DOMAIN a3.nodes \cap DOMAIN a3.stubs = {} /\ DOMAIN a3.nodes \subseteq lib
       /\ KeepsWhatItCan(a2, a3)
  BY Zenon, <1>4, <1>11, <1>13, <1>17, GraphIsReconciled
<1>19. SameGraph(a4, a3)
  BY <1>5, <1>13, <1>14, PartsOf DEF RepairViewport, Repaired, SameGraph
<1>20. SameGraph(a5, a4) /\ ViewPlacesTheNodes(a5)
  BY Zenon, <1>6, <1>13, <1>14, PlacementsAreRepaired
<1>21. SameGraph(a6, a5) /\ ViewPlacesTheNodes(a6) /\ RoutesHold(a6)
  BY Zenon, <1>7, <1>13, <1>14, <1>20, RoutesAreRepaired
<1>22. SameGraph(a7, a6) /\ ViewPlacesTheNodes(a7) /\ TiesHoldWires(a7)
  BY Zenon, <1>8, <1>13, <1>14, <1>21, TiesAreRepaired
<1>23. /\ SameGraph(a8, a7) /\ ViewPlacesTheNodes(a8) /\ TiesHoldWires(a8)
       /\ SelectionIsHeld(a8)
  BY Zenon, <1>9, <1>13, <1>14, <1>22, SelectionIsRepaired
<1>24. /\ SameGraph(d, a8) /\ ViewPlacesTheNodes(d) /\ TiesHoldWires(d)
       /\ SelectionIsHeld(d) /\ TabsAreHeld(d)
  BY Zenon, <1>10, <1>13, <1>14, <1>23, LayoutIsRepaired
<1>25. SameGraph(d, a3)
  BY <1>19, <1>20, <1>21, <1>22, <1>23, <1>24 DEF SameGraph
<1>26. GraphHoldsTogether(d) /\ Compiles(d) /\ DOMAIN d.nodes \cap DOMAIN d.stubs = {}
  BY Zenon, <1>18, <1>25 DEF SameGraph, GraphHoldsTogether, Compiles, GraphIsAdmitted,
     GraphIsAcyclic
<1>27. KeepsWhatItCan(doc, d)
  <2>1. Ids(d) = Ids(doc)
    BY <1>15, <1>16, <1>18, <1>25 DEF Returns, KeepsWhatItCan, SameGraph, Ids
  <2>2. ASSUME NEW i \in DOMAIN doc.bindings \ DOMAIN d.bindings,
               EndsHeld(d, i, doc.bindings[i]), Admits(i, doc.bindings[i])
        PROVE  i[1] \in Upstream(d.bindings, doc.bindings[i][2])
    <3>1. i \in DOMAIN a2.bindings /\ a2.bindings[i] = doc.bindings[i]
      BY <1>15, <1>16 DEF Returns, KeepsBindings
    <3>2. EndsHeld(a3, i, a2.bindings[i]) /\ i \notin DOMAIN a3.bindings
      BY <1>25, <2>2, <3>1 DEF EndsHeld, SameGraph
    <3>. QED  BY <1>18, <1>25, <2>2, <3>1, <3>2 DEF KeepsWhatItCan, SameGraph
  <2>. QED  BY <2>1, <2>2 DEF KeepsWhatItCan
<1>. QED  BY <1>18, <1>24, <1>25, <1>26, <1>27 DEF IsValid, SameGraph

-----------------------------------------------------------------------------
(***************************************************************************)
(* The invariant: the document and its file are documents, the history is  *)
(* sound, the canvas has raised requests, and what the signals of an       *)
(* unfinished commit do not say has not changed.                           *)
(***************************************************************************)
IsSettled == ~committing => signals = {}
DirtyTells ==
    dirty \/ "dirtied" \in signals \/ Content(document) = Content(file)
StampTells == "nodeSet" \in signals \/ stamp = Ids(document)
IInv ==
    /\ IsDocument(document) /\ IsDocument(file)
    /\ IsHistory(history) /\ HistoryIsSound(history)
    /\ CanvasHolds
    /\ DirtyTells /\ StampTells /\ IsSettled

\* More signals cover more.
LEMMA SameMore ==
    ASSUME NEW before, NEW after, NEW folded, NEW more, Same(before, after, more)
    PROVE  Same(before, after, folded \cup more)
  BY DEF Same

\* What a batch led to is covered by its own signals.
LEMMA BatchIsSame ==
    ASSUME NEW doc, NEW b, IsBatch(doc, b)
    PROVE  /\ IsDocument(b.doc) /\ IsSteps(b.steps)
           /\ Same(doc, b.doc, SignalsOf(b.steps))
<1>1. CoverAll(SignalsOf(b.steps), b.steps)
  BY Zenon, SignalsCover DEF CoverAll
<1>. QED  BY Zenon, <1>1 DEF IsBatch, Leads

\* The tells follow a document that changed as the folded signals say, and
\* land with them.
LEMMA TellsFollow ==
    ASSUME DirtyTells, StampTells, NEW folded, Same(document, document', folded),
           UNCHANGED <<dirty, stamp, file>>, signals' = signals \cup folded
    PROVE  DirtyTells' /\ StampTells'
<1>1. signals \subseteq signals' /\ folded \subseteq signals'
  OBVIOUS
<1>2. dirty' = dirty /\ stamp' = stamp /\ file' = file
  OBVIOUS
<1>3. "dirtied" \in folded \/ Content(document') = Content(document)
  BY Zenon DEF Same
<1>4. "nodeSet" \in folded \/ Ids(document') = Ids(document)
  BY Zenon DEF Same
<1>5. DirtyTells'
  <2>1. CASE dirty
    BY Zenon, <1>2, <2>1 DEF DirtyTells
  <2>2. CASE "dirtied" \in signals'
    BY Zenon, <2>2 DEF DirtyTells
  <2>3. CASE ~dirty /\ "dirtied" \notin signals'
    <3>1. /\ Content(document) = Content(file)
          /\ Content(document') = Content(document)
      BY Zenon, <1>1, <1>3, <2>3 DEF DirtyTells
    <3>. QED  BY Zenon, <1>2, <3>1 DEF DirtyTells
  <2>. QED  BY Zenon, <2>1, <2>2, <2>3
<1>6. StampTells'
  BY Zenon, <1>1, <1>2, <1>4 DEF StampTells
<1>. QED  BY <1>5, <1>6

\* They follow it too when the signals land with what was folded before.
LEMMA TellsLand ==
    ASSUME DirtyTells, StampTells, NEW folded, Same(document, document', folded),
           UNCHANGED file, Land(signals \cup folded)
    PROVE  DirtyTells' /\ StampTells'
<1>1. dirty' = (dirty \/ "dirtied" \in signals \cup folded)
  BY DEF Land
<1>2. DirtyTells'
  <2>1. CASE dirty \/ "dirtied" \in signals \cup folded
    BY <1>1, <2>1 DEF DirtyTells
  <2>2. CASE ~dirty /\ "dirtied" \notin signals \cup folded
    <3>1. Content(document) = Content(file) /\ "dirtied" \notin folded
      BY <2>2 DEF DirtyTells
    <3>2. Content(document') = Content(document)
      BY Zenon, <3>1 DEF Same
    <3>. QED  BY Zenon, <3>1, <3>2 DEF DirtyTells
  <2>. QED  BY <2>1, <2>2
<1>3. StampTells'
  <2>1. CASE "nodeSet" \in signals \cup folded
    BY <2>1 DEF Land, StampTells
  <2>2. CASE "nodeSet" \notin signals \cup folded
    <3>1. stamp' = stamp /\ stamp = Ids(document) /\ "nodeSet" \notin folded
      BY <2>2 DEF Land, StampTells
    <3>2. Ids(document') = Ids(document)
      BY Zenon, <3>1 DEF Same
    <3>. QED  BY <3>1, <3>2 DEF StampTells
  <2>. QED  BY <2>1, <2>2
<1>. QED  BY <1>2, <1>3

\* The canvas holds on while the gesture it holds and its numbers stay.
LEMMA CanvasStays ==
    ASSUME CanvasHolds, IsRequests(queue'), UNCHANGED <<held, line, lastGesture>>
    PROVE  CanvasHolds'
  BY DEF CanvasHolds, LineHolds

\* The two entries a commit makes: of a batch without cancels.
LEMMA RecordKeeps ==
    ASSUME IInv, NEW q, IsRequests(q), \A k \in DOMAIN q : q[k].kind # "cancel",
           NEW batch, batch = LandAll(document, q), Record(batch)
    PROVE  /\ IsDocument(document') /\ IsHistory(history') /\ HistoryIsSound(history')
           /\ Same(document, document', SignalsOf(batch.steps))
<1>1. IsDocument(document) /\ IsHistory(history) /\ HistoryIsSound(history)
  BY Zenon DEF IInv
<1>2. IsBatch(document, batch)
  BY Zenon, <1>1, LandAllKeeps
<1>3. /\ IsDocument(batch.doc) /\ IsSteps(batch.steps)
      /\ Same(document, batch.doc, SignalsOf(batch.steps))
  BY Zenon, <1>2, BatchIsSame
<1>4. Named(batch.gestures) = {} \/ \E id \in Nat : Named(batch.gestures) = {id}
  BY Zenon, <1>2, NamedIsGesture DEF IsBatch
<1>5. /\ document' = batch.doc
      /\ history' = Push(history, batch.steps, Named(batch.gestures))
  BY Zenon DEF Record
<1>6. IsHistory(history') /\ HistoryIsSound(history')
  BY Zenon, <1>1, <1>3, <1>4, <1>5, PushKeeps
<1>. QED  BY Zenon, <1>3, <1>5, <1>6

-----------------------------------------------------------------------------
\* Commit: the batch is recorded, and its signals land with those of the cut.
LEMMA CommitKeeps == ASSUME IInv, Commit PROVE IInv'
<1>1. /\ IsDocument(file) /\ CanvasHolds /\ DirtyTells /\ StampTells
  BY Zenon DEF IInv
<1>2. IsRequests(queue)
  BY Zenon, <1>1 DEF CanvasHolds
<1>3. \A k \in DOMAIN queue : queue[k].kind # "cancel"
  BY DEF Commit, Cancels
<1>4. PICK batch : /\ batch = LandAll(document, queue) /\ Record(batch)
                   /\ Land(signals \cup SignalsOf(batch.steps))
  BY Zenon DEF Commit
<1>5. /\ IsDocument(document') /\ IsHistory(history') /\ HistoryIsSound(history')
      /\ Same(document, document', SignalsOf(batch.steps))
  BY Zenon, <1>2, <1>3, <1>4, RecordKeeps
<1>6. /\ queue' = <<>> /\ signals' = {} /\ file' = file /\ held' = held /\ line' = line
      /\ lastGesture' = lastGesture
  BY DEF Commit, surface, disk
<1>7. DirtyTells' /\ StampTells'
  BY Zenon, <1>1, <1>4, <1>5, <1>6, TellsLand
<1>8. CanvasHolds'
  BY Zenon, <1>1, <1>6, RequestsJoin, CanvasStays
<1>9. IsSettled'
  BY Zenon, <1>6 DEF IsSettled
<1>. QED  BY Zenon, <1>1, <1>5, <1>6, <1>7, <1>8, <1>9 DEF IInv

\* CommitToCancel: what is before the cancel is recorded, its signals wait.
LEMMA CommitToCancelKeeps == ASSUME IInv, CommitToCancel PROVE IInv'
<1>1. /\ IsDocument(file) /\ CanvasHolds /\ DirtyTells /\ StampTells
  BY Zenon DEF IInv
<1>2. IsRequests(queue)
  BY Zenon, <1>1 DEF CanvasHolds
<1>. DEFINE k == CHOOSE c \in Cancels(queue) : \A d \in Cancels(queue) : c <= d
<1>3. /\ Len(queue) \in Nat /\ DOMAIN queue = 1..Len(queue)
  BY Zenon, <1>2, RequestsOfRequests
<1>4. /\ Cancels(queue) \subseteq 1..Len(queue) /\ Cancels(queue) # {}
  BY <1>3 DEF Cancels, CommitToCancel
<1>5. k \in Cancels(queue) /\ \A d \in Cancels(queue) : k <= d
  <2>1. \E c \in Cancels(queue) : \A d \in Cancels(queue) : c <= d
    <3>1. Cancels(queue) \subseteq Nat /\ Cancels(queue) # {}
      BY <1>3, <1>4
    <3>. QED  BY <3>1, Replay!LeastNatural
  <2>. QED  BY Zenon, <2>1
<1>6. PICK batch : /\ batch = LandAll(document, SubSeq(queue, 1, k - 1))
                   /\ Record(batch)
                   /\ signals' = signals \cup SignalsOf(batch.steps)
  BY Zenon DEF CommitToCancel
<1>7. /\ queue' = SubSeq(queue, k, Len(queue)) /\ committing' = TRUE
      /\ UNCHANGED <<dirty, stamp, file, held, line, lastGesture>>
  BY DEF CommitToCancel, surface, disk
<1>. HIDE DEF k
<1>8. /\ k \in 1..(Len(queue) + 1) /\ 1 \in 1..(Len(queue) + 1)
      /\ k - 1 \in 0..Len(queue) /\ Len(queue) \in 0..Len(queue)
  BY <1>3, <1>4, <1>5
<1>9. IsRequests(SubSeq(queue, 1, k - 1)) /\ IsRequests(queue')
  BY Zenon, <1>2, <1>7, <1>8, RequestsCut
<1>10. \A j \in DOMAIN SubSeq(queue, 1, k - 1) :
          SubSeq(queue, 1, k - 1)[j].kind # "cancel"
  <2>1. TAKE j \in DOMAIN SubSeq(queue, 1, k - 1)
  <2>2. /\ 1 + j - 1 \in 1..(k - 1)
        /\ SubSeq(queue, 1, k - 1)[j] = queue[1 + j - 1]
    BY <1>2, <1>8, RequestsCut
  <2>3. 1 + j - 1 \notin Cancels(queue) /\ 1 + j - 1 \in DOMAIN queue
    BY <1>3, <1>4, <1>5, <2>2
  <2>. QED  BY Zenon, <2>2, <2>3 DEF Cancels
<1>11. /\ IsDocument(document') /\ IsHistory(history') /\ HistoryIsSound(history')
       /\ Same(document, document', SignalsOf(batch.steps))
  BY Zenon, <1>6, <1>9, <1>10, RecordKeeps
<1>12. DirtyTells' /\ StampTells'
  BY Zenon, <1>1, <1>6, <1>7, <1>11, TellsFollow
<1>13. CanvasHolds'
  BY Zenon, <1>1, <1>7, <1>9, CanvasStays
<1>14. IsSettled'
  BY Zenon, <1>7 DEF IsSettled
<1>15. IsDocument(file')
  BY Zenon, <1>1, <1>7
<1>. QED  BY Zenon, <1>11, <1>12, <1>13, <1>14, <1>15 DEF IInv

\* WithdrawGesture: the document is the one before the gesture, and what the
\* replay signals waits.
LEMMA WithdrawGestureKeeps == ASSUME IInv, WithdrawGesture PROVE IInv'
<1>1. /\ IsDocument(file) /\ IsDocument(document) /\ CanvasHolds
      /\ DirtyTells /\ StampTells /\ IsHistory(history) /\ HistoryIsSound(history)
  BY Zenon DEF IInv
<1>2. IsRequests(queue)
  BY Zenon, <1>1 DEF CanvasHolds
<1>3. queue # <<>>
  BY DEF WithdrawGesture, Cancels
<1>4. PICK taken, gesture :
         /\ taken = Withdraw(history, document, gesture)
         /\ document' = taken.doc /\ history' = taken.history
         /\ signals' = signals \cup SignalsOf(taken.replayed)
  BY Zenon DEF WithdrawGesture
<1>5. /\ queue' = Tail(queue) /\ committing' = TRUE
      /\ UNCHANGED <<dirty, stamp, file, held, line, lastGesture>>
  BY DEF WithdrawGesture, surface, disk
<1>6. IsHistory(taken.history) /\ HistoryIsSound(taken.history)
  BY Zenon, <1>1, <1>4, WithdrawKeeps
<1>7. Replayed(taken, document, Revert(taken.replayed, document))
  BY Zenon, <1>1, <1>4, WithdrawReplays
<1>8. /\ IsDocument(taken.doc)
      /\ Same(document, taken.doc, SignalsOf(taken.replayed))
  BY Zenon, <1>1, <1>7, ReplayedKeeps
<1>9. DirtyTells' /\ StampTells'
  BY Zenon, <1>1, <1>4, <1>5, <1>8, TellsFollow
<1>10. CanvasHolds'
  BY Zenon, <1>1, <1>2, <1>3, <1>5, RequestsCut, CanvasStays
<1>11. IsSettled'
  BY Zenon, <1>5 DEF IsSettled
<1>12. IsDocument(file')
  BY Zenon, <1>1, <1>5
<1>. QED  BY Zenon, <1>4, <1>6, <1>8, <1>9, <1>10, <1>11, <1>12 DEF IInv

\* WithdrawNothing: the intent that puts things back joins the batch.
LEMMA WithdrawNothingKeeps == ASSUME IInv, WithdrawNothing PROVE IInv'
<1>1. /\ IsDocument(file) /\ IsDocument(document) /\ CanvasHolds
      /\ DirtyTells /\ StampTells /\ IsHistory(history) /\ HistoryIsSound(history)
  BY Zenon DEF IInv
<1>2. IsRequests(queue)
  BY Zenon, <1>1 DEF CanvasHolds
<1>3. queue # <<>> /\ queue[1].kind = "cancel"
  BY DEF WithdrawNothing, Cancels
<1>4. /\ queue' = <<InGesture(Head(queue).gesture, Head(queue).otherwise)>>
                      \o Tail(queue)
      /\ committing' = TRUE
      /\ UNCHANGED <<document, history, signals, dirty, stamp, file, held,
                     line, lastGesture>>
  BY DEF WithdrawNothing, surface, disk
<1>5. IsRequests(Tail(queue)) /\ IsRequest(Head(queue)) /\ Head(queue) = queue[1]
  BY Zenon, <1>2, <1>3, RequestsCut
<1>6. Head(queue).gesture \in Nat /\ IsIntent(Head(queue).otherwise)
  BY Zenon, <1>3, <1>5 DEF IsRequest
<1>7. IsRequest(InGesture(Head(queue).gesture, Head(queue).otherwise))
  BY <1>6 DEF IsRequest, InGesture
<1>8. IsRequests(queue')
  BY Zenon, <1>4, <1>5, <1>7, RequestsJoin
<1>9. CanvasHolds'
  BY Zenon, <1>1, <1>4, <1>8, CanvasStays
<1>10. Same(document, document', {}) /\ signals' = signals \cup {}
  BY <1>4 DEF Same
<1>11. DirtyTells' /\ StampTells'
  BY Zenon, <1>1, <1>4, <1>10, TellsFollow
<1>12. IsSettled'
  BY Zenon, <1>4 DEF IsSettled
<1>13. /\ IsDocument(document') /\ IsDocument(file') /\ IsHistory(history')
       /\ HistoryIsSound(history')
  BY Zenon, <1>1, <1>4
<1>. QED  BY Zenon, <1>9, <1>11, <1>12, <1>13 DEF IInv

\* UndoChord, RedoChord: nothing is folded yet, and the replay lands at once.
LEMMA ReplaysKeep ==
    ASSUME IInv, UndoChord \/ RedoChord
    PROVE  IInv'
<1>1. /\ IsDocument(file) /\ IsDocument(document) /\ CanvasHolds /\ IsSettled
      /\ DirtyTells /\ StampTells /\ IsHistory(history) /\ HistoryIsSound(history)
  BY Zenon DEF IInv
<1>2. committing = FALSE \/ ~committing
  BY Zenon DEF UndoChord, RedoChord, ChordsRead, AtRest
<1>3. signals = {}
  BY Zenon, <1>1, <1>2 DEF IsSettled
<1>4. PICK answer :
         /\ Replays(answer)
         /\ answer = Undo(history, document) \/ answer = Redo(history, document)
  BY Zenon DEF UndoChord, RedoChord
<1>5. /\ document' = answer.doc /\ history' = answer.history
      /\ Land(SignalsOf(answer.replayed))
      /\ line' = {Crossing(l.wires, l.tie, TRUE) : l \in line}
      /\ UNCHANGED <<queue, signals, committing, held, lastGesture, file>>
  BY <1>4 DEF Replays, disk
<1>6. /\ IsHistory(answer.history) /\ HistoryIsSound(answer.history)
      /\ \/ Replayed(answer, document, Revert(answer.replayed, document))
         \/ Replayed(answer, document, Apply(answer.replayed, document))
  <2>1. CASE answer = Undo(history, document)
    <3>1. IsHistory(answer.history) /\ HistoryIsSound(answer.history)
      BY Zenon, <1>1, <2>1, UndoKeeps
    <3>2. Replayed(answer, document, Revert(answer.replayed, document))
      BY Zenon, <1>1, <2>1, UndoReplays
    <3>. QED  BY <3>1, <3>2
  <2>2. CASE answer = Redo(history, document)
    <3>1. IsHistory(answer.history) /\ HistoryIsSound(answer.history)
      BY Zenon, <1>1, <2>2, RedoKeeps
    <3>2. Replayed(answer, document, Apply(answer.replayed, document))
      BY Zenon, <1>1, <2>2, RedoReplays
    <3>. QED  BY <3>1, <3>2
  <2>. QED  BY Zenon, <1>4, <2>1, <2>2
<1>7. /\ IsDocument(answer.doc)
      /\ Same(document, answer.doc, SignalsOf(answer.replayed))
  BY Zenon, <1>1, <1>6, ReplayedKeeps
<1>8. signals \cup SignalsOf(answer.replayed) = SignalsOf(answer.replayed)
  BY <1>3
<1>9. DirtyTells' /\ StampTells'
  BY Zenon, <1>1, <1>5, <1>7, <1>8, TellsLand
<1>10. CanvasHolds'
  <2>1. LineHolds'
    BY <1>1, <1>5 DEF CanvasHolds, LineHolds, Crossing
  <2>. QED  BY <1>1, <1>5, <2>1 DEF CanvasHolds
<1>11. IsSettled'
  BY Zenon, <1>3, <1>5 DEF IsSettled
<1>. QED  BY Zenon, <1>1, <1>5, <1>6, <1>7, <1>9, <1>10, <1>11 DEF IInv

\* Save: the file holds the document, whose flag falls.
LEMMA SaveKeeps == ASSUME IInv, Save PROVE IInv'
<1>1. /\ IsDocument(document) /\ CanvasHolds /\ IsSettled /\ StampTells
      /\ IsHistory(history) /\ HistoryIsSound(history)
  BY Zenon DEF IInv
<1>2. /\ file' = document
      /\ UNCHANGED <<document, history, stamp, queue, signals, committing, held,
                     line, lastGesture>>
  BY DEF Save
<1>3. IsRequests(queue)
  BY Zenon, <1>1 DEF CanvasHolds
<1>4. CanvasHolds'
  BY Zenon, <1>1, <1>2, <1>3, CanvasStays
<1>5. Content(document') = Content(file')
  BY Zenon, <1>2
<1>6. DirtyTells' /\ StampTells' /\ IsSettled'
  BY Zenon, <1>1, <1>2, <1>5 DEF DirtyTells, StampTells, IsSettled
<1>. QED  BY Zenon, <1>1, <1>2, <1>4, <1>6 DEF IInv

\* Load: the document is dirty when the file had to be repaired.
LEMMA LoadKeeps == ASSUME IInv, Load PROVE IInv'
<1>1. IsDocument(file) /\ CanvasHolds /\ IsSettled
  BY Zenon DEF IInv
<1>2. PICK lib, load :
         /\ load = Reconcile(file, lib)
         /\ document' = load.doc
         /\ dirty' = (load.repairs # {})
         /\ stamp' = Ids(load.doc)
  BY Zenon DEF Load, Opens
<1>3. /\ history' = NewHistory /\ held' = {} /\ line' = {}
      /\ queue' = <<>> /\ signals' = {} /\ committing' = FALSE
      /\ UNCHANGED <<lastGesture, file>>
  BY DEF Load
<1>4. Loads(file, load)
  BY Zenon, <1>1, <1>2, ReconcileLoads
<1>5. IsDocument(load.doc) /\ (load.repairs = {} => Content(load.doc) = Content(file))
  BY Zenon, <1>4 DEF Loads
<1>6. IsHistory(history') /\ HistoryIsSound(history')
  BY Zenon, <1>3, NewHistoryIsSound
<1>7. CanvasHolds'
  BY <1>1, <1>3, RequestsJoin DEF CanvasHolds, LineHolds
<1>8. DirtyTells'
  <2>1. CASE load.repairs = {}
    BY Zenon, <1>2, <1>3, <1>5, <2>1 DEF DirtyTells
  <2>2. CASE load.repairs # {}
    BY Zenon, <1>2, <2>2 DEF DirtyTells
  <2>. QED  BY <2>1, <2>2
<1>9. StampTells' /\ IsSettled'
  BY Zenon, <1>1, <1>2, <1>3 DEF StampTells, IsSettled
<1>. QED  BY Zenon, <1>1, <1>2, <1>3, <1>5, <1>6, <1>7, <1>8, <1>9 DEF IInv

\* A frame of the canvas changes what it raised, and no more.
LEMMA FrameKeeps == ASSUME IInv, CanvasHolds', LeavesTheRest PROVE IInv'
<1>1. /\ IsDocument(document) /\ IsDocument(file) /\ IsHistory(history)
      /\ HistoryIsSound(history) /\ DirtyTells /\ StampTells /\ IsSettled
  BY Zenon DEF IInv
<1>2. /\ document' = document /\ dirty' = dirty /\ history' = history
      /\ stamp' = stamp /\ signals' = signals /\ committing' = committing
      /\ file' = file
  BY DEF LeavesTheRest
<1>3. Same(document, document', {}) /\ signals' = signals \cup {}
  BY <1>2 DEF Same
<1>4. DirtyTells' /\ StampTells'
  BY Zenon, <1>1, <1>2, <1>3, TellsFollow
<1>5. IsSettled'
  BY Zenon, <1>1, <1>2 DEF IsSettled
<1>. QED  BY Zenon, <1>1, <1>2, <1>4, <1>5 DEF IInv

-----------------------------------------------------------------------------
\* What a launch opens is a document, and dirty where the file was repaired.
LEMMA InitHolds == ASSUME Init PROVE IInv
<1>1. file \in Files /\ IsDocument(file)
  BY FilesAssumption DEF Init
<1>2. PICK load : load = Reconcile(file, library)
  OBVIOUS
<1>3. /\ document = load.doc /\ dirty = (load.repairs # {})
      /\ stamp = Ids(document) /\ history = NewHistory
  BY Zenon, <1>2 DEF Init
<1>4. Loads(file, load)
  BY Zenon, <1>1, <1>2, ReconcileLoads
<1>5. IsDocument(load.doc) /\ (load.repairs = {} => Content(load.doc) = Content(file))
  BY Zenon, <1>4 DEF Loads
<1>6. IsHistory(history) /\ HistoryIsSound(history)
  BY Zenon, <1>3, NewHistoryIsSound
<1>7. queue = <<>> /\ held = {} /\ line = {} /\ lastGesture = 0 /\ signals = {}
  BY DEF Init
<1>8. CanvasHolds
  BY <1>7, RequestsJoin DEF CanvasHolds, LineHolds
<1>9. DirtyTells
  <2>1. CASE load.repairs = {}
    BY Zenon, <1>3, <1>5, <2>1 DEF DirtyTells
  <2>2. CASE load.repairs # {}
    BY Zenon, <1>3, <2>2 DEF DirtyTells
  <2>. QED  BY <2>1, <2>2
<1>10. StampTells /\ IsSettled
  BY Zenon, <1>3, <1>7 DEF StampTells, IsSettled
<1>. QED  BY Zenon, <1>1, <1>3, <1>5, <1>6, <1>8, <1>9, <1>10 DEF IInv

\* Every action keeps the invariant.
LEMMA NextHolds == ASSUME IInv, [Next]_vars PROVE IInv'
<1>1. CanvasHolds /\ IsDocument(document)
  BY Zenon DEF IInv
<1>2. CASE Commit
  BY Zenon, <1>2, CommitKeeps
<1>3. CASE CommitToCancel
  BY Zenon, <1>3, CommitToCancelKeeps
<1>4. CASE WithdrawGesture
  BY Zenon, <1>4, WithdrawGestureKeeps
<1>5. CASE WithdrawNothing
  BY Zenon, <1>5, WithdrawNothingKeeps
<1>6. CASE UndoChord \/ RedoChord
  BY Zenon, <1>6, ReplaysKeep
<1>7. CASE EditGraph \/ BreakAcross \/ ShowTab \/ MoveCamera \/ DeleteSelection
  BY Zenon, <1>1, <1>7, EditsKeepTheCanvas, FrameKeeps
<1>8. CASE AddNode
  BY Zenon, <1>1, <1>8, AddNodeKeepsTheCanvas, FrameKeeps
<1>9. CASE DuplicateChord \/ DuplicatePick
  BY Zenon, <1>1, <1>9, DuplicateKeepsTheCanvas, FrameKeeps
<1>10. CASE GrabItem \/ GrabSpawn \/ GrabKnob
  BY Zenon, <1>1, <1>10, GrabsKeepTheCanvas, FrameKeeps
<1>11. CASE \/ HoldGesture \/ DropGesture \/ EscapeDrag \/ EscapeKnob
            \/ DrawLine \/ ReleaseLine \/ DropLine
  BY Zenon, <1>1, <1>11, GesturesKeepTheCanvas, FrameKeeps
<1>12. CASE Save
  BY Zenon, <1>12, SaveKeeps
<1>13. CASE Load
  BY Zenon, <1>13, LoadKeeps
<1>14. CASE UNCHANGED vars
  <2>1. /\ LeavesTheRest /\ UNCHANGED <<queue, held, line, lastGesture>>
    BY <1>14 DEF vars, LeavesTheRest
  <2>2. CanvasHolds'
    BY <1>1, <2>1 DEF CanvasHolds, LineHolds
  <2>. QED  BY Zenon, <2>1, <2>2, FrameKeeps
<1>. QED  BY Zenon, <1>2, <1>3, <1>4, <1>5, <1>6, <1>7, <1>8, <1>9, <1>10, <1>11,
             <1>12, <1>13, <1>14 DEF Next, Lands, Chords, Pointer

\* The invariant holds in every reachable state.
LEMMA IInvHolds == Spec => []IInv
  BY InitHolds, NextHolds, PTL DEF Spec

\* The undo history keeps its ranges, its head, its cursor and its budget sound
\* through every commit, cancel, undo, redo and load, whatever is open.
THEOREM HistoryStaysSound == Spec => []HistoryHolds
<1>1. IInv => HistoryHolds
  BY Zenon DEF IInv, HistoryHolds
<1>. QED  BY <1>1, IInvHolds, PTL

\* The dirty flag and the graph revision never miss a change: a document that
\* is not dirty holds what its file holds, and the caches keyed by the revision
\* know the nodes there are, whichever step moved them and however often a
\* cancel cut the commit that did.
THEOREM FlagsStayTrue == Spec => []FlagsFollowTheDocument
<1>1. IInv => FlagsFollowTheDocument
  BY Zenon DEF IInv, DirtyTells, StampTells, IsSettled, FlagsFollowTheDocument
<1>. QED  BY <1>1, IInvHolds, PTL

\* A session starts on a sound document and each load leaves one, whatever the
\* file holds and whichever library it meets: it names no node or wire that is
\* gone, holds no wire the library refuses and no cycle, places every node,
\* and no route, tie, selection or tab is left behind.
THEOREM LoadsAreSound == Spec => DocumentIsSound /\ [][Load => DocumentIsSound']_vars
<1>1. ASSUME Init PROVE DocumentIsSound
  <2>1. PICK lib \in Libraries : library = lib /\ document = Reconcile(file, lib).doc
    BY <1>1 DEF Init
  <2>2. IsDocument(file) /\ lib \subseteq NodeIds
    BY <1>1, FilesAssumption, LibrariesAssumption DEF Init
  <2>. QED  BY Zenon, <2>1, <2>2, ReconcileIsSound DEF DocumentIsSound
<1>2. ASSUME IInv, Load PROVE DocumentIsSound'
  <2>1. PICK lib \in Libraries : library' = lib /\ document' = Reconcile(file, lib).doc
    BY Zenon, <1>2 DEF Load, Opens
  <2>2. IsDocument(file) /\ lib \subseteq NodeIds
    BY Zenon, <1>2, LibrariesAssumption DEF IInv
  <2>3. PICK d : d = document'
    OBVIOUS
  <2>4. IsValid(d) /\ Compiles(d) /\ DOMAIN d.nodes \subseteq lib
    BY Zenon, <2>1, <2>2, <2>3, ReconcileIsSound
  <2>. QED  BY Zenon, <2>1, <2>3, <2>4 DEF DocumentIsSound
<1>. QED  BY <1>1, <1>2, IInvHolds, PTL DEF Spec

\* A load loses no node, and a wire of the file it drops though both its ends
\* are there and take it closes a cycle of the wires it keeps.
THEOREM LoadsKeepWhatTheyCan == Spec => LoadKeepsWhatItCan
<1>1. ASSUME IInv, Load
      PROVE  /\ Ids(file) = Ids(document')
             /\ \A i \in DOMAIN file.bindings \ DOMAIN document'.bindings :
                   /\ EndsHeld(document', i, file.bindings[i])
                   /\ Admits(i, file.bindings[i])
                   => i[1] \in Upstream(document'.bindings, file.bindings[i][2])
  <2>1. PICK lib \in Libraries : document' = Reconcile(file, lib).doc
    BY Zenon, <1>1 DEF Load, Opens
  <2>2. IsDocument(file) /\ lib \subseteq NodeIds
    BY Zenon, <1>1, LibrariesAssumption DEF IInv
  <2>3. KeepsWhatItCan(file, document')
    BY Zenon, <2>1, <2>2, ReconcileIsSound
  <2>. QED  BY Zenon, <2>3 DEF KeepsWhatItCan
<1>. QED  BY <1>1, IInvHolds, PTL DEF LoadKeepsWhatItCan

=============================================================================
