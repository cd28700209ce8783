------------------------- MODULE PreviewStore_proofs -------------------------
(***************************************************************************)
(* What a card shows, for any nodes, any number of values published and    *)
(* any order of frames, conversions and drops.  The argument follows the   *)
(* line of jobs on their way back to the editor: what is converted, what   *)
(* converts, what waits.  It is handed on at one end, joined at the other, *)
(* and a card that takes the place of one that waits stays behind every    *)
(* other card of its node.                                                 *)
(***************************************************************************)
EXTENDS PreviewStore, TLAPS

Job == [node : Nodes, ticket : Nat, work : {"card", "full"}, image : BOOLEAN]
Entry == [ticket : Nat, raster : Nat,
          shows : {"nothing", "message", "pending", "converting", "ready", "failed"}]

TypeOK ==
    /\ entries \in [Nodes -> Entry]
    /\ converting \in [Nodes -> [oldest : Nat, newest : Nat]]
    /\ lastTicket \in Nat
    /\ queue \in Seq(Job) /\ job \in Seq(Job) /\ Len(job) <= 1
    /\ results \in Seq(Job)
    /\ drained \subseteq Nodes
    /\ published \in [Nodes -> Nat]
    /\ voided \in [Nodes -> Nat]
    /\ converted \in [Nodes -> Nat]

\* Every job on its way back, the next to land first.
Line == results \o job \o queue

\* A card on its way is awaited unless it was dropped, and newer than any that
\* came back; a full raster is of a card that did, and its image waits for it.
IsOnItsWay(j) ==
    /\ j.ticket \in 1 .. lastTicket
    /\ j.work = "card" =>
          /\ converted[j.node] < j.ticket
          /\ voided[j.node] < j.ticket => Awaits(j.node, j.ticket)
    /\ j.work = "full" =>
          /\ j.ticket <= converted[j.node]
          /\ IsImage(entries[j.node]) /\ entries[j.node].ticket = j.ticket =>
                entries[j.node].shows = "converting"

\* How a job stands to one behind it.
Precedes(j, k) ==
    j.node = k.node /\ j.work = k.work =>
        IF j.work = "card" THEN j.ticket < k.ticket ELSE j.ticket # k.ticket

LineHolds ==
    /\ \A i \in 1 .. Len(Line) : IsOnItsWay(Line[i])
    /\ \A i, k \in 1 .. Len(Line) : i < k => Precedes(Line[i], Line[k])

OneWaits ==
    \A i, k \in 1 .. Len(queue) :
        queue[i].work = "card" /\ queue[k].work = "card" /\ queue[i].node = queue[k].node =>
            i = k

SpansHold ==
    \A n \in Nodes :
        /\ published[n] <= lastTicket /\ voided[n] <= lastTicket
        /\ converted[n] <= lastTicket
        /\ converting[n] # NoSpan =>
              /\ voided[n] < converting[n].oldest
              /\ converted[n] < converting[n].oldest
              /\ converting[n].oldest <= converting[n].newest
              /\ converting[n].newest = published[n]

RastersAreOwn ==
    \A n \in Nodes :
        /\ entries[n].raster \in {0, entries[n].ticket}
        /\ entries[n].ticket = 0 => ~IsImage(entries[n])

IInv ==
    TypeOK /\ LineHolds /\ OneWaits /\ SpansHold /\ CardsAreTruthful /\ RastersAreOwn
-----------------------------------------------------------------------------
(* Sequences *)

\* Sequences of one length that agree everywhere are one.
LEMMA SameJobs ==
  ASSUME NEW S, NEW l \in Seq(S), NEW r \in Seq(S), Len(l) = Len(r),
         \A k \in 1 .. Len(l) : l[k] = r[k]
  PROVE  l = r
OBVIOUS

\* What is taken from the front of a line of three is the first of the first.
LEMMA LineTail ==
  ASSUME NEW S, NEW r \in Seq(S), NEW j \in Seq(S), NEW q \in Seq(S), r # <<>>
  PROVE  /\ Tail(r) \o j \o q = Tail(r \o j \o q)
         /\ r \o j \o q # <<>> /\ Head(r \o j \o q) = Head(r)
<1>1. /\ Tail(r) \o j \o q \in Seq(S) /\ Tail(r \o j \o q) \in Seq(S)
      /\ Len(Tail(r) \o j \o q) = Len(Tail(r \o j \o q))
      /\ r \o j \o q # <<>> /\ Head(r \o j \o q) = Head(r)
  BY SMTT(30)
<1>2. \A k \in 1 .. Len(Tail(r) \o j \o q) :
         (Tail(r) \o j \o q)[k] = Tail(r \o j \o q)[k]
  BY SMTT(30)
<1>. QED  BY <1>1, <1>2, SameJobs

\* What converts, handed back, keeps its place...
LEMMA LineSent ==
  ASSUME NEW S, NEW r \in Seq(S), NEW j \in Seq(S), NEW q \in Seq(S)
  PROVE  (r \o j) \o <<>> \o q = r \o j \o q
<1>1. (r \o j) \in Seq(S) /\ (r \o j) \o <<>> = r \o j
  OBVIOUS
<1>. QED  BY <1>1

\* ...as does what is taken to be converted.
LEMMA LineTaken ==
  ASSUME NEW S, NEW r \in Seq(S), NEW q \in Seq(S), q # <<>>
  PROVE  r \o <<Head(q)>> \o Tail(q) = r \o <<>> \o q
<1>1. /\ Head(q) \in S /\ Tail(q) \in Seq(S) /\ <<Head(q)>> \in Seq(S)
      /\ r \o <<>> = r
  OBVIOUS
<1>2. /\ r \o <<Head(q)>> \o Tail(q) \in Seq(S) /\ r \o q \in Seq(S)
      /\ Len(r \o <<Head(q)>> \o Tail(q)) = Len(r \o q)
  BY <1>1, SMTT(30)
<1>3. \A k \in 1 .. Len(r \o q) : (r \o <<Head(q)>> \o Tail(q))[k] = (r \o q)[k]
  BY <1>1, SMTT(30)
<1>. QED  BY <1>1, <1>2, <1>3, SameJobs

\* A line of three by its places.
LEMMA LinePlaces ==
  ASSUME NEW S, NEW r \in Seq(S), NEW j \in Seq(S), NEW q \in Seq(S)
  PROVE  /\ r \o j \o q \in Seq(S)
         /\ Len(r \o j \o q) = Len(r) + Len(j) + Len(q)
         /\ \A i \in 1 .. Len(r) : (r \o j \o q)[i] = r[i]
         /\ \A i \in 1 .. Len(j) : (r \o j \o q)[Len(r) + i] = j[i]
         /\ \A i \in 1 .. Len(q) : (r \o j \o q)[Len(r) + Len(j) + i] = q[i]
         /\ \A i \in 1 .. Len(r) + Len(j) : (r \o j \o q)[i] = (r \o j)[i]
BY SMTT(30)

\* What a sequence is without its first.
LEMMA TailPlaces ==
  ASSUME NEW S, NEW s \in Seq(S), s # <<>>
  PROVE  /\ Tail(s) \in Seq(S) /\ Len(Tail(s)) = Len(s) - 1 /\ Len(s) \in Nat \ {0}
         /\ Head(s) = s[1]
         /\ \A i \in 1 .. Len(s) - 1 : Tail(s)[i] = s[i + 1]
OBVIOUS
-----------------------------------------------------------------------------
(* The actions *)

\* The line, and each of its places, is of jobs.
LEMMA LineIsOfJobs ==
  ASSUME TypeOK
  PROVE  /\ Line \in Seq(Job)
         /\ \A i \in 1 .. Len(Line) : Line[i] \in Job
<1>1. results \in Seq(Job) /\ job \in Seq(Job) /\ queue \in Seq(Job)
  BY DEF TypeOK
<1>2. Line \in Seq(Job)
  BY <1>1, LinePlaces DEF Line
<1>. QED  BY <1>2

\* An empty store has the invariant.
THEOREM InitHolds == Init => IInv
<1>. SUFFICES ASSUME Init PROVE IInv
  OBVIOUS
<1>1. TypeOK
  BY DEF Init, TypeOK, Entry, NoCard, NoSpan
<1>2. Line = <<>> /\ Len(Line) = 0 /\ Len(queue) = 0
  BY DEF Init, Line
<1>3. LineHolds /\ OneWaits
  BY <1>2 DEF LineHolds, OneWaits
<1>4. SpansHold /\ CardsAreTruthful /\ RastersAreOwn
  BY DEF Init, SpansHold, CardsAreTruthful, RastersAreOwn, NoCard, NoSpan, IsImage
<1>. QED  BY <1>1, <1>3, <1>4 DEF IInv

\* What is dropped leaves nothing awaited, of what was published before.
LEMMA DropKeeps ==
  ASSUME IInv, NEW nodes \in SUBSET Nodes, Drop(nodes),
         UNCHANGED <<threadVars, published, converted>>, drained' \subseteq Nodes
  PROVE  IInv'
<1>. USE DEF IInv, Drop, threadVars
<1>1. TypeOK'
  <2>1. /\ entries' \in [Nodes -> Entry]
        /\ converting' \in [Nodes -> [oldest : Nat, newest : Nat]]
        /\ voided' \in [Nodes -> Nat]
    BY DEF TypeOK, Entry, NoCard, NoSpan
  <2>. QED  BY <2>1 DEF TypeOK
<1>2. Line' = Line
  BY DEF Line
<1>3. ASSUME NEW j \in Job, IsOnItsWay(j) PROVE IsOnItsWay(j)'
  BY <1>3 DEF IsOnItsWay, Awaits, TypeOK, Job, IsImage, NoCard
<1>4. LineHolds'
  BY <1>2, <1>3, LineIsOfJobs DEF LineHolds, Precedes
<1>5. OneWaits'
  BY DEF OneWaits
<1>6. SpansHold'
  BY DEF SpansHold, TypeOK
<1>7. CardsAreTruthful'
  BY DEF CardsAreTruthful, SpansHold, TypeOK, NoCard
<1>8. RastersAreOwn'
  BY DEF RastersAreOwn, TypeOK, NoCard, IsImage
<1>. QED  BY <1>1, <1>4, <1>5, <1>6, <1>7, <1>8

\* A line joined at its end.
LEMMA LineJoined ==
  ASSUME NEW S, NEW r \in Seq(S), NEW j \in Seq(S), NEW q \in Seq(S), NEW x \in S
  PROVE  r \o j \o Append(q, x) = Append(r \o j \o q, x)
<1>1. /\ r \o j \o Append(q, x) \in Seq(S) /\ Append(r \o j \o q, x) \in Seq(S)
      /\ Len(r \o j \o Append(q, x)) = Len(Append(r \o j \o q, x))
  BY SMTT(30)
<1>2. \A k \in 1 .. Len(r \o j \o Append(q, x)) :
         (r \o j \o Append(q, x))[k] = Append(r \o j \o q, x)[k]
  BY SMTT(30)
<1>. QED  BY <1>1, <1>2, SameJobs

\* What a sequence is with one more.
LEMMA AppendPlaces ==
  ASSUME NEW S, NEW s \in Seq(S), NEW x \in S
  PROVE  /\ Append(s, x) \in Seq(S) /\ Len(Append(s, x)) = Len(s) + 1 /\ Len(s) \in Nat
         /\ \A i \in 1 .. Len(s) : Append(s, x)[i] = s[i]
         /\ Append(s, x)[Len(s) + 1] = x
OBVIOUS

\* A line joined by a job that the others precede.
LEMMA JoinedLineHolds ==
  ASSUME LineHolds, Line \in Seq(Job), NEW x \in Job, Line' = Append(Line, x),
         \A j \in Job : IsOnItsWay(j) => IsOnItsWay(j)' /\ Precedes(j, x),
         IsOnItsWay(x)'
  PROVE  LineHolds'
<1>. DEFINE old == Line
            new == Line'
<1>1. /\ old \in Seq(Job) /\ Len(old) \in Nat /\ Len(new) = Len(old) + 1
      /\ \A i \in 1 .. Len(old) : new[i] = old[i] /\ old[i] \in Job
      /\ new[Len(old) + 1] = x
  <2>. HIDE DEF old
  <2>. QED  BY AppendPlaces DEF old
<1>2. \A i \in 1 .. Len(old) : IsOnItsWay(old[i])
  BY DEF LineHolds
<1>3. \A i, k \in 1 .. Len(old) : i < k => Precedes(old[i], old[k])
  BY DEF LineHolds
<1>. HIDE DEF old, new
<1>4. \A i \in 1 .. Len(new) : \E j \in Job : j = new[i] /\ IsOnItsWay(j)'
  BY <1>1, <1>2
<1>5. \A i, k \in 1 .. Len(new) : i < k => Precedes(new[i], new[k])
  BY <1>1, <1>2, <1>3
<1>6. (\A i \in 1 .. Len(Line) : IsOnItsWay(Line[i]))'
  BY <1>4 DEF new, IsOnItsWay, Awaits, IsImage
<1>7. (\A i, k \in 1 .. Len(Line) : i < k => Precedes(Line[i], Line[k]))'
  BY <1>5 DEF new, Precedes
<1>. QED  BY <1>6, <1>7 DEF LineHolds

\* A full raster joins the line as its image begins to wait.
LEMMA ConvertFullKeeps ==
  ASSUME IInv, NEW n \in Nodes, ConvertFull(n)
  PROVE  IInv'
<1>. USE DEF IInv, ConvertFull, frameVars, histVars
<1>. DEFINE x == Full(n, entries[n].ticket)
<1>1. x \in Job /\ entries[n] \in Entry
  BY DEF TypeOK, Full, Job, Entry
<1>2. TypeOK'
  <2>1. entries' \in [Nodes -> Entry]
    BY DEF TypeOK, Entry
  <2>. QED  BY <1>1, <2>1 DEF TypeOK
<1>3. Line' = Append(Line, x) /\ Line \in Seq(Job) /\ Line' \in Seq(Job)
  <2>1. results \in Seq(Job) /\ job \in Seq(Job) /\ queue \in Seq(Job)
    BY DEF TypeOK
  <2>2. Line' = results \o job \o Append(queue, x)
    BY DEF Line
  <2>3. Line = results \o job \o queue
    BY DEF Line
  <2>. QED  BY <1>1, <2>1, <2>2, <2>3, LineJoined, LineIsOfJobs, AppendPlaces
<1>4. IsImage(entries[n]) /\ entries[n].ticket # 0
  BY <1>1 DEF IsImage, RastersAreOwn
<1>5. entries[n].ticket = converted[n] /\ converted[n] <= lastTicket
  BY <1>4 DEF CardsAreTruthful, SpansHold
<1>6. ASSUME NEW j \in Job, IsOnItsWay(j) PROVE IsOnItsWay(j)'
  BY <1>6 DEF IsOnItsWay, Awaits, TypeOK, Job, IsImage, Entry
<1>7. IsOnItsWay(x)'
  <2>1. x.ticket \in 1 .. lastTicket /\ x.ticket <= converted[n]
    BY <1>1, <1>4, <1>5 DEF Full, TypeOK, Entry
  <2>2. entries'[n].shows = "converting"
    BY DEF TypeOK, Entry
  <2>. QED  BY <2>1, <2>2 DEF IsOnItsWay, Full
<1>8. ASSUME NEW j \in Job, IsOnItsWay(j) PROVE Precedes(j, x)
  BY <1>4, <1>8 DEF Precedes, IsOnItsWay, Full
<1>9. LineHolds'
  BY <1>1, <1>3, <1>6, <1>7, <1>8, JoinedLineHolds
<1>10. OneWaits'
  BY <1>1, AppendPlaces DEF OneWaits, TypeOK, Full
<1>11. SpansHold' /\ CardsAreTruthful' /\ RastersAreOwn'
  BY <1>1, <1>4 DEF SpansHold, CardsAreTruthful, RastersAreOwn, TypeOK, Entry, IsImage
<1>. QED  BY <1>2, <1>9, <1>10, <1>11

\* Where a card takes the place of the one that waits, no card of its node is
\* further behind.
LEMMA LineReplaced ==
  ASSUME TypeOK, OneWaits, NEW n \in Nodes, NEW x \in Job,
         queue' = [i \in DOMAIN queue |-> IF i \in Waits(n) THEN x ELSE queue[i]],
         UNCHANGED <<results, job>>
  PROVE  /\ queue' \in Seq(Job) /\ Line' \in Seq(Job) /\ Len(Line') = Len(Line)
         /\ \E replaced \in SUBSET (1 .. Len(Line)) :
               /\ \A i \in 1 .. Len(Line) :
                     Line'[i] = IF i \in replaced THEN x ELSE Line[i]
               /\ \A i \in replaced : Line[i].node = n /\ Line[i].work = "card"
               /\ \A i \in replaced, k \in 1 .. Len(Line) :
                     Line[k].node = n /\ Line[k].work = "card" => k <= i
<1>. DEFINE q == queue'
            old == Line
            new == Line'
            d == Len(results) + Len(job)
            replaced == {d + p : p \in Waits(n)}
<1>1. /\ results \in Seq(Job) /\ job \in Seq(Job) /\ queue \in Seq(Job)
      /\ d \in Nat
  BY DEF TypeOK
<1>2. /\ q \in Seq(Job) /\ Len(q) = Len(queue)
      /\ \A i \in 1 .. Len(queue) : q[i] = IF i \in Waits(n) THEN x ELSE queue[i]
  <2>1. DOMAIN queue = 1 .. Len(queue) /\ Len(queue) \in Nat
        /\ \A i \in 1 .. Len(queue) : queue[i] \in Job
    BY <1>1
  <2>2. q \in [1 .. Len(queue) -> Job]
    BY <2>1
  <2>3. q \in Seq(Job) /\ DOMAIN q = 1 .. Len(queue)
    BY <2>1, <2>2
  <2>4. Len(q) = Len(queue)
    BY <2>1, <2>3
  <2>. QED  BY <2>1, <2>3, <2>4
<1>3. new = results \o job \o q
  BY DEF Line
<1>4. old = results \o job \o queue
  BY DEF Line
<1>. HIDE DEF q, old, new
<1>5. /\ old \in Seq(Job) /\ new \in Seq(Job)
      /\ Len(old) = d + Len(queue) /\ Len(new) = Len(old)
      /\ \A i \in 1 .. d : old[i] = (results \o job)[i] /\ new[i] = old[i]
      /\ \A i \in 1 .. Len(queue) : old[d + i] = queue[i] /\ new[d + i] = q[i]
  <2>1. /\ results \o job \o queue \in Seq(Job)
        /\ Len(results \o job \o queue) = d + Len(queue)
        /\ \A i \in 1 .. d : (results \o job \o queue)[i] = (results \o job)[i]
        /\ \A i \in 1 .. Len(queue) : (results \o job \o queue)[d + i] = queue[i]
    BY <1>1, LinePlaces
  <2>2. /\ results \o job \o q \in Seq(Job)
        /\ Len(results \o job \o q) = d + Len(q)
        /\ \A i \in 1 .. d : (results \o job \o q)[i] = (results \o job)[i]
        /\ \A i \in 1 .. Len(q) : (results \o job \o q)[d + i] = q[i]
    <3>1. results \in Seq(Job) /\ job \in Seq(Job) /\ q \in Seq(Job)
      BY <1>1, <1>2
    <3>. QED  BY <3>1, LinePlaces
  <2>. QED  BY <1>2, <1>3, <1>4, <2>1, <2>2
<1>. HIDE DEF d
<1>6. Len(queue) \in Nat /\ Waits(n) \subseteq 1 .. Len(queue)
  BY <1>1 DEF Waits
<1>7. \A i \in 1 .. Len(old) : i \in 1 .. d \/ \E p \in 1 .. Len(queue) : i = d + p
  <2>. TAKE i \in 1 .. Len(old)
  <2>1. CASE i <= d
    BY <1>1, <2>1
  <2>2. CASE ~(i <= d)
    <3>1. i - d \in 1 .. Len(queue) /\ i = d + (i - d)
      BY <1>1, <1>5, <1>6, <2>2
    <3>. QED  BY <3>1
  <2>. QED  BY <2>1, <2>2
<1>8. \A i \in 1 .. Len(old) : new[i] = IF i \in replaced THEN x ELSE old[i]
  <2>. TAKE i \in 1 .. Len(old)
  <2>1. CASE i \in 1 .. d
    BY <1>1, <1>5, <1>6, <2>1
  <2>2. ASSUME NEW p \in 1 .. Len(queue), i = d + p
        PROVE  new[i] = IF i \in replaced THEN x ELSE old[i]
    <3>1. i \in replaced <=> p \in Waits(n)
      BY <1>1, <1>6, <2>2
    <3>2. new[i] = q[p] /\ old[i] = queue[p]
      BY <1>5, <2>2
    <3>. QED  BY <1>2, <3>1, <3>2
  <2>. QED  BY <1>7, <2>1, <2>2
<1>9. \A i \in replaced : old[i].node = n /\ old[i].work = "card"
  BY <1>5, <1>6 DEF Waits
<1>10. \A i \in replaced, k \in 1 .. Len(old) :
         old[k].node = n /\ old[k].work = "card" => k <= i
  <2>. SUFFICES ASSUME NEW w \in Waits(n), NEW k \in 1 .. Len(old),
                       old[k].node = n, old[k].work = "card"
                PROVE  k <= d + w
    OBVIOUS
  <2>1. CASE k \in 1 .. d
    BY <1>1, <1>6, <2>1
  <2>2. ASSUME NEW p \in 1 .. Len(queue), k = d + p PROVE k <= d + w
    <3>1. p \in Waits(n)
      BY <1>1, <1>5, <2>2 DEF Waits
    <3>2. p = w
      BY <1>6, <3>1 DEF Waits, OneWaits
    <3>. QED  BY <1>1, <2>2, <3>2
  <2>. QED  BY <1>7, <2>1, <2>2
<1>11. replaced \in SUBSET (1 .. Len(old))
  BY <1>1, <1>5, <1>6
<1>. QED  BY <1>2, <1>5, <1>8, <1>9, <1>10, <1>11 DEF q, old, new

\* A card joins the line behind all others of its node.
LEMMA PublishKeeps ==
  ASSUME IInv, NEW n \in Nodes, NEW image \in BOOLEAN, Publish(n, image)
  PROVE  IInv'
<1>. USE DEF IInv, Publish
<1>1. PICK x \in Job :
         /\ x = Card(n, lastTicket', image)
         /\ x.node = n /\ x.ticket = lastTicket + 1 /\ x.work = "card"
         /\ lastTicket \in Nat
  <2>1. Card(n, lastTicket', image) \in Job
    BY DEF TypeOK, Card, Job
  <2>. QED  BY <2>1 DEF TypeOK, Card
<1>2. /\ converting' \in [Nodes -> [oldest : Nat, newest : Nat]]
      /\ published' \in [Nodes -> Nat]
  BY DEF TypeOK
<1>3. SpansHold'
  <2>1. ASSUME NEW m \in Nodes, m # n
        PROVE  converting'[m] = converting[m] /\ published'[m] = published[m]
    BY <2>1 DEF TypeOK
  <2>2. /\ published'[n] = lastTicket + 1
        /\ converting'[n].newest = lastTicket + 1
        /\ converting'[n].oldest =
              IF converting[n] = NoSpan THEN lastTicket + 1 ELSE converting[n].oldest
    BY DEF TypeOK
  <2>. QED  BY <1>1, <1>2, <2>1, <2>2, SMTT(30) DEF SpansHold, TypeOK
<1>4. ASSUME NEW j \in Job, IsOnItsWay(j)
      PROVE  IsOnItsWay(j)' /\ Precedes(j, x)
  <2>1. Precedes(j, x)
    BY <1>1, <1>4 DEF Precedes, IsOnItsWay
  <2>2. j.ticket \in 1 .. lastTicket'
    BY <1>1, <1>4 DEF IsOnItsWay
  <2>3. Awaits(j.node, j.ticket) => Awaits(j.node, j.ticket)'
    BY SMTT(60), <1>1, <1>2, <1>4, j.node \in Nodes
       DEF Awaits, SpansHold, TypeOK, NoSpan, IsOnItsWay, Job
  <2>. QED  BY <1>4, <2>1, <2>2, <2>3 DEF IsOnItsWay, IsImage, Awaits
<1>5. IsOnItsWay(x)'
  <2>1. /\ converted[n] <= lastTicket /\ voided[n] <= lastTicket
        /\ converted[n] \in Nat /\ voided[n] \in Nat
    BY DEF SpansHold, TypeOK
  <2>2. Awaits(n, x.ticket)'
    BY <1>1, <1>3 DEF Awaits, SpansHold, TypeOK, NoSpan
  <2>. QED  BY <1>1, <2>1, <2>2 DEF IsOnItsWay, Awaits
<1>6. CardsAreTruthful' /\ RastersAreOwn'
  BY SMTT(60), <1>1 DEF CardsAreTruthful, RastersAreOwn, SpansHold, TypeOK, NoSpan, IsImage
<1>7. CASE Waits(n) = {}
  <2>1. queue' = Append(queue, x)
    BY <1>1, <1>7 DEF Send
  <2>2. TypeOK'
    BY <1>1, <1>2, <2>1 DEF TypeOK
  <2>3. Line \in Seq(Job) /\ Line' = Append(Line, x)
    <3>1. results \in Seq(Job) /\ job \in Seq(Job) /\ queue \in Seq(Job)
      BY DEF TypeOK
    <3>2. Line' = results \o job \o Append(queue, x)
      BY <2>1 DEF Line
    <3>3. Line = results \o job \o queue
      BY DEF Line
    <3>. QED  BY <1>1, <3>1, <3>2, <3>3, LineJoined, LineIsOfJobs, SMTT(30)
  <2>4. LineHolds'
    BY <1>1, <1>4, <1>5, <2>3, JoinedLineHolds
  <2>5. OneWaits'
    <3>1. queue \in Seq(Job)
      BY DEF TypeOK
    <3>. QED  BY <1>1, <1>7, <2>1, <3>1, AppendPlaces DEF OneWaits, Waits
  <2>. QED  BY <1>3, <1>6, <2>2, <2>4, <2>5
<1>8. CASE Waits(n) # {}
  <2>1. queue' = [i \in DOMAIN queue |-> IF i \in Waits(n) THEN x ELSE queue[i]]
    BY <1>1, <1>8 DEF Send
  <2>2. /\ queue' \in Seq(Job) /\ Line' \in Seq(Job) /\ Len(Line') = Len(Line)
        /\ \E replaced \in SUBSET (1 .. Len(Line)) :
               /\ \A i \in 1 .. Len(Line) :
                     Line'[i] = IF i \in replaced THEN x ELSE Line[i]
               /\ \A i \in replaced : Line[i].node = n /\ Line[i].work = "card"
               /\ \A i \in replaced, k \in 1 .. Len(Line) :
                     Line[k].node = n /\ Line[k].work = "card" => k <= i
    BY <1>1, <2>1, LineReplaced
  <2>3. TypeOK'
    BY <1>1, <1>2, <2>2 DEF TypeOK
  <2>4. LineHolds'
    <3>1. PICK replaced \in SUBSET (1 .. Len(Line)) :
             /\ \A i \in 1 .. Len(Line) :
                   Line'[i] = IF i \in replaced THEN x ELSE Line[i]
             /\ \A i \in replaced : Line[i].node = n /\ Line[i].work = "card"
             /\ \A i \in replaced, k \in 1 .. Len(Line) :
                   Line[k].node = n /\ Line[k].work = "card" => k <= i
      BY <2>2
    <3>. DEFINE new == Line'
    <3>2. /\ Len(new) = Len(Line) /\ Len(Line) \in Nat
          /\ \A i \in 1 .. Len(Line) : new[i] = IF i \in replaced THEN x ELSE Line[i]
          /\ \A i \in 1 .. Len(Line) : Line[i] \in Job /\ IsOnItsWay(Line[i])
          /\ \A i, k \in 1 .. Len(Line) : i < k => Precedes(Line[i], Line[k])
      BY <2>2, <3>1, LineIsOfJobs DEF LineHolds
    <3>. HIDE DEF new
    <3>3. \A i \in 1 .. Len(new) : \E j \in Job : j = new[i] /\ IsOnItsWay(j)'
      BY <1>1, <1>4, <1>5, <3>2
    <3>4. \A i, k \in 1 .. Len(new) : i < k => Precedes(new[i], new[k])
      <4>. SUFFICES ASSUME NEW i \in 1 .. Len(Line), NEW k \in 1 .. Len(Line), i < k
                    PROVE  Precedes(new[i], new[k])
        BY <3>2
      <4>1. CASE k \in replaced
        <5>1. Precedes(Line[i], x)
          BY <1>4, <3>2
        <5>2. i \notin replaced
          BY <3>1, <4>1
        <5>. QED  BY <3>2, <4>1, <5>1, <5>2
      <4>2. CASE k \notin replaced /\ i \in replaced
        <5>1. new[k] = Line[k] /\ ~(Line[k].node = n /\ Line[k].work = "card")
          BY <3>1, <3>2, <4>2
        <5>. QED  BY <1>1, <3>2, <4>2, <5>1 DEF Precedes
      <4>3. CASE k \notin replaced /\ i \notin replaced
        BY <3>2, <4>3
      <4>. QED  BY <4>1, <4>2, <4>3
    <3>5. (\A i \in 1 .. Len(Line) : IsOnItsWay(Line[i]))'
      BY <3>3 DEF new, IsOnItsWay, Awaits, IsImage
    <3>6. (\A i, k \in 1 .. Len(Line) : i < k => Precedes(Line[i], Line[k]))'
      BY <3>4 DEF new, Precedes
    <3>. QED  BY <3>5, <3>6 DEF LineHolds
  <2>5. OneWaits'
    <3>1. /\ queue \in Seq(Job) /\ DOMAIN queue = 1 .. Len(queue) /\ Len(queue) \in Nat
          /\ Len(queue') = Len(queue)
          /\ \A i \in 1 .. Len(queue) :
                queue'[i] = IF i \in Waits(n) THEN x ELSE queue[i]
      BY <2>1, <2>2 DEF TypeOK
    <3>2. \A i \in 1 .. Len(queue) :
             queue'[i].node = queue[i].node /\ queue'[i].work = queue[i].work
      BY <1>1, <3>1 DEF Waits
    <3>. QED  BY <3>1, <3>2 DEF OneWaits
  <2>. QED  BY <1>3, <1>6, <2>3, <2>4, <2>5
<1>. QED  BY <1>7, <1>8

\* The line loses its first.
LEMMA LandedLine ==
  ASSUME TypeOK, results # <<>>, results' = Tail(results), UNCHANGED <<job, queue>>
  PROVE  /\ results' \in Seq(Job) /\ Head(results) \in Job
         /\ Len(Line) \in Nat \ {0} /\ Len(Line') = Len(Line) - 1
         /\ Line[1] = Head(results)
         /\ \A i \in 1 .. Len(Line) - 1 : Line'[i] = Line[i + 1]
<1>. DEFINE old == Line
            new == Line'
<1>1. results \in Seq(Job) /\ job \in Seq(Job) /\ queue \in Seq(Job)
  BY DEF TypeOK
<1>2. new = Tail(old) /\ old # <<>> /\ Head(old) = Head(results)
  <2>1. new = Tail(results) \o job \o queue
    BY DEF Line
  <2>2. old = results \o job \o queue
    BY DEF Line
  <2>3. /\ Tail(results) \o job \o queue = Tail(results \o job \o queue)
        /\ results \o job \o queue # <<>>
        /\ Head(results \o job \o queue) = Head(results)
    BY <1>1, LineTail
  <2>. HIDE DEF old, new
  <2>. QED  BY <2>1, <2>2, <2>3
<1>3. old \in Seq(Job)
  BY LineIsOfJobs
<1>. HIDE DEF old, new
<1>4. /\ Len(old) \in Nat \ {0} /\ Len(new) = Len(old) - 1 /\ old[1] = Head(results)
      /\ \A i \in 1 .. Len(old) - 1 : new[i] = old[i + 1]
  BY <1>2, <1>3, TailPlaces
<1>5. results' \in Seq(Job) /\ Head(results) \in Job
  BY <1>1
<1>. QED  BY <1>4, <1>5 DEF old, new

\* What a landed job must do for those behind it.
LEMMA LandedLineHolds ==
  ASSUME TypeOK, LineHolds, results # <<>>, results' = Tail(results),
         UNCHANGED <<job, queue>>,
         \A j \in Job :
            IsOnItsWay(j) /\ Precedes(Head(results), j) => IsOnItsWay(j)'
  PROVE  LineHolds'
<1>. DEFINE old == Line
            new == Line'
<1>1. /\ Len(old) \in Nat \ {0} /\ Len(new) = Len(old) - 1 /\ old[1] = Head(results)
      /\ \A i \in 1 .. Len(old) - 1 : new[i] = old[i + 1]
      /\ \A i \in 1 .. Len(old) : old[i] \in Job
  BY LandedLine, LineIsOfJobs
<1>2. /\ \A i \in 1 .. Len(old) : IsOnItsWay(old[i])
      /\ \A i, k \in 1 .. Len(old) : i < k => Precedes(old[i], old[k])
  BY DEF LineHolds
<1>. HIDE DEF old, new
<1>3. \A i \in 1 .. Len(new) : \E j \in Job : j = new[i] /\ IsOnItsWay(j)'
  <2>. TAKE i \in 1 .. Len(new)
  <2>1. i + 1 \in 1 .. Len(old) /\ 1 \in 1 .. Len(old) /\ 1 < i + 1
    BY <1>1
  <2>2. new[i] = old[i + 1] /\ old[i + 1] \in Job
    BY <1>1, <2>1
  <2>3. IsOnItsWay(old[i + 1]) /\ Precedes(old[1], old[i + 1])
    BY <1>2, <2>1
  <2>. QED  BY <1>1, <2>2, <2>3
<1>4. \A i, k \in 1 .. Len(new) : i < k => Precedes(new[i], new[k])
  BY <1>1, <1>2
<1>5. (\A i \in 1 .. Len(Line) : IsOnItsWay(Line[i]))'
  BY <1>3 DEF new, IsOnItsWay, Awaits, IsImage
<1>6. (\A i, k \in 1 .. Len(Line) : i < k => Precedes(Line[i], Line[k]))'
  BY <1>4 DEF new, Precedes
<1>. QED  BY <1>5, <1>6 DEF LineHolds

\* A card that lands awaited is shown: none behind it is passed over, and a
\* full raster behind it is of an image no longer shown.  One that lands
\* dropped leaves nothing shown.
LEMMA LandKeeps ==
  ASSUME IInv, Land
  PROVE  IInv'
<1>. USE DEF IInv, Land, frameVars
<1>1. /\ Head(results) \in Job /\ results' \in Seq(Job)
      /\ IsOnItsWay(Head(results))
  BY LandedLine DEF LineHolds
<1>2. PICK x \in Job : x = Head(results)
  BY <1>1
<1>3. PICK n \in Nodes : n = x.node
  BY DEF Job
<1>4. /\ x.ticket \in Nat /\ x.work \in {"card", "full"}
      /\ entries \in [Nodes -> Entry] /\ entries[n] \in Entry
      /\ converting \in [Nodes -> [oldest : Nat, newest : Nat]]
      /\ converting[n].oldest \in Nat /\ converting[n].newest \in Nat
      /\ converted \in [Nodes -> Nat] /\ converted[n] \in Nat
      /\ voided \in [Nodes -> Nat] /\ voided[n] \in Nat
      /\ published \in [Nodes -> Nat] /\ lastTicket \in Nat
  BY DEF Job, TypeOK
<1>5. IsOnItsWay(x)
  BY <1>1, <1>2
<1>6. OneWaits'
  BY DEF OneWaits
<1>7. SUFFICES /\ entries' \in [Nodes -> Entry]
               /\ converting' \in [Nodes -> [oldest : Nat, newest : Nat]]
               /\ converted' \in [Nodes -> Nat]
               /\ \A j \in Job : IsOnItsWay(j) /\ Precedes(x, j) => IsOnItsWay(j)'
               /\ SpansHold' /\ CardsAreTruthful' /\ RastersAreOwn'
  <2>1. LineHolds'
    BY <1>2, <1>7, LandedLineHolds
  <2>2. TypeOK'
    BY <1>1, <1>7 DEF TypeOK
  <2>. QED  BY <1>6, <1>7, <2>1, <2>2
<1>8. CASE x.work = "card"
  <2>1. PICK registers \in BOOLEAN : LandCard(x, registers)
    BY <1>2, <1>8
  <2>2. converted' = [converted EXCEPT ![n] = x.ticket]
    BY <1>2, <1>3, <1>8
  <2>3. converted[n] < x.ticket /\ x.ticket <= lastTicket
        /\ (voided[n] < x.ticket => Awaits(n, x.ticket))
    BY <1>3, <1>5, <1>8 DEF IsOnItsWay
  <2>4. CASE ~Awaits(n, x.ticket)
    <3>1. UNCHANGED <<entries, converting>>
      BY <1>3, <2>1, <2>4 DEF LandCard
    <3>2. x.ticket <= voided[n]
      BY <1>4, <2>3, <2>4
    <3>3. ASSUME NEW j \in Job, IsOnItsWay(j), Precedes(x, j) PROVE IsOnItsWay(j)'
      <4>1. j.node \in Nodes /\ j.ticket \in Nat
        BY DEF Job
      <4>2. CASE j.node # n
        BY <1>4, <2>2, <3>1, <3>3, <4>1, <4>2 DEF IsOnItsWay, Awaits, IsImage
      <4>3. CASE j.node = n /\ j.work = "card"
        <5>1. x.ticket < j.ticket
          BY <1>3, <1>8, <3>3, <4>3 DEF Precedes
        <5>. QED  BY <1>4, <2>2, <3>1, <3>3, <4>3, <5>1 DEF IsOnItsWay, Awaits
      <4>4. CASE j.node = n /\ j.work # "card"
        BY <1>4, <2>2, <2>3, <3>1, <3>3, <4>1, <4>4 DEF IsOnItsWay, IsImage
      <4>. QED  BY <4>2, <4>3, <4>4
    <3>4. /\ converted'[n] = x.ticket
          /\ \A m \in Nodes : m # n => converted'[m] = converted[m]
      BY <1>4, <2>2
    <3>5. SpansHold'
      BY <1>4, <2>3, <3>1, <3>2, <3>4, SMTT(30) DEF SpansHold, TypeOK, NoSpan
    <3>6. CardsAreTruthful'
      BY <1>4, <2>3, <3>1, <3>2, <3>4, SMTT(30) DEF CardsAreTruthful
    <3>7. RastersAreOwn'
      BY <3>1 DEF RastersAreOwn, IsImage
    <3>. QED  BY <1>4, <2>2, <3>1, <3>3, <3>5, <3>6, <3>7
  <2>5. CASE Awaits(n, x.ticket)
    <3>. DEFINE shown == [ticket |-> x.ticket, raster |-> 0,
                          shows |-> IF x.image /\ registers THEN "pending" ELSE "message"]
                span == IF x.ticket = converting[n].newest THEN NoSpan
                        ELSE [converting[n] EXCEPT !.oldest = x.ticket + 1]
    <3>1. /\ entries' = [entries EXCEPT ![n] = shown]
          /\ converting' = [converting EXCEPT ![n] = span]
      BY <1>3, <1>4, <2>1, <2>5 DEF LandCard
    <3>2. /\ shown \in Entry /\ span \in [oldest : Nat, newest : Nat]
          /\ shown.ticket = x.ticket /\ shown.raster = 0
      <4>1. PICK s \in {"pending", "message"} :
               shown = [ticket |-> x.ticket, raster |-> 0, shows |-> s]
        OBVIOUS
      <4>2. span \in [oldest : Nat, newest : Nat]
        <5>1. NoSpan \in [oldest : Nat, newest : Nat]
          BY DEF NoSpan
        <5>2. converting[n] \in [oldest : Nat, newest : Nat] /\ x.ticket + 1 \in Nat
          BY <1>4, SMTT(30)
        <5>3. [converting[n] EXCEPT !.oldest = x.ticket + 1] \in [oldest : Nat, newest : Nat]
          BY <5>2
        <5>. QED  BY <5>1, <5>3
      <4>. HIDE DEF shown, span
      <4>3. shown \in Entry
        BY <1>4, <4>1 DEF Entry
      <4>. QED  BY <4>1, <4>2, <4>3
    <3>3. /\ converting[n].oldest <= x.ticket /\ x.ticket <= converting[n].newest
          /\ voided[n] < x.ticket
          /\ published[n] = converting[n].newest
      <4>1. converting[n].oldest <= x.ticket /\ x.ticket <= converting[n].newest
        BY <1>4, <2>5 DEF Awaits
      <4>2. converting[n] # NoSpan
        BY <1>4, <4>1 DEF NoSpan
      <4>3. voided[n] < converting[n].oldest /\ published[n] = converting[n].newest
        BY <4>2 DEF SpansHold
      <4>. QED  BY <1>4, <4>1, <4>3
    <3>4. /\ x.ticket = converting[n].newest => span = NoSpan
          /\ x.ticket # converting[n].newest =>
                /\ span # NoSpan
                /\ span.oldest = x.ticket + 1 /\ span.newest = converting[n].newest
      BY <1>4, <3>3 DEF NoSpan
    <3>. HIDE DEF shown, span
    <3>5. /\ entries'[n] = shown /\ converting'[n] = span /\ converted'[n] = x.ticket
          /\ \A m \in Nodes : m # n =>
                /\ entries'[m] = entries[m] /\ converting'[m] = converting[m]
                /\ converted'[m] = converted[m]
      BY <1>4, <2>2, <3>1
    <3>6. ASSUME NEW j \in Job, IsOnItsWay(j), Precedes(x, j) PROVE IsOnItsWay(j)'
      <4>1. j.node \in Nodes /\ j.ticket \in Nat
        BY DEF Job
      <4>2. CASE j.node # n
        BY <3>5, <3>6, <4>1, <4>2 DEF IsOnItsWay, Awaits, IsImage
      <4>3. CASE j.node = n /\ j.work = "card"
        <5>1. x.ticket < j.ticket
          BY <1>3, <1>8, <3>6, <4>3 DEF Precedes
        <5>2. Awaits(n, j.ticket)
          BY <1>4, <3>3, <3>6, <4>1, <4>3, <5>1 DEF IsOnItsWay
        <5>3. Awaits(n, j.ticket)'
          BY <1>4, <3>3, <3>4, <3>5, <4>1, <5>1, <5>2 DEF Awaits
        <5>. QED  BY <3>5, <3>6, <4>3, <5>1, <5>3 DEF IsOnItsWay, Awaits
      <4>4. CASE j.node = n /\ j.work # "card"
        <5>1. j.work = "full" => j.ticket < x.ticket
          BY <1>4, <2>3, <3>6, <4>1, <4>4 DEF IsOnItsWay
        <5>. QED  BY <1>4, <3>2, <3>5, <3>6, <4>1, <4>4, <5>1, SMTT(30) DEF IsOnItsWay, IsImage
      <4>. QED  BY <4>2, <4>3, <4>4
    <3>7. SpansHold'
      <4>1. converted'[n] <= lastTicket /\ converting'[n] = span
            /\ published[n] <= lastTicket /\ voided[n] <= lastTicket
        BY <2>3, <3>5 DEF SpansHold
      <4>2. span # NoSpan =>
               /\ voided[n] < span.oldest /\ x.ticket < span.oldest
               /\ span.oldest <= span.newest /\ span.newest = published[n]
        BY <1>4, <3>3, <3>4, SMTT(30)
      <4>. QED  BY <3>5, <4>1, <4>2 DEF SpansHold
    <3>8. CardsAreTruthful'
      BY <1>4, <2>3, <3>2, <3>3, <3>4, <3>5, SMTT(30) DEF CardsAreTruthful
    <3>9. RastersAreOwn'
      <4>1. shown.ticket # 0
        BY <1>4, <2>3, <3>2
      <4>. QED  BY <3>2, <3>5, <4>1 DEF RastersAreOwn, IsImage
    <3>. QED  BY <1>4, <2>2, <3>1, <3>2, <3>6, <3>7, <3>8, <3>9
  <2>. QED  BY <2>4, <2>5
<1>9. CASE x.work = "full"
  <2>1. PICK registers \in BOOLEAN : LandFull(x, registers)
    BY <1>2, <1>9
  <2>2. UNCHANGED <<converting, converted>>
    BY <1>2, <1>9, <2>1 DEF LandFull
  <2>. DEFINE landed == [entries[n] EXCEPT
                           !.shows = IF registers THEN "ready" ELSE "failed",
                           !.raster = x.ticket]
  <2>3. CASE IsImage(entries[n]) /\ entries[n].ticket = x.ticket
    <3>1. entries' = [entries EXCEPT ![n] = landed]
      BY <1>3, <1>4, <2>1, <2>3 DEF LandFull, Entry
    <3>2. landed \in Entry /\ landed.ticket = x.ticket /\ landed.raster = x.ticket
      BY <1>4, <2>3 DEF Entry
    <3>. HIDE DEF landed
    <3>3. /\ entries'[n] = landed
          /\ \A m \in Nodes : m # n => entries'[m] = entries[m]
          /\ entries' \in [Nodes -> Entry]
      BY <1>4, <3>1, <3>2
    <3>4. ASSUME NEW j \in Job, IsOnItsWay(j), Precedes(x, j) PROVE IsOnItsWay(j)'
      <4>1. j.node \in Nodes
        BY DEF Job
      <4>2. j.node = n /\ j.work = "full" => j.ticket # x.ticket
        BY <1>3, <1>9, <3>4 DEF Precedes
      <4>. QED  BY <2>2, <3>2, <3>3, <3>4, <4>1, <4>2 DEF IsOnItsWay, Awaits, IsImage
    <3>5. CardsAreTruthful'
      BY <2>2, <2>3, <3>2, <3>3 DEF CardsAreTruthful
    <3>6. SpansHold' /\ RastersAreOwn'
      BY <2>2, <2>3, <3>2, <3>3 DEF SpansHold, RastersAreOwn, IsImage
    <3>. QED  BY <1>4, <2>2, <3>3, <3>4, <3>5, <3>6
  <2>4. CASE ~(IsImage(entries[n]) /\ entries[n].ticket = x.ticket)
    <3>1. UNCHANGED entries
      BY <1>3, <2>1, <2>4 DEF LandFull
    <3>2. ASSUME NEW j \in Job, IsOnItsWay(j), Precedes(x, j) PROVE IsOnItsWay(j)'
      BY <2>2, <3>1, <3>2 DEF IsOnItsWay, Awaits, IsImage
    <3>3. SpansHold' /\ CardsAreTruthful' /\ RastersAreOwn'
      BY <2>2, <3>1 DEF SpansHold, CardsAreTruthful, RastersAreOwn, IsImage
    <3>. QED  BY <1>4, <2>2, <3>1, <3>2, <3>3
  <2>. QED  BY <2>3, <2>4
<1>. QED  BY <1>4, <1>8, <1>9

\* The thread moves jobs along the line, and none about.
LEMMA ThreadKeeps ==
  ASSUME IInv, TakeJob \/ SendResult \/ Wake
  PROVE  IInv'
<1>. USE DEF IInv, storeVars, frameVars, histVars
<1>1. results \in Seq(Job) /\ job \in Seq(Job) /\ queue \in Seq(Job) /\ Len(job) <= 1
  BY DEF TypeOK
<1>2. /\ results' \in Seq(Job) /\ job' \in Seq(Job) /\ queue' \in Seq(Job)
      /\ Len(job') <= 1 /\ Line' = Line
  <2>1. CASE TakeJob
    <3>1. /\ Head(queue) \in Job /\ Tail(queue) \in Seq(Job)
          /\ job' = <<Head(queue)>> /\ queue' = Tail(queue)
          /\ results' = results /\ queue # <<>> /\ job = <<>>
      BY <1>1, <2>1 DEF TakeJob
    <3>2. Line' = results \o <<Head(queue)>> \o Tail(queue)
      BY <3>1 DEF Line
    <3>3. Line = results \o <<>> \o queue
      BY <3>1 DEF Line
    <3>. QED  BY <1>1, <3>1, <3>2, <3>3, LineTaken
  <2>2. CASE SendResult
    <3>1. results' = results \o job /\ job' = <<>> /\ queue' = queue
      BY <2>2 DEF SendResult
    <3>2. Line' = (results \o job) \o <<>> \o queue
      BY <3>1 DEF Line
    <3>3. Line = results \o job \o queue
      BY DEF Line
    <3>. QED  BY <1>1, <3>1, <3>2, <3>3, LineSent
  <2>3. CASE Wake
    BY <1>1, <2>3 DEF Wake, Line
  <2>. QED  BY <2>1, <2>2, <2>3
<1>3. /\ UNCHANGED <<entries, converting, lastTicket, published, voided, converted>>
      /\ drained' = drained
  BY DEF TakeJob, SendResult, Wake
<1>4. TypeOK'
  BY <1>2, <1>3 DEF TypeOK
<1>5. LineHolds'
  BY <1>2, <1>3 DEF LineHolds, IsOnItsWay, Precedes, Awaits, IsImage
<1>6. OneWaits'
  <2>1. CASE TakeJob
    <3>1. queue' = Tail(queue) /\ queue # <<>>
      BY <2>1 DEF TakeJob
    <3>2. /\ Len(queue) \in Nat \ {0} /\ Len(queue') = Len(queue) - 1
          /\ \A i \in 1 .. Len(queue) - 1 : queue'[i] = queue[i + 1]
      BY <1>1, <3>1, TailPlaces
    <3>. QED  BY <3>2 DEF OneWaits
  <2>2. CASE UNCHANGED queue
    BY <2>2 DEF OneWaits
  <2>. QED  BY <2>1, <2>2 DEF SendResult, Wake
<1>7. SpansHold' /\ CardsAreTruthful' /\ RastersAreOwn'
  BY <1>3 DEF SpansHold, CardsAreTruthful, RastersAreOwn, IsImage
<1>. QED  BY <1>4, <1>5, <1>6, <1>7

\* What leaves the store, the line and the history alone.
LEMMA StutterKeeps ==
  ASSUME IInv, UNCHANGED <<storeVars, queue, job, results, histVars>>,
         drained' \subseteq Nodes
  PROVE  IInv'
<1>. USE DEF IInv, storeVars, histVars
<1>1. TypeOK' /\ OneWaits'
  BY DEF TypeOK, OneWaits
<1>2. LineHolds'
  <2>1. Line' = Line
    BY DEF Line
  <2>. QED  BY <2>1 DEF LineHolds, IsOnItsWay, Precedes, Awaits, IsImage
<1>3. SpansHold' /\ CardsAreTruthful' /\ RastersAreOwn'
  BY DEF SpansHold, CardsAreTruthful, RastersAreOwn, IsImage
<1>. QED  BY <1>1, <1>2, <1>3
-----------------------------------------------------------------------------

\* The invariant is inductive: whatever order frames, publishes, conversions,
\* evictions, clears and reconciles come in, every job stays in its place.
THEOREM Inductive == IInv /\ [Next]_vars => IInv'
<1>. SUFFICES ASSUME IInv, [Next]_vars PROVE IInv'
  OBVIOUS
<1>1. drained \subseteq Nodes
  BY DEF IInv, TypeOK
<1>2. CASE Clear
  BY <1>1, <1>2, DropKeeps DEF Clear, frameVars
<1>3. CASE BeginFrame
  BY <1>3, StutterKeeps DEF BeginFrame, threadVars
<1>4. CASE Land
  BY <1>4, LandKeeps
<1>5. CASE EndFrame
  <2>1. PICK held \in SUBSET Nodes : Drop(Nodes \ held)
    BY <1>5 DEF EndFrame
  <2>2. Nodes \ held \in SUBSET Nodes /\ drained' \subseteq Nodes
        /\ UNCHANGED <<threadVars, published, converted>>
    BY <1>1, <1>5 DEF EndFrame
  <2>. QED  BY <2>1, <2>2, DropKeeps
<1>6. ASSUME NEW n \in Nodes, Remove(n) PROVE IInv'
  BY <1>1, <1>6, DropKeeps DEF Remove, frameVars
<1>7. ASSUME NEW n \in Nodes, ConvertFull(n) PROVE IInv'
  BY <1>7, ConvertFullKeeps
<1>8. ASSUME NEW n \in Nodes, NEW image \in BOOLEAN, Publish(n, image) PROVE IInv'
  BY <1>8, PublishKeeps
<1>9. CASE TakeJob \/ SendResult \/ Wake
  BY <1>9, ThreadKeeps
<1>10. CASE UNCHANGED vars
  BY <1>1, <1>10, StutterKeeps DEF vars, storeVars, threadVars, frameVars, histVars
<1>. QED  BY <1>2, <1>3, <1>4, <1>5, <1>6, <1>7, <1>8, <1>9, <1>10 DEF Next

\* Every reachable state has the invariant, for any nodes and any MaxTickets.
THEOREM IInvHolds == Spec => []IInv
BY InitHolds, Inductive, PTL DEF Spec

\* No card is shown that was dropped or passed over, and what converts no more
\* is shown: PreviewStore::land_card.
THEOREM CardsStayTruthful == Spec => []CardsAreTruthful
<1>1. IInv => CardsAreTruthful
  BY DEF IInv
<1>. QED  BY <1>1, IInvHolds, PTL

\* The debug_assert of PreviewStore::land_full holds of every result that waits
\* to land.
THEOREM RastersAreAwaited == Spec => []RastersFindTheirImage
<1>1. IInv => RastersFindTheirImage
  <2>. SUFFICES ASSUME IInv PROVE RastersFindTheirImage
    OBVIOUS
  <2>1. /\ results \in Seq(Job) /\ job \in Seq(Job) /\ queue \in Seq(Job)
    BY DEF IInv, TypeOK
  <2>2. \A i \in 1 .. Len(results) :
           i \in 1 .. Len(Line) /\ Line[i] = results[i]
    BY <2>1, LinePlaces DEF Line
  <2>3. \A i \in DOMAIN results : IsOnItsWay(results[i])
    BY <2>1, <2>2 DEF IInv, LineHolds
  <2>. QED  BY <2>3 DEF IInv, RastersAreOwn, RastersFindTheirImage, IsOnItsWay
<1>. QED  BY <1>1, IInvHolds, PTL
=============================================================================
