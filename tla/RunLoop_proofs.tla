--------------------------- MODULE RunLoop_proofs ---------------------------
(***************************************************************************)
(* What TLAPS proves of RunLoop, for every program, seed and bound.        *)
(*                                                                         *)
(* Five invariants, each on top of the ones before: Typed, the shape of    *)
(* slots, blobs, turns and counts; Releases, what is held and what is      *)
(* believed of it; Planned, what a run may count on until each turn;       *)
(* Honest, what a digest stands for; and Evictions, what an eviction       *)
(* leaves.  Honest needs every path wire to lead from a port its producer  *)
(* always binds (PathsAreBound): without that RunIsFresh does not hold.    *)
(*                                                                         *)
(* The recursions of the model (keys, plan, sweep, what the program would  *)
(* compute from scratch) are instances of Recursion, which proves that     *)
(* each satisfies the equation that defines it.                            *)
(***************************************************************************)
EXTENDS RunLoop, TLAPS, FiniteSetTheorems

(* The recursion of the keys: a digest folds those of the nodes before.      *)
StampBody(env, cur, n) ==
    IF IsRunnable(env.st[n]) THEN Keyed(env.g, n, env.st, env.s, cur, env.known)
    ELSE env.s[n].cur
Stamping == INSTANCE Recursion WITH Body <- StampBody

\* What an input folds into a digest depends on the digests of the nodes
\* before its own.
LEMMA FoldedReadsProducers ==
    ASSUME NEW g, IsProgram(g), NEW n \in DOMAIN g, NEW k \in DOMAIN g[n].inputs,
           NEW st, NEW s, NEW known, NEW cur, NEW other,
           \A m \in DOMAIN g : m < n => cur[m] = other[m]
    PROVE  Folded(g[n].inputs[k], st, s, cur, known) = Folded(g[n].inputs[k], st, s, other, known)
<1>. DEFINE i == g[n].inputs[k]
<1>1. CASE i.kind = "wire"
  <2>1. cur[i.from] = other[i.from]
    BY <1>1 DEF IsProgram
  <2>. QED  BY <2>1 DEF Folded, FoldedInput
<1>2. CASE i.kind # "wire"
  <2>1. Delivery(i, st) = i.kind
    BY <1>2 DEF Delivery
  <2>2. i.kind = "unbound" \/ i.kind = "file"
    <3>1. i \in Inputs
      BY DEF IsProgram
    <3>. QED  BY <3>1, <1>2 DEF Inputs
  <2>. QED  BY <2>1, <2>2 DEF Folded, FoldedInput
<1>. QED  BY <1>1, <1>2

\* The digests stamped as a run begins are those of their defining equation,
\* producers before consumers.
LEMMA KeysAt ==
    ASSUME NEW g, IsProgram(g), NEW st, NEW s, NEW known
    PROVE  \A n \in DOMAIN g : Keys(g, st, s, known)[n] =
              IF IsRunnable(st[n]) THEN Keyed(g, n, st, s, Keys(g, st, s, known), known)
              ELSE s[n].cur
<1>. DEFINE env == [g |-> g, st |-> st, s |-> s, known |-> known]
            rank == [n \in DOMAIN g |-> n]
<1>1. Nodes = 1..Cardinality(Nodes) /\ Cardinality(Nodes) \in Nat
  BY ScheduleAssumption, FS_CardinalityType
<1>2. rank \in [DOMAIN g -> Nat] /\ \A n \in DOMAIN g : rank[n] < Cardinality(Nodes) + 1
  BY <1>1 DEF IsProgram
<1>3. Stamping!ReadsBelow(env, DOMAIN g, rank)
  <2>1. SUFFICES ASSUME NEW n \in DOMAIN g, NEW cur, NEW other,
                        \A m \in DOMAIN g : rank[m] < rank[n] => cur[m] = other[m]
                 PROVE  StampBody(env, cur, n) = StampBody(env, other, n)
    BY Zenon DEF Stamping!ReadsBelow
  <2>2. \A m \in DOMAIN g : m < n => cur[m] = other[m]
    BY <2>1
  <2>3. \A k \in DOMAIN g[n].inputs :
           Folded(g[n].inputs[k], st, s, cur, known) = Folded(g[n].inputs[k], st, s, other, known)
    BY <2>2, FoldedReadsProducers
  <2>4. Keyed(g, n, st, s, cur, known) = Keyed(g, n, st, s, other, known)
    BY <2>3 DEF Keyed
  <2>. QED  BY <2>4 DEF StampBody
<1>4. \E f : f = [n \in DOMAIN g |-> StampBody(env, f, n)]
  <2>. HIDE DEF env, rank
  <2>. QED  BY <1>1, <1>2, <1>3, Stamping!RecursionSolved
<1>5. \A f : [n \in DOMAIN g |-> StampBody(env, f, n)] =
             [n \in DOMAIN g |-> IF IsRunnable(st[n]) THEN Keyed(g, n, st, s, f, known)
                                 ELSE s[n].cur]
  BY DEF StampBody
<1>6. \E f : f = [n \in DOMAIN g |-> IF IsRunnable(st[n]) THEN Keyed(g, n, st, s, f, known)
                                 ELSE s[n].cur]
  <2>. HIDE DEF env
  <2>. QED  BY <1>4, <1>5
<1>7. Keys(g, st, s, known) =
        [n \in DOMAIN g |-> IF IsRunnable(st[n]) THEN Keyed(g, n, st, s, Keys(g, st, s, known), known)
                                 ELSE s[n].cur]
  BY Zenon, <1>6 DEF Keys
<1>. QED  BY Zenon, <1>7

-----------------------------------------------------------------------------
IsSlot(x)  == x = [cur |-> x.cur, val |-> x.val]
IsValue(v) == v = [made |-> v.made, ports |-> v.ports, under |-> v.under, blob |-> v.blob,
                   arity |-> v.arity]
IsBlob(b)  == b = [digest |-> b.digest, ports |-> b.ports, made |-> b.made,
                   arity |-> b.arity, intact |-> b.intact]
HoldsValue(x) == IsSlot(x) /\ (x.val = Nothing \/ IsValue(x.val))

AreSlots(s) == s = [n \in Nodes |-> s[n]] /\ \A n \in Nodes : HoldsValue(s[n])

(* The same value, whatever is believed of its blob.                         *)
SameValue(v, w) ==
    /\ IsValue(v) /\ IsValue(w)
    /\ v.made = w.made /\ v.under = w.under /\ v.ports = w.ports /\ v.arity = w.arity

\* A value of the shape a slot holds is not the mark of an empty slot.
LEMMA ValueIsSomething ==
    ASSUME NEW v, IsValue(v)
    PROVE  v # Nothing
BY DEF IsValue, Nothing

\* A blob of the shape the disk holds is not the mark of a free name.
LEMMA BlobIsSomething ==
    ASSUME NEW v, IsBlob(v)
    PROVE  v # Nothing
BY DEF IsBlob, Nothing

(* A store without effect, or one of a current value.                        *)
Stored(n, slot, r) ==
    /\ Disk(n) /\ IsCurrent(slot)
    /\ HoldsValue(r.slot) /\ r.slot.cur = slot.cur /\ SameValue(r.slot.val, slot.val)
    /\ r.slot.val.blob = "written" => Covers(r.blob, slot.cur, slot.val.ports, slot.val.arity)
    /\ r.slot.val.blob = "unwritable" => program[n].opaque
    /\ \/ r.blob = disk[n]
       \/ r.blob = [digest |-> slot.cur, ports |-> slot.val.ports, made |-> slot.val.made,
                    arity |-> slot.val.arity, intact |-> TRUE]

\* store_node changes nothing, or writes the current value under its digest
\* and changes what is believed of the blob alone.
LEMMA StoresReturns ==
    ASSUME NEW n, NEW slot, HoldsValue(slot), NEW policy,
           NEW r \in Stores(n, slot, policy)
    PROVE  \/ r.slot = slot /\ r.blob = disk[n]
           \/ Stored(n, slot, r)
<1>1. CASE ~Disk(n) \/ ~IsCurrent(slot)
  BY <1>1 DEF Stores
<1>2. CASE Disk(n) /\ IsCurrent(slot)
  <2>. DEFINE noted(belief) == [slot EXCEPT !.val.blob = belief]
              fresh == [digest |-> slot.cur, ports |-> slot.val.ports,
                        made |-> slot.val.made, arity |-> slot.val.arity, intact |-> TRUE]
  <2>1. slot.val # Nothing /\ IsValue(slot.val) /\ IsSlot(slot)
    BY <1>2 DEF IsCurrent, HoldsValue
  <2>2. ASSUME NEW belief
        PROVE  /\ HoldsValue(noted(belief)) /\ noted(belief).cur = slot.cur
               /\ SameValue(noted(belief).val, slot.val)
               /\ noted(belief).val.blob = belief
    BY <2>1 DEF HoldsValue, IsSlot, IsValue, SameValue
  <2>3. Covers(fresh, slot.cur, slot.val.ports, slot.val.arity)
    <3>1. IsBlob(fresh)
      BY DEF IsBlob
    <3>2. fresh.digest = slot.cur /\ fresh.ports = slot.val.ports /\ fresh.arity = slot.val.arity
      OBVIOUS
    <3>. HIDE DEF fresh
    <3>. QED  BY <3>1, <3>2, <1>2, BlobIsSomething DEF Covers, IsCurrent
  <2>4. \/ r = [slot |-> noted("unwritable"), blob |-> disk[n], fault |-> 0] /\ program[n].opaque
        \/ /\ r = [slot |-> noted("written"), blob |-> disk[n], fault |-> 0]
           /\ Covers(disk[n], slot.cur, slot.val.ports, slot.val.arity)
        \/ r = [slot |-> noted("written"), blob |-> fresh, fault |-> 0]
        \/ r = [slot |-> noted("owed"), blob |-> disk[n], fault |-> 1]
    BY <1>2 DEF Stores
  <2>5. \/ r.slot = noted("unwritable") /\ r.blob = disk[n] /\ program[n].opaque
        \/ r.slot = noted("written") /\ r.blob = disk[n] /\ Covers(disk[n], slot.cur, slot.val.ports, slot.val.arity)
        \/ r.slot = noted("written") /\ r.blob = fresh
        \/ r.slot = noted("owed") /\ r.blob = disk[n]
    <3>. HIDE DEF noted, fresh
    <3>. QED  BY <2>4
  <2>6. PICK belief :
          /\ r.slot = noted(belief)
          /\ belief = "written" => Covers(r.blob, slot.cur, slot.val.ports, slot.val.arity)
          /\ belief = "unwritable" => program[n].opaque
          /\ r.blob = disk[n] \/ r.blob = fresh
    <3>. HIDE DEF noted, fresh
    <3>. QED  BY <2>3, <2>5
  <2>. HIDE DEF noted
  <2>. QED  BY <1>2, <2>2, <2>6 DEF Stored
<1>. QED  BY <1>1, <1>2

(* What is left of a value a reader is done with.                            *)
Lessened(n, v, w) ==
    /\ n \in DOMAIN program /\ ~Ram(n)
    /\ \/ v = Nothing
       \/ /\ IsValue(v) /\ IsValue(w)
          /\ v.made = w.made /\ v.under = w.under /\ v.blob = w.blob /\ v.arity = w.arity
          /\ v.ports \subseteq w.ports

Spent(left, n) == {p \in Ports(program, n) : reads[n][p] > 0 /\ left[n][p] = 0}

\* Giving reads up keeps each slot's digest and shape, and takes from its
\* value at most the ports just drained.
LEMMA LetGoReturns ==
    ASSUME NEW s, AreSlots(s), NEW left
    PROVE  /\ AreSlots(LetGo(s, left))
           /\ \A n \in Nodes :
                /\ LetGo(s, left)[n].cur = s[n].cur
                /\ \/ LetGo(s, left)[n] = s[n]
                   \/ Lessened(n, LetGo(s, left)[n].val, s[n].val)
                /\ n \in DOMAIN program /\ ~Ram(n) /\ s[n].val # Nothing =>
                     \/ Spent(left, n) = {} /\ LetGo(s, left)[n] = s[n]
                     \/ /\ ~ Drained(left, n) /\ LetGo(s, left)[n].val # Nothing
                        /\ LetGo(s, left)[n].val.ports = s[n].val.ports \ Spent(left, n)
                     \/ LetGo(s, left)[n].val = Nothing /\ Drained(left, n)
                          /\ Spent(left, n) # {}
<1>. DEFINE t == LetGo(s, left)
<1>1. t = [n \in Nodes |-> t[n]]
  BY DEF LetGo
<1>2. ASSUME NEW n \in Nodes
      PROVE  /\ HoldsValue(t[n]) /\ t[n].cur = s[n].cur
             /\ t[n] = s[n] \/ Lessened(n, t[n].val, s[n].val)
             /\ n \in DOMAIN program /\ ~Ram(n) /\ s[n].val # Nothing =>
                     \/ Spent(left, n) = {} /\ t[n] = s[n]
                     \/ /\ ~ Drained(left, n) /\ t[n].val # Nothing
                        /\ t[n].val.ports = s[n].val.ports \ Spent(left, n)
                     \/ t[n].val = Nothing /\ Drained(left, n) /\ Spent(left, n) # {}
  <2>0. HoldsValue(s[n])
    BY DEF AreSlots
  <2>1. t[n] = IF n \notin DOMAIN program \/ s[n].val = Nothing THEN s[n]
               ELSE IF Ram(n) \/ Spent(left, n) = {} THEN s[n]
               ELSE IF Drained(left, n) THEN [s[n] EXCEPT !.val = Nothing]
               ELSE [s[n] EXCEPT !.val.ports = @ \ Spent(left, n)]
    BY DEF LetGo, Spent
  <2>2. CASE n \notin DOMAIN program \/ s[n].val = Nothing \/ Ram(n) \/ Spent(left, n) = {}
    BY <2>0, <2>1, <2>2
  <2>3. CASE /\ n \in DOMAIN program /\ s[n].val # Nothing /\ ~Ram(n)
             /\ Spent(left, n) # {} /\ Drained(left, n)
    BY <2>0, <2>1, <2>3 DEF HoldsValue, IsSlot, Lessened
  <2>4. CASE /\ n \in DOMAIN program /\ s[n].val # Nothing /\ ~Ram(n)
             /\ Spent(left, n) # {} /\ ~Drained(left, n)
    <3>1. t[n] = [s[n] EXCEPT !.val.ports = @ \ Spent(left, n)]
      BY <2>1, <2>4
    <3>2. IsSlot(s[n]) /\ IsValue(s[n].val)
      BY <2>0, <2>4 DEF HoldsValue
    <3>3. IsSlot(t[n]) /\ t[n].cur = s[n].cur /\ IsValue(t[n].val)
           /\ t[n].val.made = s[n].val.made /\ t[n].val.under = s[n].val.under
           /\ t[n].val.blob = s[n].val.blob /\ t[n].val.arity = s[n].val.arity
           /\ t[n].val.ports = s[n].val.ports \ Spent(left, n)
      BY <3>1, <3>2 DEF IsSlot, IsValue
    <3>. QED  BY <2>4, <3>2, <3>3, ValueIsSomething DEF HoldsValue, Lessened
  <2>. QED  BY <2>2, <2>3, <2>4
<1>. QED  BY <1>1, <1>2 DEF AreSlots

\* release_drained_outputs returns the slot, emptied or as it was.
LEMMA ReleaseDrainedReturns ==
    ASSUME NEW n, NEW slot, HoldsValue(slot)
    PROVE  /\ HoldsValue(ReleaseDrained(n, slot)) /\ ReleaseDrained(n, slot).cur = slot.cur
           /\ \/ ReleaseDrained(n, slot) = slot /\ (Ram(n) \/ ~Drained(reads, n))
              \/ /\ ReleaseDrained(n, slot).val = Nothing
                 /\ ~Ram(n) /\ Drained(reads, n)
BY DEF ReleaseDrained, HoldsValue, IsSlot

\* A slot whose value is taken keeps its digest.
LEMMA EmptiedSlot ==
    ASSUME NEW x, HoldsValue(x)
    PROVE  /\ HoldsValue([x EXCEPT !.val = Nothing])
           /\ [x EXCEPT !.val = Nothing].cur = x.cur
           /\ [x EXCEPT !.val = Nothing].val = Nothing
BY DEF HoldsValue, IsSlot

\* A slot given another digest keeps its value.
LEMMA RekeyedSlot ==
    ASSUME NEW x, HoldsValue(x), NEW c
    PROVE  /\ HoldsValue([x EXCEPT !.cur = c])
           /\ [x EXCEPT !.cur = c].cur = c
           /\ [x EXCEPT !.cur = c].val = x.val
BY DEF HoldsValue, IsSlot

\* Writing one well-shaped slot leaves the others as they were.
LEMMA OneSlotWritten ==
    ASSUME NEW s, AreSlots(s), NEW n \in Nodes, NEW x, HoldsValue(x)
    PROVE  /\ AreSlots([s EXCEPT ![n] = x])
           /\ [s EXCEPT ![n] = x][n] = x
           /\ \A m \in Nodes : m # n => [s EXCEPT ![n] = x][m] = s[m]
BY DEF AreSlots

\* Emptying one slot leaves the others as they were.
LEMMA OneSlotEmptied ==
    ASSUME NEW s, AreSlots(s), NEW n \in Nodes, NEW t, t = [s EXCEPT ![n].val = Nothing]
    PROVE  /\ AreSlots(t)
           /\ t[n].cur = s[n].cur /\ t[n].val = Nothing
           /\ \A m \in Nodes : m # n => t[m] = s[m]
<1>1. HoldsValue(s[n])
  BY DEF AreSlots
<1>. DEFINE x == [s[n] EXCEPT !.val = Nothing]
<1>2. t = [s EXCEPT ![n] = x]
  OBVIOUS
<1>3. HoldsValue(x) /\ x.cur = s[n].cur /\ x.val = Nothing
  BY <1>1, EmptiedSlot
<1>. HIDE DEF x
<1>4. AreSlots([s EXCEPT ![n] = x])
  BY <1>3, OneSlotWritten
<1>5. [s EXCEPT ![n] = x][n] = x
  BY <1>3 DEF AreSlots
<1>6. \A m \in Nodes : m # n => [s EXCEPT ![n] = x][m] = s[m]
  BY <1>3 DEF AreSlots
<1>. QED  BY <1>2, <1>3, <1>4, <1>5, <1>6

(* What hydration leaves: the value held, maybe stored, or the one decoded.  *)
Decoded(n, slot) ==
    [made |-> disk[n].made, ports |-> disk[n].ports, under |-> slot.cur,
     blob |-> "written", arity |-> program[n].outputs]

\* hydrate_reuse serves a resident value that covers the demand, or the
\* decoded blob that does.
LEMMA HydratedReturns ==
    ASSUME NEW n, NEW slot, HoldsValue(slot), NEW h \in Hydrated(n, slot)
    PROVE  /\ HoldsValue(h.slot) /\ h.slot.cur = slot.cur /\ IsCurrent(h.slot)
           /\ demand[n] \subseteq h.slot.val.ports
           /\ \/ /\ IsResidentHit(slot, demand[n])
                 /\ (h.slot = slot /\ h.blob = disk[n]) \/ Stored(n, slot, h)
              \/ /\ Disk(n) /\ Covers(disk[n], slot.cur, demand[n], program[n].outputs)
                 /\ h.slot.val = Decoded(n, slot) /\ h.blob = disk[n]
<1>1. CASE IsResidentHit(slot, demand[n])
  <2>1. \/ h.slot = slot /\ h.blob = disk[n]
        \/ h \in Stores(n, slot, "PreserveCovering")
    <3>1. Hydrated(n, slot) = IF slot.val.blob = "owed" THEN Stores(n, slot, "PreserveCovering")
                              ELSE {[slot |-> slot, blob |-> disk[n], fault |-> 0]}
      BY <1>1 DEF Hydrated
    <3>2. CASE slot.val.blob = "owed"
      BY Zenon, <3>1, <3>2
    <3>3. CASE slot.val.blob # "owed"
      BY <3>1, <3>3
    <3>. QED  BY <3>2, <3>3
  <2>2. CASE h.slot = slot /\ h.blob = disk[n]
    BY <1>1, <2>2 DEF IsResidentHit
  <2>3. CASE h \in Stores(n, slot, "PreserveCovering")
    <3>1. \/ h.slot = slot /\ h.blob = disk[n]
          \/ Stored(n, slot, h)
      BY <2>3, StoresReturns
    <3>2. CASE Stored(n, slot, h)
      BY <1>1, <3>2, ValueIsSomething DEF Stored, IsResidentHit, IsCurrent, SameValue
    <3>. QED  BY <3>1, <3>2, <2>2
  <2>. QED  BY <2>1, <2>2, <2>3
<1>2. CASE ~IsResidentHit(slot, demand[n])
  <2>1. /\ Disk(n) /\ Covers(disk[n], slot.cur, demand[n], program[n].outputs)
        /\ h = [slot |-> [slot EXCEPT !.val = Decoded(n, slot)], blob |-> disk[n], fault |-> 0]
    BY <1>2 DEF Hydrated, Decoded
  <2>2. h.slot = [slot EXCEPT !.val = Decoded(n, slot)] /\ h.blob = disk[n]
    BY <2>1
  <2>3. IsSlot(h.slot) /\ h.slot.cur = slot.cur /\ h.slot.val = Decoded(n, slot)
    BY <2>2 DEF HoldsValue, IsSlot
  <2>4. IsValue(Decoded(n, slot)) /\ Decoded(n, slot).under = slot.cur
          /\ Decoded(n, slot).ports = disk[n].ports
    BY DEF IsValue, Decoded
  <2>. QED
    BY <2>1, <2>2, <2>3, <2>4, ValueIsSomething DEF HoldsValue, IsCurrent, Covers
<1>. QED  BY <1>1, <1>2

\* The buffer a lambda is invoked with is a value of the node's arity, bound
\* to nothing yet.
LEMMA InvokeBufferReturns ==
    ASSUME NEW n, HoldsValue(slots[n])
    PROVE  /\ HoldsValue(InvokeBuffer(n)) /\ InvokeBuffer(n).cur = slots[n].cur
           /\ IsValue(InvokeBuffer(n).val)
           /\ InvokeBuffer(n).val.arity = program[n].outputs
<1>1. CASE slots[n].val = Nothing
  BY <1>1 DEF InvokeBuffer, HoldsValue, IsSlot, IsValue
<1>2. CASE slots[n].val # Nothing
  <2>1. IsSlot(slots[n]) /\ IsValue(slots[n].val)
    BY <1>2 DEF HoldsValue
  <2>2. InvokeBuffer(n) = [slots[n] EXCEPT !.val =
            [made |-> None, ports |-> {}, under |-> slots[n].val.under,
             blob |-> slots[n].val.blob, arity |-> program[n].outputs]]
    BY <1>2 DEF InvokeBuffer
  <2>. QED  BY <2>1, <2>2 DEF HoldsValue, IsSlot, IsValue
<1>. QED  BY <1>1, <1>2

\* stamp_produced makes the buffer the node's current value.
LEMMA ProducedReturns ==
    ASSUME NEW n, HoldsValue(slots[n]), IsValue(slots[n].val), NEW ports
    PROVE  /\ HoldsValue(Produced(n, ports)) /\ Produced(n, ports).cur = slots[n].cur
           /\ IsValue(Produced(n, ports).val)
           /\ Produced(n, ports).val.made = turn.made
           /\ Produced(n, ports).val.ports = ports
           /\ Produced(n, ports).val.under = slots[n].cur
           /\ Produced(n, ports).val.blob = "owed"
           /\ Produced(n, ports).val.arity = slots[n].val.arity
<1>1. Produced(n, ports) = [cur |-> slots[n].cur, val |->
          [made |-> turn.made, ports |-> ports, under |-> slots[n].cur, blob |-> "owed",
           arity |-> slots[n].val.arity]]
  BY DEF Produced, HoldsValue, IsSlot, IsValue
<1>. QED  BY <1>1 DEF HoldsValue, IsSlot, IsValue

\* release_dead_outputs keeps a slot whole or empties it, and keeps only what
\* may be a RAM hit.
LEMMA ReleaseDeadReturns ==
    ASSUME NEW g, NEW s, AreSlots(s)
    PROVE  /\ AreSlots(ReleaseDead(g, s))
           /\ \A n \in Nodes :
                /\ ReleaseDead(g, s)[n].cur = s[n].cur
                /\ \/ ReleaseDead(g, s)[n] = s[n] /\ (n \in DOMAIN g => Alive(g, n, s[n]))
                   \/ ReleaseDead(g, s)[n].val = Nothing
<1>1. \A n \in Nodes : HoldsValue(s[n])
  BY DEF AreSlots
<1>2. \A n \in Nodes : ReleaseDead(g, s)[n] = IF n \in DOMAIN g /\ ~Alive(g, n, s[n])
                     THEN [s[n] EXCEPT !.val = Nothing] ELSE s[n]
  BY DEF ReleaseDead
<1>3. ReleaseDead(g, s) = [n \in Nodes |-> ReleaseDead(g, s)[n]]
  BY DEF ReleaseDead
<1>. QED  BY <1>1, <1>2, <1>3, EmptiedSlot DEF AreSlots

\* realign keeps the slots of the nodes both programs have, their values
\* unchanged.
LEMMA RealignedReturns ==
    ASSUME NEW g, AreSlots(slots)
    PROVE  /\ AreSlots(Realigned(g))
           /\ \A n \in Nodes :
                \/ Realigned(g)[n] = EmptySlot
                \/ /\ n \in DOMAIN g \cap DOMAIN program
                   /\ Realigned(g)[n].cur = slots[n].cur
                   /\ \/ Realigned(g)[n].val = Nothing
                      \/ /\ SameValue(Realigned(g)[n].val, slots[n].val)
                         /\ \/ Realigned(g)[n].val.blob = "owed"
                            \/ /\ Realigned(g)[n].val.blob = slots[n].val.blob
                               /\ slots[n].val.blob # "unwritable"
<1>1. ASSUME NEW n \in Nodes
      PROVE  LET x == Reconsidered(slots[n]) IN
             /\ HoldsValue(x) /\ x.cur = slots[n].cur
             /\ \/ x.val = Nothing
                \/ /\ SameValue(x.val, slots[n].val)
                   /\ \/ x.val.blob = "owed"
                      \/ x.val.blob = slots[n].val.blob /\ slots[n].val.blob # "unwritable"
  <2>1. HoldsValue(slots[n])
    BY DEF AreSlots
  <2>2. CASE slots[n].val = Nothing
    BY <2>1, <2>2 DEF Reconsidered
  <2>3. CASE slots[n].val # Nothing /\ slots[n].val.blob = "unwritable"
    BY <2>1, <2>3 DEF Reconsidered, HoldsValue, IsSlot, IsValue, SameValue
  <2>4. CASE slots[n].val # Nothing /\ slots[n].val.blob # "unwritable"
    BY <2>1, <2>4 DEF Reconsidered, HoldsValue, SameValue
  <2>. QED  BY <2>2, <2>3, <2>4
<1>2. HoldsValue(EmptySlot)
  BY DEF HoldsValue, EmptySlot, IsSlot
<1>3. \A n \in Nodes : Realigned(g)[n] = IF n \in DOMAIN g \cap DOMAIN program
                          THEN Reconsidered(slots[n]) ELSE EmptySlot
  BY DEF Realigned
<1>4. Realigned(g) = [n \in Nodes |-> Realigned(g)[n]]
  BY DEF Realigned
<1>. QED  BY <1>1, <1>2, <1>3, <1>4 DEF AreSlots

\* Stamping digests changes no value, and gives each node the digest of Keys.
LEMMA StampsReturns ==
    ASSUME NEW g, IsProgram(g), NEW st, NEW s, AreSlots(s), NEW known
    PROVE  /\ AreSlots(Stamps(g, st, s, known))
           /\ \A n \in Nodes :
                /\ Stamps(g, st, s, known)[n].val = s[n].val
                /\ n \in DOMAIN g => Stamps(g, st, s, known)[n].cur = Keys(g, st, s, known)[n]
<1>1. \A n \in Nodes : HoldsValue(s[n])
  BY DEF AreSlots
<1>2. \A n \in Nodes : Stamps(g, st, s, known)[n] =
          IF n \in DOMAIN g THEN [s[n] EXCEPT !.cur = Keys(g, st, s, known)[n]] ELSE s[n]
  BY DEF Stamps
<1>3. Stamps(g, st, s, known) = [n \in Nodes |-> Stamps(g, st, s, known)[n]]
  BY DEF Stamps
<1>4. ASSUME NEW n \in Nodes
      PROVE  /\ HoldsValue(Stamps(g, st, s, known)[n])
             /\ Stamps(g, st, s, known)[n].val = s[n].val
             /\ n \in DOMAIN g => Stamps(g, st, s, known)[n].cur = Keys(g, st, s, known)[n]
  <2>1. CASE n \in DOMAIN g
    <3>. DEFINE c == Keys(g, st, s, known)[n]
    <3>1. Stamps(g, st, s, known)[n] = [s[n] EXCEPT !.cur = c]
      BY <1>2, <2>1
    <3>2. HoldsValue([s[n] EXCEPT !.cur = c]) /\ [s[n] EXCEPT !.cur = c].cur = c
             /\ [s[n] EXCEPT !.cur = c].val = s[n].val
      <4>. HIDE DEF c
      <4>. QED  BY <1>1, RekeyedSlot
    <3>. QED  BY <3>1, <3>2
  <2>2. CASE n \notin DOMAIN g
    BY <1>1, <1>2, <2>2
  <2>. QED  BY <2>1, <2>2
<1>. QED  BY <1>3, <1>4 DEF AreSlots

-----------------------------------------------------------------------------
ProgramTyped == program = <<>> \/ program \in Programs

StoreTyped ==
    /\ AreSlots(slots)
    /\ disk = [n \in Nodes |-> disk[n]]
    /\ \A n \in Nodes : disk[n] = Nothing \/ IsBlob(disk[n])

MidTurn ==
    /\ phase = "run" /\ turn.at \in {"keyed", "invoking"}
    /\ turn.node \in DOMAIN program
    /\ state[turn.node] = "Run" /\ outcome[turn.node] = "Pending"
    /\ turn.at = "invoking" =>
        /\ IsValue(slots[turn.node].val)
        /\ slots[turn.node].val.arity = program[turn.node].outputs

TurnTyped ==
    /\ phase \in {"rest", "run"}
    /\ phase = "run" => outcome = [n \in DOMAIN program |-> outcome[n]]
    /\ turn = NoTurn \/ MidTurn

\* The program installed, and none at all, is a program as IsProgram says.
LEMMA ProgramIsProgram ==
    ASSUME ProgramTyped
    PROVE  /\ IsProgram(program) /\ DOMAIN program \subseteq Nodes
           /\ 0 \notin Nodes /\ Nodes \subseteq Nat
<1>1. IsProgram(<<>>)
  <2>1. \A n : n \notin DOMAIN <<>>
    OBVIOUS
  <2>. QED  BY <2>1 DEF IsProgram
<1>2. IsProgram(program)
  BY <1>1, ScheduleAssumption DEF ProgramTyped
<1>3. Nodes = 1..Cardinality(Nodes) /\ Cardinality(Nodes) \in Nat
  BY ScheduleAssumption, FS_CardinalityType
<1>. QED  BY <1>2, <1>3 DEF IsProgram

(* A turn that may begin, or be over, is of a node of the program.           *)
LEMMA TurnIsOfANode ==
    ASSUME ProgramTyped, TurnTyped, NEW n,
           Ready(n) \/ ToInvoke(n) \/ (turn.at = "invoking" /\ turn.node = n)
    PROVE  /\ n \in DOMAIN program /\ n \in Nodes /\ phase = "run"
           /\ outcome[n] = "Pending"
           /\ ~ Ready(n) => state[n] = "Run"
<1>1. turn = NoTurn => turn.at = "none"
  BY DEF NoTurn
<1>. QED  BY <1>1, ProgramIsProgram DEF TurnTyped, MidTurn, Ready, ToInvoke

\* Writing one blob leaves the other names as they were.
LEMMA OneBlobWritten ==
    ASSUME StoreTyped, NEW n \in Nodes, NEW b, b = Nothing \/ IsBlob(b),
           disk' = [disk EXCEPT ![n] = b]
    PROVE  /\ disk' = [m \in Nodes |-> disk'[m]] /\ disk'[n] = b
           /\ \A m \in Nodes : m # n => disk'[m] = disk[m]
           /\ \A m \in Nodes : disk'[m] = Nothing \/ IsBlob(disk'[m])
BY DEF StoreTyped

\* What a store leaves under a name is a blob, or the name is free.
LEMMA StoredIsBlob ==
    ASSUME StoreTyped, NEW n \in Nodes, NEW slot, NEW r,
           (r.blob = disk[n]) \/ Stored(n, slot, r)
    PROVE  r.blob = Nothing \/ IsBlob(r.blob)
BY DEF StoreTyped, Stored, IsBlob

\* A blob that rots keeps everything but its integrity.
LEMMA RottedBlob ==
    ASSUME NEW b, IsBlob(b), NEW x
    PROVE  /\ IsBlob([b EXCEPT !.intact = x])
           /\ [b EXCEPT !.intact = x].digest = b.digest
           /\ [b EXCEPT !.intact = x].ports = b.ports
           /\ [b EXCEPT !.intact = x].made = b.made
           /\ [b EXCEPT !.intact = x].arity = b.arity
BY DEF IsBlob

\* The slots and the disk start well shaped.
LEMMA StoreTypedInit == Init => StoreTyped
BY DEF Init, StoreTyped, AreSlots, HoldsValue, EmptySlot, IsSlot

\* Every step keeps the slots and the disk well shaped.
LEMMA StoreTypedStep ==
    ASSUME ProgramTyped, TurnTyped, StoreTyped, [Next]_vars
    PROVE  StoreTyped'
<1>. USE ProgramIsProgram
<1>0. \A n \in Nodes : HoldsValue(slots[n])
  BY DEF StoreTyped, AreSlots
<1>a. AreSlots([n \in Nodes |-> EmptySlot])
  BY DEF AreSlots, HoldsValue, EmptySlot, IsSlot
<1>1. ASSUME NEW g \in Programs, Install(g) PROVE StoreTyped'
  <2>1. AreSlots(Realigned(g))
    BY RealignedReturns DEF StoreTyped
  <2>2. AreSlots(slots')
    BY <1>1, <2>1, ReleaseDeadReturns DEF Install
  <2>. QED  BY <1>1, <2>2 DEF Install, StoreTyped, AreSlots
<1>2. CASE Clear
  BY <1>a, <1>2 DEF Clear, StoreTyped, AreSlots
<1>3. ASSUME NEW from, Evict(from) PROVE StoreTyped'
  <2>1. PICK out \in SUBSET Nodes :
          /\ disk' = [n \in Nodes |-> IF n \in out THEN Nothing ELSE disk[n]]
          /\ slots' = [n \in Nodes |-> IF n \in out THEN [slots[n] EXCEPT !.val = Nothing]
                                       ELSE slots[n]]
    <3>1. PICK cone, stuck :
            /\ disk' = [n \in Nodes |-> IF n \in cone \ stuck THEN Nothing ELSE disk[n]]
            /\ slots' = [n \in Nodes |-> IF n \in cone \ stuck
                                         THEN [slots[n] EXCEPT !.val = Nothing] ELSE slots[n]]
      BY <1>3 DEF Evict
    <3>2. (cone \ stuck) \cap Nodes \in SUBSET Nodes
      OBVIOUS
    <3>. QED  BY <3>1, <3>2
  <2>2. \A n \in Nodes : HoldsValue(slots'[n])
    BY <1>0, <2>1, EmptiedSlot
  <2>3. AreSlots(slots')
    BY <2>1, <2>2 DEF AreSlots
  <2>. QED  BY <2>1, <2>3 DEF StoreTyped, AreSlots
<1>4. ASSUME NEW n \in Nodes, Flush(n) PROVE StoreTyped'
  <2>1. PICK r \in Stores(n, slots[n], "PreserveCovering") :
          slots' = [slots EXCEPT ![n] = r.slot] /\ disk' = [disk EXCEPT ![n] = r.blob]
    BY <1>4 DEF Flush
  <2>4. (r.slot = slots[n] /\ r.blob = disk[n]) \/ Stored(n, slots[n], r)
    BY <1>0, StoresReturns
  <2>2. HoldsValue(r.slot) /\ (r.blob = disk[n] \/ Stored(n, slots[n], r))
    BY <1>0, <2>4 DEF Stored
  <2>3. AreSlots(slots')
    BY <2>1, <2>2, OneSlotWritten DEF StoreTyped
  <2>. QED  BY <2>1, <2>2, <2>3, StoredIsBlob, OneBlobWritten DEF StoreTyped, AreSlots
<1>5. ASSUME NEW asked, BeginRun(asked) PROVE StoreTyped'
  <2>1. PICK planned : slots' = Stamps(program, planned, slots, memo')
    BY <1>5 DEF BeginRun
  <2>2. AreSlots(slots')
    BY <2>1, StampsReturns DEF StoreTyped
  <2>. QED  BY <1>5, <2>2 DEF BeginRun, StoreTyped, AreSlots
<1>6. ASSUME NEW n \in Nodes, ServeReuse(n) PROVE StoreTyped'
  <2>1. CASE \E h \in Hydrated(n, slots[n]) :
               /\ slots' = [slots EXCEPT ![n] = ReleaseDrained(n, h.slot)]
               /\ disk' = [disk EXCEPT ![n] = h.blob]
    <3>1. PICK h \in Hydrated(n, slots[n]) :
            /\ slots' = [slots EXCEPT ![n] = ReleaseDrained(n, h.slot)]
            /\ disk' = [disk EXCEPT ![n] = h.blob]
      BY <2>1
    <3>2. HoldsValue(h.slot) /\ (h.blob = disk[n] \/ Stored(n, slots[n], h))
      BY <1>0, HydratedReturns
    <3>3. HoldsValue(ReleaseDrained(n, h.slot))
      BY <3>2, ReleaseDrainedReturns
    <3>4. AreSlots(slots')
      BY <3>1, <3>3, OneSlotWritten DEF StoreTyped
    <3>. QED  BY <3>1, <3>2, <3>4, StoredIsBlob, OneBlobWritten DEF StoreTyped, AreSlots
  <2>2. CASE Skip(n) /\ \E m \in MissedBlobs(n, slots[n]) : disk' = [disk EXCEPT ![n] = m.blob]
    <3>1. AreSlots(slots')
      BY <2>2, OneSlotEmptied DEF Skip, StoreTyped
    <3>2. PICK m \in MissedBlobs(n, slots[n]) : disk' = [disk EXCEPT ![n] = m.blob]
      BY <2>2
    <3>3. m.blob = Nothing \/ m.blob = disk[n]
      BY DEF MissedBlobs
    <3>. QED  BY <3>1, <3>2, <3>3, OneBlobWritten DEF StoreTyped, AreSlots
  <2>. QED  BY <1>6, <2>1, <2>2 DEF ServeReuse
<1>7. ASSUME NEW n \in Nodes, IdentifyCancelled(n) \/ Fail(n) PROVE StoreTyped'
  <2>1. AreSlots(slots')
    BY <1>7, OneSlotEmptied DEF IdentifyCancelled, Skip, Fail, StoreTyped
  <2>. QED  BY <1>7, <2>1 DEF IdentifyCancelled, Fail, StoreTyped, AreSlots
<1>8. ASSUME NEW n \in Nodes, LateServe(n) PROVE StoreTyped'
  <2>1. PICK h \in Hydrated(n, Restamped(n)) :
          /\ slots' = LetGo([slots EXCEPT ![n] = ReleaseDrained(n, h.slot)], reads')
          /\ disk' = [disk EXCEPT ![n] = h.blob]
    BY <1>8 DEF LateServe
  <2>2. HoldsValue(Restamped(n))
    BY <1>0, RekeyedSlot DEF Restamped
  <2>3. HoldsValue(h.slot) /\ (h.blob = disk[n] \/ Stored(n, Restamped(n), h))
    BY <2>2, HydratedReturns
  <2>4. HoldsValue(ReleaseDrained(n, h.slot))
    BY <2>3, ReleaseDrainedReturns
  <2>5. AreSlots([slots EXCEPT ![n] = ReleaseDrained(n, h.slot)])
    BY <2>4, OneSlotWritten DEF StoreTyped
  <2>6. AreSlots(slots')
    BY <2>1, <2>5, LetGoReturns
  <2>. QED  BY <2>1, <2>3, <2>6, StoredIsBlob, OneBlobWritten DEF StoreTyped, AreSlots
<1>9. ASSUME NEW n \in Nodes, LateMiss(n) PROVE StoreTyped'
  <2>1. HoldsValue(Restamped(n))
    BY <1>0, RekeyedSlot DEF Restamped
  <2>2. AreSlots(slots')
    BY <1>9, <2>1, OneSlotWritten DEF LateMiss, StoreTyped
  <2>3. PICK m \in MissedBlobs(n, Restamped(n)) : disk' = [disk EXCEPT ![n] = m.blob]
    BY <1>9 DEF LateMiss
  <2>4. m.blob = Nothing \/ m.blob = disk[n]
    BY DEF MissedBlobs
  <2>. QED  BY <2>2, <2>3, <2>4, OneBlobWritten DEF StoreTyped, AreSlots
<1>10. ASSUME NEW n \in Nodes, SkipUpstream(n) PROVE StoreTyped'
  <2>. DEFINE t == [slots EXCEPT ![n].val = Nothing]
  <2>1. AreSlots(t)
    BY OneSlotEmptied DEF StoreTyped
  <2>2. slots' = LetGo(t, reads')
    BY <1>10 DEF SkipUpstream
  <2>3. AreSlots(slots')
    <3>. HIDE DEF t
    <3>. QED  BY <2>1, <2>2, LetGoReturns
  <2>. QED  BY <1>10, <2>3 DEF SkipUpstream, StoreTyped, AreSlots
<1>11. ASSUME NEW n \in Nodes, StartInvoke(n) PROVE StoreTyped'
  <2>1. AreSlots([slots EXCEPT ![n] = InvokeBuffer(n)])
    BY <1>0, InvokeBufferReturns, OneSlotWritten DEF StoreTyped
  <2>2. AreSlots(slots')
    BY <1>11, <2>1, LetGoReturns DEF StartInvoke
  <2>. QED  BY <1>11, <2>2 DEF StartInvoke, StoreTyped, AreSlots
<1>12. ASSUME NEW n \in Nodes, Succeed(n) PROVE StoreTyped'
  <2>1. PICK ports : \E r \in Stores(n, Produced(n, ports), "KnownMiss") :
          /\ slots' = [slots EXCEPT ![n] = ReleaseDrained(n, r.slot)]
          /\ disk' = [disk EXCEPT ![n] = r.blob]
    BY ZenonT(60), <1>12 DEF Succeed
  <2>7. PICK r \in Stores(n, Produced(n, ports), "KnownMiss") :
          /\ slots' = [slots EXCEPT ![n] = ReleaseDrained(n, r.slot)]
          /\ disk' = [disk EXCEPT ![n] = r.blob]
    BY <2>1
  <2>2. IsValue(slots[n].val)
    BY <1>12 DEF Succeed, TurnTyped, MidTurn, NoTurn
  <2>3. HoldsValue(Produced(n, ports))
    BY <1>0, <2>2, ProducedReturns
  <2>8. (r.slot = Produced(n, ports) /\ r.blob = disk[n]) \/ Stored(n, Produced(n, ports), r)
    BY <2>3, StoresReturns
  <2>4. HoldsValue(r.slot) /\ (r.blob = disk[n] \/ Stored(n, Produced(n, ports), r))
    BY <2>3, <2>8 DEF Stored
  <2>5. HoldsValue(ReleaseDrained(n, r.slot))
    BY <2>4, ReleaseDrainedReturns
  <2>6. AreSlots(slots')
    BY <2>7, <2>5, OneSlotWritten DEF StoreTyped
  <2>. QED  BY <2>7, <2>4, <2>6, StoredIsBlob, OneBlobWritten DEF StoreTyped, AreSlots
<1>13. ASSUME NEW n \in Nodes, Corrupt(n) PROVE StoreTyped'
  <2>. DEFINE b == [disk[n] EXCEPT !.intact = FALSE]
  <2>1. IsBlob(disk[n])
    BY <1>13 DEF Corrupt, StoreTyped
  <2>2. IsBlob(b)
    BY Zenon, <2>1, RottedBlob
  <2>3. disk' = [disk EXCEPT ![n] = b]
    BY <1>13 DEF Corrupt
  <2>. HIDE DEF b
  <2>. QED  BY <1>13, <2>2, <2>3, OneBlobWritten DEF Corrupt, StoreTyped, AreSlots
<1>14. CASE EndRun
  <2>1. AreSlots(LetGo(slots, ReadsLeft(Waiting \cap Running(program, state))))
    BY LetGoReturns DEF StoreTyped
  <2>2. AreSlots(slots')
    BY <1>14, <2>1, ReleaseDeadReturns DEF EndRun
  <2>. QED  BY <1>14, <2>2 DEF EndRun, StoreTyped, AreSlots
<1>15. CASE Crash
  BY <1>a, <1>15 DEF Crash, StoreTyped, AreSlots
<1>16. CASE Cancel \/ Touch \/ (\E n \in Nodes : PassCut(n) \/ IdentifyFails(n)) \/ UNCHANGED vars
  BY <1>16 DEF Cancel, Touch, PassCut, IdentifyFails, vars, cacheVars, StoreTyped, AreSlots
<1>. QED
  BY <1>1, <1>2, <1>3, <1>4, <1>5, <1>6, <1>7, <1>8, <1>9, <1>10, <1>11, <1>12, <1>13,
     <1>14, <1>15, <1>16 DEF Next, Turn

-----------------------------------------------------------------------------
(* The reads of a set of consumers, counted.                                 *)
LEMMA ReadsOfMembers ==
    ASSUME NEW g, NEW st, NEW cs, NEW n, NEW p
    PROVE  \A x : x \in ReadsOf(g, st, cs, n, p) <=>
              \E c \in cs : c > n /\ \E k \in DOMAIN g[c].inputs :
                  /\ x = <<c, k>>
                  /\ g[c].inputs[k].from = n /\ g[c].inputs[k].port = p
                  /\ Delivery(g[c].inputs[k], st) = "wire"
BY DEF ReadsOf

\* A program has finitely many input positions.
LEMMA IndicesAreFinite ==
    ASSUME NEW g, IsProgram(g)
    PROVE  IsFiniteSet(UNION {DOMAIN g[c].inputs : c \in DOMAIN g})
<1>. DEFINE f == [c \in DOMAIN g |-> DOMAIN g[c].inputs]
            T == {DOMAIN g[c].inputs : c \in DOMAIN g}
<1>1. IsFiniteSet(DOMAIN g)
  BY ScheduleAssumption, FS_Subset DEF IsProgram
<1>2. f \in Surjection(DOMAIN g, T)
  BY DEF Surjection
<1>3. IsFiniteSet(T)
  BY <1>1, <1>2, FS_Surjection
<1>4. ASSUME NEW c \in DOMAIN g PROVE IsFiniteSet(DOMAIN g[c].inputs)
  <2>1. g[c].inputs \in Seq(Inputs)
    BY DEF IsProgram
  <2>2. Len(g[c].inputs) \in Nat /\ DOMAIN g[c].inputs = 1..Len(g[c].inputs)
    BY <2>1
  <2>3. \A l \in Nat : IsFiniteSet(1..l)
    BY FS_Interval
  <2>. QED  BY <2>2, <2>3, Zenon
<1>. QED  BY <1>3, <1>4, FS_UNION

\* The reads of a set of consumers are finitely many, so they can be counted.
LEMMA ReadsAreFinite ==
    ASSUME NEW g, IsProgram(g), NEW st, NEW cs \in SUBSET DOMAIN g, NEW n, NEW p
    PROVE  /\ IsFiniteSet(ReadsOf(g, st, cs, n, p))
           /\ Cardinality(ReadsOf(g, st, cs, n, p)) \in Nat
<1>. DEFINE K == UNION {DOMAIN g[c].inputs : c \in DOMAIN g}
<1>1. IsFiniteSet(DOMAIN g)
  BY ScheduleAssumption, FS_Subset DEF IsProgram
<1>2. IsFiniteSet((DOMAIN g) \X K)
  <2>1. IsFiniteSet(K)
    BY IndicesAreFinite
  <2>. HIDE DEF K
  <2>. QED  BY <1>1, <2>1, FS_Product
<1>3. ReadsOf(g, st, cs, n, p) \in SUBSET ((DOMAIN g) \X K)
  BY ReadsOfMembers
<1>. QED  BY <1>2, <1>3, FS_Subset, FS_CardinalityType

(* The reads left when one consumer is done with its own.                    *)
LEMMA ReadsOfTheRest ==
    ASSUME NEW g, IsProgram(g), NEW st, NEW cs \in SUBSET DOMAIN g, NEW c \in cs, NEW n, NEW p
    PROVE  Cardinality(ReadsOf(g, st, cs \ {c}, n, p)) =
             Cardinality(ReadsOf(g, st, cs, n, p)) - Cardinality(ReadsOf(g, st, {c}, n, p))
<1>. DEFINE all == ReadsOf(g, st, cs, n, p)
            own == ReadsOf(g, st, {c}, n, p)
<1>1. all \cap own = own
  <2>1. \A x \in own : x \in all
    BY ReadsOfMembers
  <2>. QED  BY <2>1
<1>2. ReadsOf(g, st, cs \ {c}, n, p) = all \ own
  <2>1. ASSUME NEW x \in ReadsOf(g, st, cs \ {c}, n, p) PROVE x \in all \ own
    <3>1. PICK d \in cs \ {c} : d > n /\ \E k \in DOMAIN g[d].inputs :
                  /\ x = <<d, k>>
                  /\ g[d].inputs[k].from = n /\ g[d].inputs[k].port = p
                  /\ Delivery(g[d].inputs[k], st) = "wire"
      BY ReadsOfMembers
    <3>2. x[1] = d
      BY <3>1
    <3>3. x \in all
      BY <3>1, ReadsOfMembers
    <3>4. x \in own => x[1] = c
      BY ReadsOfMembers
    <3>. QED  BY <3>2, <3>3, <3>4
  <2>2. ASSUME NEW x \in all, x \notin own PROVE x \in ReadsOf(g, st, cs \ {c}, n, p)
    BY <2>2, ReadsOfMembers
  <2>. QED  BY <2>1, <2>2
<1>3. IsFiniteSet(all)
  BY ReadsAreFinite
<1>4. Cardinality(all \ own) = Cardinality(all) - Cardinality(own)
  <2>. HIDE DEF all, own
  <2>. QED  BY ZenonT(60), <1>1, <1>3, FS_Difference
<1>. QED  BY <1>2, <1>4

(* A node reads only those before it.                                        *)
LEMMA NoReadOfOneself ==
    ASSUME NEW g, NEW st, NEW n \in Nat, NEW p
    PROVE  Cardinality(ReadsOf(g, st, {n}, n, p)) = 0
<1>1. ReadsOf(g, st, {n}, n, p) = {}
  BY ReadsOfMembers
<1>. QED  BY <1>1, FS_EmptySet

-----------------------------------------------------------------------------
(* A consumer's turn comes after those of the producers it runs with.        *)
TurnsInOrder ==
    phase = "run" =>
        \A c \in DOMAIN program : outcome[c] # "Pending" \/ turn.node = c =>
            \A m \in Producers(program, c) : IsRunnable(state[m]) => outcome[m] # "Pending"

Owing == {c \in Running(program, state) : outcome[c] = "Pending" /\ ~Invoking(c)}

ReadsOwed(owing) ==
    [n \in DOMAIN program |-> [p \in Ports(program, n) |->
        Cardinality(ReadsOf(program, state, owing, n, p))]]

(* The counts are those of the reads owed, until a cancel leaves some behind. *)
CountsExact == phase = "run" /\ (~cancelled \/ turn # NoTurn) => reads = ReadsOwed(Owing)

(* What a turn leaves alone, whatever its end.                               *)
LEMMA TurnFrame ==
    ASSUME ProgramTyped, TurnTyped, NEW n \in Nodes, Turn(n)
    PROVE  /\ phase = "run" /\ n \in DOMAIN program /\ outcome[n] = "Pending"
           /\ UNCHANGED <<program, file, calm, seeds, state, demand, phase, runs>>
           /\ (Ready(n) /\ turn = NoTurn) \/ (turn.node = n /\ turn # NoTurn /\ state[n] = "Run")
           /\ \/ outcome' = outcome /\ turn'.node = n /\ turn' # NoTurn
              \/ /\ turn' = NoTurn
                 /\ \E how \in {"Cut", "Reused", "Skipped", "Ran", "Failed"} :
                        outcome' = [outcome EXCEPT ![n] = how]
<1>. USE DEF world, planVars, Settle, Skip
<1>0. turn = NoTurn => turn.at = "none"
  BY DEF NoTurn
<1>1. NoTurn.at = "none" /\ NoTurn.node = 0 /\ n # 0
  BY ProgramIsProgram DEF NoTurn
<1>2. CASE PassCut(n)
  BY <1>2, TurnIsOfANode DEF PassCut, Ready
<1>3. CASE ServeReuse(n)
  BY <1>3, TurnIsOfANode DEF ServeReuse, Ready
<1>4. CASE IdentifyCancelled(n)
  BY <1>4, TurnIsOfANode DEF IdentifyCancelled, Unkeyed, Ready
<1>5. CASE IdentifyFails(n)
  <2>1. turn'.node = n /\ turn'.at = "keyed"
    BY <1>5 DEF IdentifyFails, NoTurn
  <2>. QED  BY <1>1, <1>5, <2>1, TurnIsOfANode DEF IdentifyFails, Unkeyed, Ready, cacheVars
<1>6. CASE LateServe(n)
  BY <1>6, TurnIsOfANode DEF LateServe, Unkeyed, Ready
<1>7. CASE LateMiss(n)
  <2>1. turn'.node = n /\ turn'.at = "keyed"
    BY <1>7 DEF LateMiss, NoTurn
  <2>. QED  BY <1>1, <1>7, <2>1, TurnIsOfANode DEF LateMiss, Unkeyed, Ready
<1>8. CASE SkipUpstream(n)
  <2>1. (Ready(n) /\ turn = NoTurn) \/ (turn.node = n /\ turn # NoTurn /\ state[n] = "Run")
    BY <1>0, <1>8, TurnIsOfANode DEF SkipUpstream, ToInvoke, Ready, TurnTyped, MidTurn
  <2>. QED  BY <1>8, <2>1, TurnIsOfANode DEF SkipUpstream
<1>9. CASE StartInvoke(n)
  <2>1. (Ready(n) /\ turn = NoTurn) \/ (turn.node = n /\ turn # NoTurn /\ state[n] = "Run")
    BY <1>0, <1>9, TurnIsOfANode DEF StartInvoke, ToInvoke, Ready, TurnTyped, MidTurn
  <2>2. turn'.node = n /\ turn'.at = "invoking"
    BY <1>9 DEF StartInvoke
  <2>. QED  BY <1>1, <1>9, <2>1, <2>2, TurnIsOfANode DEF StartInvoke
<1>10. CASE Succeed(n)
  BY <1>0, <1>10, TurnIsOfANode DEF Succeed, Ready, TurnTyped, MidTurn
<1>11. CASE Fail(n)
  BY <1>0, <1>11, TurnIsOfANode DEF Fail, Ready, TurnTyped, MidTurn
<1>. QED
  BY <1>2, <1>3, <1>4, <1>5, <1>6, <1>7, <1>8, <1>9, <1>10, <1>11 DEF Turn

(* What is left alone by every other step of a run, and by one at rest.      *)
LEMMA OtherFrame ==
    ASSUME [Next]_vars, ~ \E n \in Nodes : Turn(n)
    PROVE  \/ /\ phase = "run" /\ phase' = "rest" /\ turn' = NoTurn
              /\ EndRun \/ Crash
           \/ /\ phase = "rest" /\ phase' = "run"
              /\ \E asked \in Seeds : BeginRun(asked)
           \/ /\ UNCHANGED <<program, seeds, state, demand, slots, disk>>
              /\ UNCHANGED <<phase, reads, outcome, turn, memo, runs>>
              /\ cancelled => cancelled'
           \/ /\ phase = "rest" /\ UNCHANGED <<phase, turn>>
              /\ \/ \E g \in Programs : Install(g)
                 \/ Clear
                 \/ \E n \in DOMAIN program : Evict({n})
                 \/ \E n \in Nodes : Flush(n) \/ Corrupt(n)
<1>. USE DEF cacheVars, planVars, runVars
<1>1. CASE EndRun \/ Crash
  BY <1>1 DEF EndRun, Crash
<1>2. CASE \E asked \in Seeds : BeginRun(asked)
  BY <1>2 DEF BeginRun
<1>3. CASE Cancel \/ Touch \/ UNCHANGED vars
  BY <1>3 DEF Cancel, Touch, vars
<1>4. CASE \/ \E g \in Programs : Install(g)
           \/ Clear
           \/ \E n \in DOMAIN program : Evict({n})
           \/ \E n \in Nodes : Flush(n) \/ Corrupt(n)
  BY <1>4 DEF Install, Clear, Evict, Flush, Corrupt
<1>. QED  BY <1>1, <1>2, <1>3, <1>4 DEF Next

\* Every step keeps consumers after the producers they run with.
LEMMA OrderStep ==
    ASSUME ProgramTyped, TurnTyped, TurnsInOrder, [Next]_vars
    PROVE  TurnsInOrder'
<1>1. ASSUME NEW n \in Nodes, Turn(n) PROVE TurnsInOrder'
  <2>0. n # 0 /\ NoTurn.node = 0
    BY ProgramIsProgram DEF NoTurn
  <2>1. \A m \in Producers(program, n) : IsRunnable(state[m]) => outcome[m] # "Pending"
    BY <1>1, TurnFrame DEF Ready, TurnsInOrder
  <2>2. \A m \in DOMAIN program : outcome[m] # "Pending" => outcome'[m] # "Pending"
    BY <1>1, TurnFrame DEF TurnTyped
  <2>3. \A c \in DOMAIN program :
            outcome'[c] # "Pending" \/ turn'.node = c => c = n \/ outcome[c] # "Pending"
    BY <1>1, <2>0, TurnFrame, ProgramIsProgram DEF TurnTyped
  <2>4. \A c \in DOMAIN program : Producers(program, c) \subseteq DOMAIN program
    BY ProgramIsProgram DEF Producers, Wired, IsProgram
  <2>. QED  BY <1>1, <2>1, <2>2, <2>3, <2>4, TurnFrame DEF TurnsInOrder
<1>2. CASE ~ \E n \in Nodes : Turn(n)
  <2>1. CASE phase' = "rest"
    BY <2>1 DEF TurnsInOrder
  <2>2. CASE \E asked \in Seeds : BeginRun(asked)
    <3>1. /\ outcome' = [c \in DOMAIN program |-> "Pending"] /\ program' = program
          /\ turn'.node = 0
      BY <2>2 DEF BeginRun, NoTurn
    <3>. QED  BY <3>1, ProgramIsProgram DEF TurnsInOrder
  <2>. QED  BY <1>2, <2>1, <2>2, OtherFrame DEF TurnsInOrder
<1>. QED  BY <1>1, <1>2

\* Every step keeps the counts exact: each way a turn may end gives up the
\* reads of its node, once.
LEMMA CountsStep ==
    ASSUME ProgramTyped, TurnTyped, CountsExact, [Next]_vars
    PROVE  CountsExact'
<1>. USE ProgramIsProgram
<1>1. Owing \subseteq DOMAIN program
  BY DEF Owing, Running
<1>2. ASSUME NEW n \in Nodes, Turn(n), reads' = reads, Owing' = Owing,
             ~cancelled \/ turn # NoTurn
      PROVE  CountsExact'
  BY <1>2, TurnFrame DEF CountsExact, ReadsOwed
<1>3. ASSUME NEW n \in Nodes, Turn(n), n \in Owing, reads' = ReadsLeft({n}), Owing' = Owing \ {n},
             ~cancelled \/ turn # NoTurn
      PROVE  CountsExact'
  <2>1. program' = program /\ state' = state /\ reads = ReadsOwed(Owing)
    BY <1>3, TurnFrame DEF CountsExact
  <2>2. \A m \in DOMAIN program : \A p \in Ports(program, m) :
            reads'[m][p] = Cardinality(ReadsOf(program, state, Owing \ {n}, m, p))
    BY <1>1, <1>3, <2>1, ReadsOfTheRest DEF ReadsOwed, ReadsLeft
  <2>3. reads' = ReadsOwed(Owing \ {n})
    BY <1>3, <2>2 DEF ReadsOwed, ReadsLeft
  <2>. QED  BY <1>3, <2>1, <2>3 DEF CountsExact, ReadsOwed
<1>4. ASSUME NEW n \in Nodes, Turn(n), outcome' = outcome, turn'.node = n,
             turn = NoTurn \/ turn.node = n
      PROVE  /\ turn'.at # "invoking" /\ turn.at # "invoking" => Owing' = Owing
             /\ turn'.at = "invoking" /\ turn.at # "invoking" => Owing' = Owing \ {n}
  BY <1>4, TurnFrame DEF Owing, Invoking, Running, NoTurn
<1>5. ASSUME NEW n \in Nodes, Turn(n), turn' = NoTurn,
             NEW how, how # "Pending", outcome' = [outcome EXCEPT ![n] = how],
             turn = NoTurn \/ turn.node = n
      PROVE  Owing' = Owing \ {n}
  <2>1. NoTurn.at = "none"
    BY DEF NoTurn
  <2>2. program' = program /\ state' = state /\ phase = "run" /\ n \in DOMAIN program
    BY <1>5, TurnFrame
  <2>3. \A c \in DOMAIN program : outcome'[c] = IF c = n THEN how ELSE outcome[c]
    BY <1>5, <2>2 DEF TurnTyped
  <2>. QED  BY <1>5, <2>1, <2>2, <2>3 DEF Owing, Invoking, Running
<1>6. ASSUME NEW n \in Nodes, PassCut(n) \/ ServeReuse(n) PROVE CountsExact'
  <2>1. Turn(n) /\ turn' = NoTurn /\ turn = NoTurn /\ reads' = reads /\ ~cancelled /\ state[n] # "Run"
    BY <1>6 DEF Turn, PassCut, ServeReuse, Ready
  <2>2. \E how : how # "Pending" /\ outcome' = [outcome EXCEPT ![n] = how]
    BY <1>6 DEF PassCut, ServeReuse, Settle, Skip
  <2>3. n \notin Owing
    BY <2>1 DEF Owing, Running
  <2>5. Owing' = Owing \ {n}
    BY <1>5, <2>1, <2>2
  <2>4. Owing' = Owing
    BY <2>3, <2>5
  <2>. QED  BY <1>2, <2>1, <2>4
<1>7. ASSUME NEW n \in Nodes, IdentifyCancelled(n) PROVE CountsExact'
  BY <1>7 DEF IdentifyCancelled, Unkeyed, Ready, CountsExact
<1>8. ASSUME NEW n \in Nodes, IdentifyFails(n) \/ LateMiss(n) PROVE CountsExact'
  <2>1. Turn(n) /\ turn = NoTurn /\ reads' = reads /\ outcome' = outcome /\ ~cancelled
    BY <1>8 DEF Turn, IdentifyFails, LateMiss, Unkeyed, Ready
  <2>2. turn'.at = "keyed" /\ turn'.node = n /\ turn.at = "none"
    BY <1>8, <2>1 DEF IdentifyFails, LateMiss, NoTurn
  <2>3. Owing' = Owing
    BY <1>4, <2>1, <2>2
  <2>. QED  BY <1>2, <2>1, <2>3
<1>9. ASSUME NEW n \in Nodes, LateServe(n) \/ SkipUpstream(n) PROVE CountsExact'
  <2>1. Turn(n)
    BY <1>9 DEF Turn
  <2>2. /\ turn' = NoTurn /\ reads' = ReadsLeft({n})
        /\ \E how : how # "Pending" /\ outcome' = [outcome EXCEPT ![n] = how]
    BY <1>9 DEF LateServe, SkipUpstream, Unkeyed, Ready, Settle
  <2>3. turn.at # "invoking" /\ (~cancelled \/ turn # NoTurn) /\ state[n] = "Run"
    BY <1>9, <2>1, TurnFrame DEF LateServe, SkipUpstream, Unkeyed, ToInvoke, Ready, NoTurn
  <2>4. n \in Owing
    BY <2>1, <2>3, TurnFrame DEF Owing, Running, Invoking
  <2>5. Owing' = Owing \ {n}
    BY <1>5, <2>1, <2>2, TurnFrame
  <2>. QED  BY <1>3, <2>1, <2>2, <2>3, <2>4, <2>5
<1>10. ASSUME NEW n \in Nodes, StartInvoke(n) PROVE CountsExact'
  <2>1. Turn(n)
    BY <1>10 DEF Turn
  <2>2. turn'.node = n /\ turn'.at = "invoking" /\ reads' = ReadsLeft({n}) /\ outcome' = outcome
    BY <1>10 DEF StartInvoke
  <2>3. turn.at # "invoking" /\ (~cancelled \/ turn # NoTurn) /\ state[n] = "Run"
    BY <1>10, <2>1, TurnFrame DEF StartInvoke, ToInvoke, Ready, NoTurn
  <2>4. n \in Owing
    BY <2>1, <2>3, TurnFrame DEF Owing, Running, Invoking
  <2>5. Owing' = Owing \ {n}
    BY <1>4, <2>1, <2>2, <2>3, TurnFrame
  <2>. QED  BY <1>3, <2>1, <2>2, <2>3, <2>4, <2>5
<1>11. ASSUME NEW n \in Nodes, Succeed(n) \/ Fail(n) PROVE CountsExact'
  <2>1. Turn(n)
    BY <1>11 DEF Turn
  <2>2. /\ turn' = NoTurn /\ reads' = reads /\ turn.at = "invoking" /\ turn.node = n /\ turn # NoTurn
        /\ \E how : how # "Pending" /\ outcome' = [outcome EXCEPT ![n] = how]
    BY <1>11 DEF Succeed, Fail, Settle, NoTurn
  <2>4. n \notin Owing
    BY <2>2 DEF Owing, Invoking
  <2>3. Owing' = Owing \ {n}
    BY <1>5, <2>1, <2>2
  <2>5. Owing' = Owing
    BY <2>3, <2>4
  <2>. QED  BY <1>2, <2>1, <2>2, <2>5
<1>12. CASE ~ \E n \in Nodes : Turn(n)
  <2>1. CASE phase' = "rest"
    BY <2>1 DEF CountsExact
  <2>2. CASE \E asked \in Seeds : BeginRun(asked)
    <3>1. /\ outcome' = [c \in DOMAIN program |-> "Pending"] /\ program' = program
          /\ turn'.at = "none" /\ reads' = Readers(program, state')
      BY <2>2 DEF BeginRun, NoTurn
    <3>2. Owing' = Running(program, state')
      BY <3>1 DEF Owing, Running, Invoking
    <3>. QED  BY <3>1, <3>2 DEF CountsExact, ReadsOwed, Readers
  <2>3. CASE /\ UNCHANGED <<program, seeds, state, demand, slots, disk>>
             /\ UNCHANGED <<phase, reads, outcome, turn, memo, runs>>
             /\ cancelled => cancelled'
    BY <2>3 DEF CountsExact, ReadsOwed, Owing, Running, Invoking
  <2>. QED  BY <1>12, <2>1, <2>2, <2>3, OtherFrame
<1>. QED
  BY <1>6, <1>7, <1>8, <1>9, <1>10, <1>11, <1>12 DEF Turn

(* What a node's own reads leave of its own slot.                            *)
LEMMA OwnSlotKept ==
    ASSUME ProgramTyped, StoreTyped, CountsExact, phase = "run", ~cancelled \/ turn # NoTurn,
           NEW n \in DOMAIN program, NEW s, AreSlots(s)
    PROVE  LetGo(s, ReadsLeft({n}))[n] = s[n]
<1>. USE ProgramIsProgram
<1>1. Owing \subseteq DOMAIN program
  BY DEF Owing, Running
<1>2. \A p \in Ports(program, n) : reads[n][p] \in Nat
  BY <1>1, ReadsAreFinite DEF CountsExact, ReadsOwed
<1>3. \A p \in Ports(program, n) : ReadsLeft({n})[n][p] = reads[n][p]
  BY <1>2, NoReadOfOneself DEF ReadsLeft
<1>4. {p \in Ports(program, n) : reads[n][p] > 0 /\ ReadsLeft({n})[n][p] = 0} = {}
  BY <1>2, <1>3
<1>5. s[n] = LetGo(s, ReadsLeft({n}))[n]
  BY <1>4 DEF LetGo
<1>. QED  BY <1>5

(* The buffer a lambda is invoked with is there, as wide as its node.        *)
LEMMA TurnTypedStep ==
    ASSUME ProgramTyped, StoreTyped, TurnTyped, CountsExact, [Next]_vars
    PROVE  TurnTyped'
<1>. USE ProgramIsProgram
<1>1. ASSUME NEW n \in Nodes, Turn(n) PROVE TurnTyped'
  <2>1. /\ phase' = "run" /\ program' = program /\ state' = state /\ n \in DOMAIN program
        /\ outcome' = [c \in DOMAIN program |-> outcome'[c]]
    BY <1>1, TurnFrame DEF TurnTyped
  <2>2. CASE turn' = NoTurn
    BY <2>1, <2>2 DEF TurnTyped
  <2>3. CASE turn' # NoTurn
    <3>1. outcome' = outcome /\ turn'.node = n /\ outcome[n] = "Pending"
      BY <1>1, <2>3, TurnFrame
    <3>2. IdentifyFails(n) \/ LateMiss(n) \/ StartInvoke(n)
      BY <1>1, <2>3 DEF Turn, PassCut, ServeReuse, IdentifyCancelled, LateServe, SkipUpstream,
                        Succeed, Fail, Unkeyed, Ready
    <3>3. state[n] = "Run"
      BY <3>2 DEF IdentifyFails, LateMiss, StartInvoke, Unkeyed, ToInvoke, TurnTyped, MidTurn,
                  NoTurn
    <3>4. CASE IdentifyFails(n) \/ LateMiss(n)
      <4>1. turn'.at = "keyed"
        BY <3>4 DEF IdentifyFails, LateMiss, NoTurn
      <4>. QED  BY <2>1, <3>1, <3>3, <4>1 DEF TurnTyped, MidTurn
    <3>5. CASE StartInvoke(n)
      <4>1. turn'.at = "invoking" /\ slots' = LetGo([slots EXCEPT ![n] = InvokeBuffer(n)], ReadsLeft({n}))
        BY <3>5 DEF StartInvoke
      <4>2. HoldsValue(slots[n])
        BY DEF StoreTyped, AreSlots
      <4>3. /\ AreSlots([slots EXCEPT ![n] = InvokeBuffer(n)])
            /\ [slots EXCEPT ![n] = InvokeBuffer(n)][n] = InvokeBuffer(n)
        BY <4>2, InvokeBufferReturns, OneSlotWritten DEF StoreTyped
      <4>4. phase = "run" /\ (~cancelled \/ turn # NoTurn)
        BY <3>5 DEF StartInvoke, ToInvoke, Ready, NoTurn, TurnTyped, MidTurn
      <4>5. slots'[n] = InvokeBuffer(n)
        BY <2>1, <4>1, <4>3, <4>4, OwnSlotKept
      <4>. QED  BY <2>1, <3>1, <3>3, <4>1, <4>2, <4>5, InvokeBufferReturns DEF TurnTyped, MidTurn
    <3>. QED  BY <3>2, <3>4, <3>5
  <2>. QED  BY <2>2, <2>3
<1>2. CASE ~ \E n \in Nodes : Turn(n)
  <2>1. CASE phase' = "rest" /\ turn' = NoTurn
    BY <2>1 DEF TurnTyped
  <2>2. CASE \E asked \in Seeds : BeginRun(asked)
    BY <2>2 DEF BeginRun, TurnTyped
  <2>3. CASE /\ UNCHANGED <<program, seeds, state, demand, slots, disk>>
             /\ UNCHANGED <<phase, reads, outcome, turn, memo, runs>>
    BY <2>3 DEF TurnTyped, MidTurn
  <2>4. CASE phase = "rest" /\ UNCHANGED <<phase, turn>>
    BY <2>4 DEF TurnTyped, MidTurn
  <2>. QED  BY <1>2, <2>1, <2>2, <2>3, <2>4, OtherFrame
<1>. QED  BY <1>1, <1>2

\* Every step keeps the program installed one of the programs.
LEMMA ProgramTypedStep ==
    ASSUME ProgramTyped, TurnTyped, [Next]_vars
    PROVE  ProgramTyped'
<1>1. CASE \E n \in Nodes : Turn(n)
  BY <1>1, TurnFrame DEF ProgramTyped
<1>2. CASE ~ \E n \in Nodes : Turn(n)
  BY <1>2, OtherFrame DEF EndRun, Crash, BeginRun, Install, Clear, Evict, Flush, Corrupt, ProgramTyped
<1>. QED  BY <1>1, <1>2

Typed == ProgramTyped /\ StoreTyped /\ TurnTyped /\ TurnsInOrder /\ CountsExact

\* The conjuncts of Typed hold at first.
LEMMA TypedInit == Init => Typed
<1>1. Init => ProgramTyped /\ TurnTyped /\ TurnsInOrder /\ CountsExact
  BY DEF Init, ProgramTyped, TurnTyped, TurnsInOrder, CountsExact
<1>. QED  BY <1>1, StoreTypedInit DEF Typed

\* Every step keeps Typed.
LEMMA TypedStep == Typed /\ [Next]_vars => Typed'
BY ProgramTypedStep, StoreTypedStep, TurnTypedStep, OrderStep, CountsStep DEF Typed

\* Slots, blobs, turns and counts are of the shape the engine keeps them in:
\* nodes take their turns producers first, a turn under way is of a node
\* scheduled to run, and while no cancel has cut the walk the counts of reads
\* to come are exact.
THEOREM TypedHolds == Spec => []Typed
BY TypedInit, TypedStep, PTL DEF Spec

\* The reads counted before a release are exactly those still to come, over every program and every way a turn may end.
THEOREM ReadsAreCounted == Spec => []ReadsAreExact
<1>1. Typed => ReadsAreExact
  BY DEF Typed, CountsExact, ReadsOwed, Owing, ReadsAreExact
<1>. QED  BY <1>1, TypedHolds, PTL

-----------------------------------------------------------------------------
(* What a turn does to the other slots, and to its own.                      *)
Kept(m) ==
    /\ slots'[m].cur = slots[m].cur /\ disk'[m] = disk[m]
    /\ slots'[m] = slots[m] \/ Lessened(m, slots'[m].val, slots[m].val)

Backed(n, val, blob) ==
    /\ val.arity = program[n].outputs
    /\ val.blob = "written" => Covers(blob, val.under, val.ports, program[n].outputs)
    /\ val.blob = "unwritable" => program[n].opaque

Released(n) == slots'[n].val = Nothing /\ ~Ram(n) /\ Drained(reads, n)

ServedFrom(n, slot) ==
    /\ outcome' = [outcome EXCEPT ![n] = "Reused"] /\ turn' = NoTurn
    /\ slots'[n].cur = slot.cur
    /\ \/ Released(n)
       \/ /\ Ram(n) \/ ~Drained(reads, n)
          /\ IsCurrent(slots'[n]) /\ demand[n] \subseteq slots'[n].val.ports
          /\ \/ /\ IsResidentHit(slot, demand[n]) /\ SameValue(slots'[n].val, slot.val)
                /\ \/ slots'[n].val = slot.val /\ disk'[n] = disk[n]
                   \/ slot.val.arity = program[n].outputs => Backed(n, slots'[n].val, disk'[n])
             \/ /\ Disk(n) /\ Covers(disk[n], slot.cur, demand[n], program[n].outputs)
                /\ slots'[n].val = Decoded(n, slot) /\ disk'[n] = disk[n]
    /\ \/ disk'[n] = disk[n]
       \/ /\ disk'[n] = [digest |-> slot.cur, ports |-> slot.val.ports,
                         made |-> slot.val.made, arity |-> slot.val.arity, intact |-> TRUE]
          /\ IsCurrent(slot)

ProducedBy(n, ports) ==
    /\ outcome' = [outcome EXCEPT ![n] = "Ran"] /\ turn' = NoTurn
    /\ slots'[n].cur = slots[n].cur
    /\ \/ Released(n)
       \/ /\ Ram(n) \/ ~Drained(reads, n)
          /\ IsValue(slots'[n].val) /\ Backed(n, slots'[n].val, disk'[n])
          /\ slots'[n].val.made = turn.made /\ slots'[n].val.under = slots[n].cur
          /\ slots'[n].val.ports = ports
    /\ \/ disk'[n] = disk[n]
       \/ /\ disk'[n] = [digest |-> slots[n].cur, ports |-> ports, made |-> turn.made,
                         arity |-> program[n].outputs, intact |-> TRUE]
          /\ slots[n].cur # None

EmptiedBy(n) ==
    /\ slots'[n].cur = slots[n].cur /\ slots'[n].val = Nothing
    /\ disk'[n] = disk[n] \/ disk'[n] = Nothing
    /\ \E how \in {"Skipped", "Failed"} : outcome' = [outcome EXCEPT ![n] = how]
    /\ turn' = NoTurn

\* A slot that hydrate_reuse served and release_drained_outputs passed is
\* released, or holds what covers the demand.
LEMMA ServedReturns ==
    ASSUME StoreTyped, NEW n \in Nodes, NEW slot, HoldsValue(slot),
           NEW h \in Hydrated(n, slot),
           slots'[n] = ReleaseDrained(n, h.slot), disk'[n] = h.blob,
           outcome' = [outcome EXCEPT ![n] = "Reused"], turn' = NoTurn
    PROVE  ServedFrom(n, slot)
<1>1. /\ HoldsValue(h.slot) /\ h.slot.cur = slot.cur /\ IsCurrent(h.slot)
      /\ demand[n] \subseteq h.slot.val.ports
      /\ \/ /\ IsResidentHit(slot, demand[n])
            /\ (h.slot = slot /\ h.blob = disk[n]) \/ Stored(n, slot, h)
         \/ /\ Disk(n) /\ Covers(disk[n], slot.cur, demand[n], program[n].outputs)
            /\ h.slot.val = Decoded(n, slot) /\ h.blob = disk[n]
  BY HydratedReturns
<1>2. /\ slots'[n].cur = slot.cur
      /\ Released(n) \/ (slots'[n] = h.slot /\ (Ram(n) \/ ~Drained(reads, n)))
  BY <1>1, ReleaseDrainedReturns DEF Released
<1>3. \/ disk'[n] = disk[n]
      \/ /\ disk'[n] = [digest |-> slot.cur, ports |-> slot.val.ports,
                        made |-> slot.val.made, arity |-> slot.val.arity, intact |-> TRUE]
         /\ IsCurrent(slot)
  BY <1>1 DEF Stored
<1>4. IsResidentHit(slot, demand[n]) => SameValue(slot.val, slot.val)
  BY DEF IsResidentHit, IsCurrent, HoldsValue, SameValue
<1>5. Stored(n, slot, h) =>
        /\ SameValue(h.slot.val, slot.val)
        /\ slot.val.arity = program[n].outputs => Backed(n, h.slot.val, h.blob)
  BY DEF Stored, SameValue, Backed, IsCurrent
<1>. QED  BY <1>1, <1>2, <1>3, <1>4, <1>5 DEF ServedFrom

\* A lambda that returns leaves its value released or held under its digest,
\* and its blob backed.
LEMMA ProducedIsStored ==
    ASSUME StoreTyped, TurnTyped, NEW n \in Nodes, Succeed(n)
    PROVE  /\ \E ports \in SUBSET Ports(program, n) :
                /\ demand[n] \cup Binds[program[n].key] \subseteq ports
                /\ ProducedBy(n, ports)
           /\ \A m \in Nodes : m # n => slots'[m] = slots[m] /\ disk'[m] = disk[m]
<1>1. PICK ports \in SUBSET Ports(program, n) :
        /\ demand[n] \cup Binds[program[n].key] \subseteq ports
        /\ \E r \in Stores(n, Produced(n, ports), "KnownMiss") :
            /\ slots' = [slots EXCEPT ![n] = ReleaseDrained(n, r.slot)]
            /\ disk' = [disk EXCEPT ![n] = r.blob]
  BY ZenonT(60) DEF Succeed
<1>2. PICK r \in Stores(n, Produced(n, ports), "KnownMiss") :
            /\ slots' = [slots EXCEPT ![n] = ReleaseDrained(n, r.slot)]
            /\ disk' = [disk EXCEPT ![n] = r.blob]
  BY <1>1
<1>. DEFINE x == Produced(n, ports)
<1>3. HoldsValue(slots[n]) /\ IsValue(slots[n].val) /\ slots[n].val.arity = program[n].outputs
  BY DEF Succeed, TurnTyped, MidTurn, NoTurn, StoreTyped, AreSlots
<1>4. /\ HoldsValue(x) /\ x.cur = slots[n].cur /\ IsValue(x.val) /\ x.val.made = turn.made
      /\ x.val.ports = ports /\ x.val.under = slots[n].cur /\ x.val.blob = "owed"
      /\ x.val.arity = program[n].outputs
  BY <1>3, ProducedReturns
<1>. HIDE DEF x
<1>5. (r.slot = x /\ r.blob = disk[n]) \/ Stored(n, x, r)
  BY <1>2, <1>4, StoresReturns DEF x
<1>6. /\ HoldsValue(r.slot) /\ r.slot.cur = slots[n].cur /\ IsValue(r.slot.val)
      /\ r.slot.val.made = turn.made /\ r.slot.val.under = slots[n].cur
      /\ r.slot.val.ports = ports /\ Backed(n, r.slot.val, r.blob)
      /\ \/ r.blob = disk[n]
         \/ /\ r.blob = [digest |-> slots[n].cur, ports |-> ports, made |-> turn.made,
                         arity |-> program[n].outputs, intact |-> TRUE]
            /\ slots[n].cur # None
  BY <1>4, <1>5 DEF Stored, SameValue, Backed, IsCurrent
<1>7. slots'[n] = ReleaseDrained(n, r.slot) /\ disk'[n] = r.blob
  BY <1>2 DEF StoreTyped, AreSlots
<1>8. /\ slots'[n].cur = slots[n].cur
      /\ Released(n) \/ (slots'[n] = r.slot /\ (Ram(n) \/ ~Drained(reads, n)))
  BY <1>6, <1>7, ReleaseDrainedReturns DEF Released
<1>9. outcome' = [outcome EXCEPT ![n] = "Ran"] /\ turn' = NoTurn
  BY DEF Succeed, Settle
<1>10. ProducedBy(n, ports)
  BY <1>6, <1>7, <1>8, <1>9 DEF ProducedBy
<1>11. \A m \in Nodes : m # n => slots'[m] = slots[m] /\ disk'[m] = disk[m]
  BY <1>2 DEF StoreTyped, AreSlots
<1>. QED  BY <1>1, <1>10, <1>11

OtherSlotsKept(n) == \A m \in Nodes : m # n => Kept(m)

\* serve_reuse serves its node or skips it, and leaves the other slots alone.
LEMMA ReuseServes ==
    ASSUME Typed, NEW n \in Nodes, ServeReuse(n)
    PROVE  OtherSlotsKept(n) /\ (EmptiedBy(n) \/ ServedFrom(n, slots[n]))
<1>0. StoreTyped /\ HoldsValue(slots[n]) /\ turn' = NoTurn
  BY DEF Typed, StoreTyped, AreSlots, ServeReuse, Ready
<1>1. CASE \E h \in Hydrated(n, slots[n]) :
            /\ slots' = [slots EXCEPT ![n] = ReleaseDrained(n, h.slot)]
            /\ disk' = [disk EXCEPT ![n] = h.blob]
            /\ Settle(n, "Reused")
  <2>1. PICK h \in Hydrated(n, slots[n]) :
            /\ slots' = [slots EXCEPT ![n] = ReleaseDrained(n, h.slot)]
            /\ disk' = [disk EXCEPT ![n] = h.blob]
            /\ Settle(n, "Reused")
    BY <1>1
  <2>2. slots'[n] = ReleaseDrained(n, h.slot) /\ disk'[n] = h.blob
    BY <1>0, <2>1 DEF StoreTyped, AreSlots
  <2>3. ServedFrom(n, slots[n])
    BY <1>0, <2>1, <2>2, ServedReturns DEF Settle
  <2>. QED  BY <1>0, <2>1, <2>3 DEF OtherSlotsKept, Kept, StoreTyped, AreSlots
<1>2. CASE /\ \E m \in MissedBlobs(n, slots[n]) : disk' = [disk EXCEPT ![n] = m.blob]
           /\ Skip(n)
  <2>1. PICK m \in MissedBlobs(n, slots[n]) : disk' = [disk EXCEPT ![n] = m.blob]
    BY <1>2
  <2>2. m.blob = Nothing \/ m.blob = disk[n]
    BY DEF MissedBlobs
  <2>4. AreSlots(slots) /\ slots' = [slots EXCEPT ![n].val = Nothing]
    BY <1>0, <1>2 DEF Skip, StoreTyped
  <2>3. /\ slots'[n].cur = slots[n].cur /\ slots'[n].val = Nothing
        /\ \A k \in Nodes : k # n => slots'[k] = slots[k]
    BY <2>4 DEF AreSlots, HoldsValue, IsSlot
  <2>. QED  BY <1>0, <1>2, <2>1, <2>2, <2>3 DEF OtherSlotsKept, Kept, StoreTyped, EmptiedBy, Skip, Settle
<1>. QED  BY <1>1, <1>2 DEF ServeReuse

\* A node served late is served from its new digest, and takes from the
\* others at most the ports it drains.
LEMMA LateServes ==
    ASSUME Typed, NEW n \in Nodes, LateServe(n)
    PROVE  OtherSlotsKept(n) /\ ServedFrom(n, Restamped(n))
<1>0. /\ StoreTyped /\ HoldsValue(slots[n]) /\ n \in DOMAIN program /\ phase = "run" /\ ~cancelled
      /\ turn' = NoTurn
  BY DEF Typed, StoreTyped, AreSlots, LateServe, Unkeyed, Ready
<1>1. PICK h \in Hydrated(n, Restamped(n)) :
        /\ slots' = LetGo([slots EXCEPT ![n] = ReleaseDrained(n, h.slot)], ReadsLeft({n}))
        /\ disk' = [disk EXCEPT ![n] = h.blob]
  BY DEF LateServe
<1>2. HoldsValue(Restamped(n))
  BY <1>0, RekeyedSlot DEF Restamped
<1>3. HoldsValue(ReleaseDrained(n, h.slot))
  BY <1>2, HydratedReturns, ReleaseDrainedReturns
<1>. DEFINE s == [slots EXCEPT ![n] = ReleaseDrained(n, h.slot)]
<1>4. AreSlots(s) /\ s[n] = ReleaseDrained(n, h.slot) /\ \A m \in Nodes : m # n => s[m] = slots[m]
  BY <1>0, <1>3, OneSlotWritten DEF StoreTyped
<1>. HIDE DEF s
<1>5. slots' = LetGo(s, ReadsLeft({n}))
  BY <1>1 DEF s
<1>6. slots'[n] = ReleaseDrained(n, h.slot)
  BY <1>0, <1>4, <1>5, OwnSlotKept DEF Typed
<1>7. disk'[n] = h.blob /\ \A m \in Nodes : m # n => disk'[m] = disk[m]
  BY <1>0, <1>1 DEF StoreTyped
<1>8. outcome' = [outcome EXCEPT ![n] = "Reused"]
  BY DEF LateServe, Settle
<1>9. ServedFrom(n, Restamped(n))
  BY <1>0, <1>2, <1>6, <1>7, <1>8, ServedReturns
<1>10. \A m \in Nodes : /\ slots'[m].cur = s[m].cur
                        /\ slots'[m] = s[m] \/ Lessened(m, slots'[m].val, s[m].val)
  BY <1>4, <1>5, LetGoReturns
<1>. QED  BY <1>4, <1>7, <1>9, <1>10 DEF OtherSlotsKept, Kept

\* A node skipped holds nothing, and keeps or loses its blob.
LEMMA SkipEmpties ==
    ASSUME Typed, NEW n \in Nodes, SkipUpstream(n)
    PROVE  OtherSlotsKept(n) /\ EmptiedBy(n)
<1>0. /\ StoreTyped /\ n \in DOMAIN program /\ phase = "run" /\ (~cancelled \/ turn # NoTurn)
  BY DEF Typed, SkipUpstream, ToInvoke, Ready, NoTurn, TurnTyped, MidTurn
<1>a. PICK s : s = [slots EXCEPT ![n].val = Nothing]
  OBVIOUS
<1>1. /\ s[n].cur = slots[n].cur /\ s[n].val = Nothing
      /\ \A m \in Nodes : m # n => s[m] = slots[m]
  BY <1>0, <1>a DEF StoreTyped, AreSlots, HoldsValue, IsSlot
<1>5. AreSlots(s)
  BY <1>0, <1>a, OneSlotEmptied DEF StoreTyped
<1>2. slots' = LetGo(s, ReadsLeft({n})) /\ disk' = disk
  BY <1>a DEF SkipUpstream
<1>3. slots'[n] = s[n]
  BY <1>0, <1>5, <1>2, OwnSlotKept DEF Typed
<1>4. \A m \in Nodes : /\ slots'[m].cur = s[m].cur
                       /\ slots'[m] = s[m] \/ Lessened(m, slots'[m].val, s[m].val)
  BY <1>5, <1>2, LetGoReturns
<1>. QED  BY <1>1, <1>2, <1>3, <1>4 DEF OtherSlotsKept, Kept, EmptiedBy, SkipUpstream, Settle

\* A lambda begins with its buffer in its slot, and with the reads of its
\* inputs taken.
LEMMA InvokeBegins ==
    ASSUME Typed, NEW n \in Nodes, StartInvoke(n)
    PROVE  OtherSlotsKept(n) /\ slots'[n] = InvokeBuffer(n) /\ disk' = disk
<1>0. /\ StoreTyped /\ n \in DOMAIN program /\ phase = "run" /\ (~cancelled \/ turn # NoTurn)
      /\ HoldsValue(slots[n])
  BY DEF Typed, StartInvoke, ToInvoke, Ready, NoTurn, TurnTyped, MidTurn, StoreTyped, AreSlots
<1>. DEFINE s == [slots EXCEPT ![n] = InvokeBuffer(n)]
<1>1. /\ AreSlots(s) /\ s[n] = InvokeBuffer(n)
      /\ \A m \in Nodes : m # n => s[m] = slots[m]
  BY <1>0, InvokeBufferReturns, OneSlotWritten DEF StoreTyped
<1>2. slots' = LetGo(s, ReadsLeft({n})) /\ disk' = disk
  BY DEF StartInvoke
<1>. HIDE DEF s
<1>3. slots'[n] = s[n]
  BY <1>0, <1>1, <1>2, OwnSlotKept DEF Typed
<1>4. \A m \in Nodes : /\ slots'[m].cur = s[m].cur
                       /\ slots'[m] = s[m] \/ Lessened(m, slots'[m].val, s[m].val)
  BY <1>1, <1>2, LetGoReturns
<1>. QED  BY <1>1, <1>2, <1>3, <1>4 DEF OtherSlotsKept, Kept

\* A lambda that fails leaves its slot empty.
LEMMA FailureEmpties ==
    ASSUME Typed, NEW n \in Nodes, IdentifyCancelled(n) \/ Fail(n)
    PROVE  OtherSlotsKept(n) /\ EmptiedBy(n)
<1>1. /\ slots'[n].cur = slots[n].cur /\ slots'[n].val = Nothing
      /\ \A m \in Nodes : m # n => slots'[m] = slots[m]
  BY OneSlotEmptied DEF IdentifyCancelled, Skip, Fail, Typed, StoreTyped
<1>2. /\ disk' = disk /\ turn' = NoTurn
      /\ \E how \in {"Skipped", "Failed"} : outcome' = [outcome EXCEPT ![n] = how]
  BY DEF IdentifyCancelled, Skip, Fail, Settle, Unkeyed, Ready
<1>. QED  BY <1>1, <1>2 DEF OtherSlotsKept, Kept, EmptiedBy

\* A node that misses late has its new digest and the value it had.
LEMMA LateMissRekeys ==
    ASSUME Typed, NEW n \in Nodes, LateMiss(n)
    PROVE  /\ OtherSlotsKept(n) /\ slots'[n] = Restamped(n)
           /\ disk'[n] = disk[n] \/ disk'[n] = Nothing
<1>1. PICK m \in MissedBlobs(n, Restamped(n)) : disk' = [disk EXCEPT ![n] = m.blob]
  BY DEF LateMiss
<1>2. m.blob = Nothing \/ m.blob = disk[n]
  BY DEF MissedBlobs
<1>. QED  BY <1>1, <1>2 DEF LateMiss, OtherSlotsKept, Kept, Typed, StoreTyped, AreSlots

(* The ways a turn leaves the cache.                                         *)
LEMMA TurnSlots ==
    ASSUME Typed, NEW n \in Nodes, Turn(n)
    PROVE  /\ OtherSlotsKept(n)
           /\ \/ (PassCut(n) \/ IdentifyFails(n)) /\ slots' = slots /\ disk' = disk
              \/ EmptiedBy(n)
              \/ ServeReuse(n) /\ ServedFrom(n, slots[n])
              \/ LateServe(n) /\ ServedFrom(n, Restamped(n))
              \/ /\ LateMiss(n) /\ slots'[n] = Restamped(n)
                 /\ disk'[n] = disk[n] \/ disk'[n] = Nothing
              \/ StartInvoke(n) /\ slots'[n] = InvokeBuffer(n) /\ disk' = disk
              \/ /\ Succeed(n)
                 /\ \E ports \in SUBSET Ports(program, n) :
                      /\ demand[n] \cup Binds[program[n].key] \subseteq ports
                      /\ ProducedBy(n, ports)
<1>1. CASE PassCut(n) \/ IdentifyFails(n)
  BY <1>1 DEF PassCut, IdentifyFails, cacheVars, OtherSlotsKept, Kept
<1>2. CASE Succeed(n)
  BY <1>2, ProducedIsStored DEF Typed, OtherSlotsKept, Kept
<1>. QED
  BY <1>1, <1>2, ReuseServes, LateServes, SkipEmpties, InvokeBegins, FailureEmpties,
     LateMissRekeys DEF Turn

-----------------------------------------------------------------------------
(* Between runs only what may be a RAM hit is held.                          *)
AtRest ==
    phase = "rest" => \A n \in Nodes :
        slots[n].val # Nothing => n \in DOMAIN program /\ Alive(program, n, slots[n])

BackedOr(n, slot, blob) ==
    slot.val # Nothing => n \in DOMAIN program /\ Backed(n, slot.val, blob)

\* What BeliefIsBacked says of a slot outside its turn.
LEMMA BeliefOf ==
    ASSUME BeliefIsBacked, NEW n \in Nodes, turn.node # n
    PROVE  BackedOr(n, slots[n], disk[n])
BY DEF BeliefIsBacked, BackedOr, Backed, Held, Invoking

\* BeliefIsBacked after a step that keeps the program, from each slot outside
\* its turn.
LEMMA BeliefFrom ==
    ASSUME program' = program,
           \A n \in Nodes : turn'.node # n => BackedOr(n, slots'[n], disk'[n])
    PROVE  BeliefIsBacked'
BY DEF BeliefIsBacked, BackedOr, Backed, Held, Invoking

\* A value with fewer ports is backed by the blob that backed it whole.
LEMMA LessIsBacked ==
    ASSUME NEW n, NEW s, NEW t, NEW blob, BackedOr(n, s, blob), s.val = Nothing => t.val = Nothing,
           t = s \/ Lessened(n, t.val, s.val)
    PROVE  BackedOr(n, t, blob)
BY ValueIsSomething DEF BackedOr, Backed, Lessened, Covers

\* No turn leaves a belief without its blob.
LEMMA BeliefAfterTurn ==
    ASSUME Typed, BeliefIsBacked, NEW n \in Nodes, Turn(n)
    PROVE  BeliefIsBacked'
<1>. USE ProgramIsProgram
<1>0. Typed /\ ProgramTyped /\ TurnTyped /\ StoreTyped
  BY DEF Typed
<1>1. program' = program /\ n \in DOMAIN program /\ NoTurn.node = 0 /\ 0 \notin Nodes
  BY <1>0, TurnFrame DEF NoTurn
<1>2. ASSUME NEW m \in Nodes, m # n PROVE BackedOr(m, slots'[m], disk'[m])
  <2>1. BackedOr(m, slots[m], disk[m])
    BY <1>0, <1>1, <1>2, TurnFrame, BeliefOf
  <2>2. Kept(m)
    BY <1>0, <1>2, TurnSlots DEF OtherSlotsKept
  <2>3. slots'[m] = slots[m] \/ Lessened(m, slots'[m].val, slots[m].val)
    BY <2>2 DEF Kept
  <2>4. slots[m].val = Nothing => slots'[m].val = Nothing
    BY <2>3, ValueIsSomething DEF Lessened
  <2>. QED  BY <2>1, <2>2, <2>3, <2>4, LessIsBacked DEF Kept
<1>3. ASSUME turn'.node # n PROVE BackedOr(n, slots'[n], disk'[n])
  <2>1. turn' = NoTurn
    BY <1>0, <1>3, TurnFrame
  <2>2. ASSUME turn = NoTurn PROVE BackedOr(n, slots[n], disk[n])
    BY <1>1, <2>2, BeliefOf
  <2>3. CASE PassCut(n) /\ slots' = slots /\ disk' = disk
    BY <2>2, <2>3 DEF PassCut, Ready
  <2>4. CASE EmptiedBy(n)
    BY <2>4 DEF EmptiedBy, BackedOr
  <2>5. ASSUME NEW slot, slot.val = slots[n].val, turn = NoTurn, ServedFrom(n, slot)
        PROVE  BackedOr(n, slots'[n], disk'[n])
    <3>1. BackedOr(n, slot, disk[n])
      BY <2>2, <2>5 DEF BackedOr
    <3>2. CASE Released(n)
      BY <3>2 DEF Released, BackedOr
    <3>3. CASE IsResidentHit(slot, demand[n]) /\ slots'[n].val = slot.val /\ disk'[n] = disk[n]
      BY <3>1, <3>3 DEF BackedOr
    <3>4. CASE IsResidentHit(slot, demand[n]) /\
               (slot.val.arity = program[n].outputs => Backed(n, slots'[n].val, disk'[n]))
      BY <1>1, <3>1, <3>4 DEF BackedOr, Backed, IsResidentHit, IsCurrent
    <3>5. CASE /\ Covers(disk[n], slot.cur, demand[n], program[n].outputs)
               /\ slots'[n].val = Decoded(n, slot) /\ disk'[n] = disk[n]
      <4>1. /\ slots'[n].val.under = slot.cur /\ slots'[n].val.ports = disk[n].ports
            /\ slots'[n].val.blob = "written" /\ slots'[n].val.arity = program[n].outputs
        BY <3>5 DEF Decoded
      <4>. QED  BY <1>1, <3>5, <4>1 DEF BackedOr, Backed, Covers
    <3>. QED  BY <2>5, <3>2, <3>3, <3>4, <3>5 DEF ServedFrom
  <2>6. CASE ServeReuse(n) /\ ServedFrom(n, slots[n])
    BY <2>5, <2>6 DEF ServeReuse, Ready
  <2>7. CASE LateServe(n) /\ ServedFrom(n, Restamped(n))
    <3>1. Restamped(n).val = slots[n].val
      BY <1>0, RekeyedSlot DEF Restamped, StoreTyped, AreSlots
    <3>2. turn = NoTurn
      BY <2>7 DEF LateServe, Unkeyed, Ready
    <3>. QED  BY <2>5, <2>7, <3>1, <3>2
  <2>8. ASSUME NEW ports, ProducedBy(n, ports) PROVE BackedOr(n, slots'[n], disk'[n])
    BY <1>1, <2>8 DEF ProducedBy, Released, BackedOr
  <2>9. ~ (IdentifyFails(n) \/ LateMiss(n) \/ StartInvoke(n))
    <3>1. IdentifyFails(n) => turn'.node = n
      BY DEF IdentifyFails, NoTurn
    <3>2. LateMiss(n) => turn'.node = n
      BY DEF LateMiss, NoTurn
    <3>3. StartInvoke(n) => turn'.node = n
      BY DEF StartInvoke
    <3>. QED  BY <1>3, <3>1, <3>2, <3>3
  <2>. QED  BY <1>0, <2>3, <2>4, <2>6, <2>7, <2>8, <2>9, TurnSlots
<1>. QED  BY <1>1, <1>2, <1>3, BeliefFrom

\* Every step keeps the beliefs backed, and a run's end leaves only what may
\* be a RAM hit.
LEMMA BeliefAndRestStep ==
    ASSUME Typed, BeliefIsBacked, AtRest, [Next]_vars
    PROVE  BeliefIsBacked' /\ AtRest'
<1>. USE ProgramIsProgram
<1>0. Typed /\ ProgramTyped /\ TurnTyped /\ StoreTyped /\ AreSlots(slots)
  BY DEF Typed, StoreTyped
<1>a. \A n \in Nodes : HoldsValue(slots[n])
  BY <1>0 DEF AreSlots
<1>b. turn = NoTurn => \A n \in Nodes : BackedOr(n, slots[n], disk[n])
  BY <1>0, BeliefOf DEF NoTurn
<1>c. phase = "rest" => turn = NoTurn
  BY <1>0 DEF TurnTyped, MidTurn
<1>d. \A n \in Nodes : EmptySlot.val = Nothing /\ ~ (EmptySlot.val # Nothing)
  BY DEF EmptySlot
<1>1. ASSUME NEW n \in Nodes, Turn(n) PROVE BeliefIsBacked' /\ AtRest'
  BY <1>0, <1>1, BeliefAfterTurn, TurnFrame DEF AtRest
<1>2. ASSUME program' = program, \A n \in Nodes : slots'[n] = EmptySlot \/ BackedOr(n, slots'[n], disk'[n])
      PROVE  BeliefIsBacked'
  BY <1>2, <1>d, BeliefFrom DEF BackedOr
<1>3. CASE EndRun
  <2>. DEFINE s == LetGo(slots, ReadsLeft(Waiting \cap Running(program, state)))
  <2>1. slots' = ReleaseDead(program, s) /\ program' = program /\ disk' = disk /\ turn = NoTurn
    BY <1>3 DEF EndRun
  <2>2. AreSlots(s) /\ \A n \in Nodes : s[n] = slots[n] \/ Lessened(n, s[n].val, slots[n].val)
    BY <1>0, LetGoReturns
  <2>. HIDE DEF s
  <2>3. ASSUME NEW n \in Nodes PROVE BackedOr(n, s[n], disk[n])
    <3>1. slots[n].val = Nothing => s[n].val = Nothing
      BY <2>2, ValueIsSomething DEF Lessened
    <3>. QED  BY <1>b, <2>1, <2>2, <3>1, LessIsBacked
  <2>4. \A n \in Nodes : \/ slots'[n] = s[n] /\ (n \in DOMAIN program => Alive(program, n, s[n]))
                         \/ slots'[n].val = Nothing
    BY <2>1, <2>2, ReleaseDeadReturns
  <2>5. \A n \in Nodes : BackedOr(n, slots'[n], disk'[n])
    BY <2>1, <2>3, <2>4 DEF BackedOr
  <2>6. AtRest'
    BY <2>1, <2>4, <2>5 DEF AtRest, BackedOr, Alive
  <2>. QED  BY <1>2, <2>1, <2>5, <2>6
<1>4. CASE Crash \/ Clear
  <2>1. \A n \in Nodes : slots'[n].val = Nothing
    BY <1>4, <1>d DEF Crash, Clear
  <2>. QED  BY <2>1 DEF BeliefIsBacked, AtRest, Held
<1>5. ASSUME NEW asked, BeginRun(asked) PROVE BeliefIsBacked' /\ AtRest'
  <2>1. PICK planned : slots' = Stamps(program, planned, slots, memo')
    BY <1>5 DEF BeginRun
  <2>2. program' = program /\ disk' = disk /\ phase' = "run" /\ phase = "rest"
    BY <1>5 DEF BeginRun
  <2>3. \A n \in Nodes : slots'[n].val = slots[n].val
    BY <1>0, <2>1, StampsReturns
  <2>4. \A n \in Nodes : BackedOr(n, slots'[n], disk'[n])
    BY <1>b, <1>c, <2>2, <2>3 DEF BackedOr
  <2>. QED  BY <1>2, <2>2, <2>4 DEF AtRest
<1>6. CASE /\ UNCHANGED <<program, seeds, state, demand, slots, disk>>
           /\ UNCHANGED <<phase, reads, outcome, turn, memo, runs>>
  BY <1>6 DEF BeliefIsBacked, AtRest, Held, Invoking, Alive
<1>7. ASSUME NEW g \in Programs, Install(g) PROVE BeliefIsBacked' /\ AtRest'
  <2>1. slots' = ReleaseDead(g, Realigned(g)) /\ program' = g /\ disk' = disk /\ phase = "rest"
    BY <1>7 DEF Install
  <2>2. AreSlots(Realigned(g))
    BY <1>0, RealignedReturns
  <2>3. ASSUME NEW n \in Nodes, slots'[n].val # Nothing
        PROVE  /\ n \in DOMAIN g /\ Alive(g, n, slots'[n])
               /\ slots'[n].val.blob = "written" =>
                      Covers(disk[n], slots'[n].val.under, slots'[n].val.ports, g[n].outputs)
               /\ slots'[n].val.blob # "unwritable"
    <3>1. /\ slots'[n] = Realigned(g)[n]
          /\ n \in DOMAIN g => Alive(g, n, slots'[n])
      BY <2>1, <2>2, <2>3, ReleaseDeadReturns
    <3>2. /\ n \in DOMAIN g \cap DOMAIN program
          /\ SameValue(slots'[n].val, slots[n].val)
          /\ \/ slots'[n].val.blob = "owed"
             \/ /\ slots'[n].val.blob = slots[n].val.blob
                /\ slots[n].val.blob # "unwritable"
      BY <1>0, <1>d, <2>3, <3>1, RealignedReturns
    <3>3. slots[n].val # Nothing
      BY <3>2, ValueIsSomething DEF SameValue
    <3>4. Backed(n, slots[n].val, disk[n])
      BY <1>b, <1>c, <2>1, <3>3 DEF BackedOr
    <3>. QED  BY <3>1, <3>2, <3>4 DEF SameValue, Backed, Alive
  <2>4. BeliefIsBacked'
    BY <2>1, <2>3 DEF BeliefIsBacked, Held, Alive
  <2>5. AtRest'
    BY <2>1, <2>3 DEF AtRest
  <2>. QED  BY <2>4, <2>5
<1>8. ASSUME NEW from, Evict(from) PROVE BeliefIsBacked' /\ AtRest'
  <2>1. PICK out :
          /\ disk' = [n \in Nodes |-> IF n \in out THEN Nothing ELSE disk[n]]
          /\ slots' = [n \in Nodes |-> IF n \in out THEN [slots[n] EXCEPT !.val = Nothing]
                                       ELSE slots[n]]
    BY <1>8 DEF Evict
  <2>2. program' = program /\ phase = "rest"
    BY <1>8 DEF Evict
  <2>3. \A n \in Nodes : \/ slots'[n].val = Nothing
                         \/ slots'[n] = slots[n] /\ disk'[n] = disk[n]
    BY <1>a, <2>1, EmptiedSlot
  <2>4. \A n \in Nodes : BackedOr(n, slots'[n], disk'[n])
    BY <1>b, <1>c, <2>2, <2>3 DEF BackedOr
  <2>5. AtRest'
    BY <2>2, <2>3 DEF AtRest
  <2>. QED  BY <1>2, <2>2, <2>4, <2>5
<1>9. ASSUME NEW n \in Nodes, Flush(n) PROVE BeliefIsBacked' /\ AtRest'
  <2>1. PICK r \in Stores(n, slots[n], "PreserveCovering") :
          slots' = [slots EXCEPT ![n] = r.slot] /\ disk' = [disk EXCEPT ![n] = r.blob]
    BY <1>9 DEF Flush
  <2>2. program' = program /\ phase = "rest"
    BY <1>9 DEF Flush
  <2>3. (r.slot = slots[n] /\ r.blob = disk[n]) \/ Stored(n, slots[n], r)
    BY <1>a, StoresReturns
  <2>4. /\ slots'[n] = r.slot /\ disk'[n] = r.blob
        /\ \A m \in Nodes : m # n => slots'[m] = slots[m] /\ disk'[m] = disk[m]
    BY <1>0, <2>1 DEF StoreTyped, AreSlots
  <2>5. Stored(n, slots[n], r) => BackedOr(n, r.slot, r.blob)
    BY <1>b, <1>c, <2>2 DEF Stored, SameValue, BackedOr, Backed, IsCurrent
  <2>6. \A m \in Nodes : BackedOr(m, slots'[m], disk'[m])
    BY <1>b, <1>c, <2>2, <2>3, <2>4, <2>5
  <2>7. Stored(n, slots[n], r) /\ Alive(program, n, slots[n]) => Alive(program, n, r.slot)
    BY ValueIsSomething DEF Stored, SameValue, Alive, IsCurrent
  <2>8. AtRest'
    BY <2>2, <2>3, <2>4, <2>7 DEF AtRest, Stored, IsCurrent
  <2>. QED  BY <1>2, <2>2, <2>6, <2>8
<1>10. ASSUME NEW n \in Nodes, Corrupt(n) PROVE BeliefIsBacked' /\ AtRest'
  <2>1. IsBlob(disk[n]) /\ disk' = [disk EXCEPT ![n] = [disk[n] EXCEPT !.intact = FALSE]]
    BY <1>0, <1>10 DEF Corrupt, StoreTyped
  <2>2. program' = program /\ phase = "rest" /\ slots' = slots /\ phase' = phase
    BY <1>10 DEF Corrupt, runVars
  <2>3. PICK b : b = [disk[n] EXCEPT !.intact = FALSE]
    OBVIOUS
  <2>4. /\ IsBlob(b) /\ b.digest = disk[n].digest /\ b.ports = disk[n].ports
        /\ b.arity = disk[n].arity
    BY Zenon, <2>1, <2>3, RottedBlob
  <2>5. disk'[n] = b /\ \A m \in Nodes : m # n => disk'[m] = disk[m]
    BY <1>0, <2>1, <2>3 DEF StoreTyped
  <2>6. \A m \in Nodes : \A digest, wanted, arity :
            Covers(disk[m], digest, wanted, arity) => Covers(disk'[m], digest, wanted, arity)
    BY <2>1, <2>4, <2>5, BlobIsSomething DEF Covers
  <2>7. \A m \in Nodes : BackedOr(m, slots'[m], disk'[m])
    BY <1>b, <1>c, <2>2, <2>6 DEF BackedOr, Backed
  <2>8. AtRest'
    BY <2>2 DEF AtRest
  <2>. QED  BY <1>2, <2>2, <2>7, <2>8
<1>11. CASE ~ \E n \in Nodes : Turn(n)
  BY <1>3, <1>4, <1>5, <1>6, <1>7, <1>8, <1>9, <1>10, <1>11, OtherFrame
<1>. QED  BY <1>1, <1>11

-----------------------------------------------------------------------------
(* What any step does to a slot and a blob: it carries them over, loads the  *)
(* one from the other, or the node's lambda begins or returns.               *)
BlobOf(val) ==
    [digest |-> val.under, ports |-> val.ports, made |-> val.made, arity |-> val.arity,
     intact |-> TRUE]

CarriedValue(m) ==
    \/ slots'[m].val = Nothing
    \/ /\ slots[m].val # Nothing /\ IsValue(slots'[m].val)
       /\ slots'[m].val.made = slots[m].val.made /\ slots'[m].val.under = slots[m].val.under
       /\ slots'[m].val.arity = slots[m].val.arity
       /\ slots'[m].val.ports \subseteq slots[m].val.ports
       /\ Lessened(m, slots'[m].val, slots[m].val) \/ slots'[m].val.ports = slots[m].val.ports

CarriedBlob(m) ==
    \/ disk'[m] = Nothing
    \/ /\ disk[m] # Nothing /\ IsBlob(disk'[m])
       /\ disk'[m].digest = disk[m].digest /\ disk'[m].ports = disk[m].ports
       /\ disk'[m].made = disk[m].made /\ disk'[m].arity = disk[m].arity
    \/ /\ slots[m].val # Nothing /\ slots[m].val.under # None /\ turn.node # m
       /\ disk'[m] = BlobOf(slots[m].val)

Carried(m) == CarriedValue(m) /\ CarriedBlob(m)

Loaded(m) ==
    /\ (ServeReuse(m) /\ slots'[m].cur = slots[m].cur)
          \/ (LateServe(m) /\ slots'[m].cur = Restamped(m).cur)
    /\ Covers(disk[m], slots'[m].cur, demand[m], program[m].outputs)
    /\ slots'[m].val = Decoded(m, slots'[m]) /\ disk'[m] = disk[m]
    /\ outcome' = [outcome EXCEPT ![m] = "Reused"] /\ turn' = NoTurn

Returns(m) ==
    /\ Succeed(m)
    /\ \E ports \in SUBSET Ports(program, m) :
         /\ demand[m] \cup Binds[program[m].key] \subseteq ports
         /\ ProducedBy(m, ports)

\* A value kept or taken is carried over.
LEMMA SameIsCarried ==
    ASSUME StoreTyped, NEW m \in Nodes, slots'[m].val = slots[m].val \/ slots'[m].val = Nothing
    PROVE  CarriedValue(m)
BY DEF CarriedValue, StoreTyped, AreSlots, HoldsValue

\* A blob kept or removed is carried over.
LEMMA SameBlobIsCarried ==
    ASSUME StoreTyped, NEW m \in Nodes, disk'[m] = disk[m] \/ disk'[m] = Nothing
    PROVE  CarriedBlob(m)
BY DEF CarriedBlob, StoreTyped

\* A slot another node's turn kept is carried over.
LEMMA KeptIsCarried ==
    ASSUME StoreTyped, NEW m \in Nodes, Kept(m)
    PROVE  Carried(m)
<1>1. CarriedBlob(m)
  BY SameBlobIsCarried DEF Kept
<1>2. CASE slots'[m] = slots[m]
  BY <1>1, <1>2, SameIsCarried DEF Carried
<1>3. CASE Lessened(m, slots'[m].val, slots[m].val)
  BY <1>1, <1>3, ValueIsSomething DEF Carried, CarriedValue, Lessened
<1>. QED  BY <1>2, <1>3 DEF Kept

\* A node served holds the value it held, or the blob's.
LEMMA ServedIsCarried ==
    ASSUME StoreTyped, NEW m \in Nodes, NEW slot, slot.val = slots[m].val, turn = NoTurn,
           0 \notin Nodes, ServedFrom(m, slot)
    PROVE  \/ Carried(m)
           \/ /\ slots'[m].cur = slot.cur
              /\ Covers(disk[m], slots'[m].cur, demand[m], program[m].outputs)
              /\ slots'[m].val = Decoded(m, slots'[m]) /\ disk'[m] = disk[m]
              /\ outcome' = [outcome EXCEPT ![m] = "Reused"] /\ turn' = NoTurn
<1>1. CarriedBlob(m)
  <2>1. CASE disk'[m] = disk[m]
    BY <2>1, SameBlobIsCarried
  <2>2. CASE /\ disk'[m] = [digest |-> slot.cur, ports |-> slot.val.ports,
                         made |-> slot.val.made, arity |-> slot.val.arity, intact |-> TRUE]
             /\ IsCurrent(slot)
    BY <2>2 DEF CarriedBlob, BlobOf, IsCurrent, NoTurn
  <2>. QED  BY <2>1, <2>2 DEF ServedFrom
<1>2. CASE Released(m)
  BY <1>1, <1>2 DEF Released, Carried, CarriedValue
<1>3. CASE IsResidentHit(slot, demand[m]) /\ SameValue(slots'[m].val, slot.val)
  BY <1>1, <1>3 DEF Carried, CarriedValue, SameValue, IsResidentHit, IsCurrent
<1>4. CASE /\ Covers(disk[m], slot.cur, demand[m], program[m].outputs)
           /\ slots'[m].val = Decoded(m, slot) /\ disk'[m] = disk[m]
  BY <1>4 DEF ServedFrom, Decoded
<1>. QED  BY <1>2, <1>3, <1>4 DEF ServedFrom

\* A turn carries over every slot but its own, and its own too unless a blob
\* is loaded into it or its lambda begins or returns.
LEMMA TurnCarries ==
    ASSUME Typed, NEW n \in Nodes, Turn(n)
    PROVE  /\ \A m \in Nodes : m # n => Kept(m) /\ Carried(m)
           /\ \/ Carried(n) /\ (slots'[n].val = Nothing \/ ~Invoking(n))
              \/ Loaded(n) \/ Returns(n)
              \/ StartInvoke(n) /\ slots'[n] = InvokeBuffer(n) /\ disk' = disk
<1>0. Typed /\ ProgramTyped /\ StoreTyped /\ 0 \notin Nodes
  BY ProgramIsProgram DEF Typed
<1>1. \A m \in Nodes : m # n => Kept(m) /\ Carried(m)
  BY <1>0, TurnSlots, KeptIsCarried DEF OtherSlotsKept
<1>a. PassCut(n) \/ ServeReuse(n) \/ IdentifyFails(n) \/ LateServe(n) \/ LateMiss(n) =>
        ~Invoking(n)
  BY DEF PassCut, ServeReuse, IdentifyFails, LateServe, LateMiss, Unkeyed, Ready, Invoking, NoTurn
<1>2. CASE (PassCut(n) \/ IdentifyFails(n)) /\ slots' = slots /\ disk' = disk
  BY <1>0, <1>1, <1>2, <1>a, SameIsCarried, SameBlobIsCarried DEF Carried
<1>3. CASE EmptiedBy(n)
  BY <1>0, <1>1, <1>3, SameIsCarried, SameBlobIsCarried DEF Carried, EmptiedBy
<1>4. CASE ServeReuse(n) /\ ServedFrom(n, slots[n])
  <2>1. turn = NoTurn
    BY <1>4 DEF ServeReuse, Ready
  <2>. QED  BY <1>0, <1>1, <1>4, <1>a, <2>1, ServedIsCarried DEF Loaded
<1>5. Restamped(n).val = slots[n].val
  BY <1>0, RekeyedSlot DEF Restamped, StoreTyped, AreSlots
<1>6. CASE LateServe(n) /\ ServedFrom(n, Restamped(n))
  <2>1. turn = NoTurn
    BY <1>6 DEF LateServe, Unkeyed, Ready
  <2>2. \/ Carried(n)
        \/ /\ slots'[n].cur = Restamped(n).cur
           /\ Covers(disk[n], slots'[n].cur, demand[n], program[n].outputs)
           /\ slots'[n].val = Decoded(n, slots'[n]) /\ disk'[n] = disk[n]
           /\ outcome' = [outcome EXCEPT ![n] = "Reused"] /\ turn' = NoTurn
    BY <1>0, <1>5, <1>6, <2>1, ServedIsCarried
  <2>. QED  BY <1>1, <1>6, <1>a, <2>2 DEF Loaded
<1>7. CASE /\ LateMiss(n) /\ slots'[n] = Restamped(n)
           /\ disk'[n] = disk[n] \/ disk'[n] = Nothing
  BY <1>0, <1>1, <1>5, <1>7, <1>a, SameIsCarried, SameBlobIsCarried DEF Carried
<1>8. CASE StartInvoke(n) /\ slots'[n] = InvokeBuffer(n) /\ disk' = disk
  BY <1>1, <1>8
<1>9. CASE Succeed(n) /\ \E ports \in SUBSET Ports(program, n) :
                      /\ demand[n] \cup Binds[program[n].key] \subseteq ports
                      /\ ProducedBy(n, ports)
  BY <1>1, <1>9 DEF Returns
<1>. QED  BY <1>0, <1>2, <1>3, <1>4, <1>6, <1>7, <1>8, <1>9, TurnSlots

\* Every step outside a turn carries every slot and blob over.
LEMMA OtherStepsCarry ==
    ASSUME Typed, [Next]_vars, ~ \E n \in Nodes : Turn(n)
    PROVE  \A m \in Nodes : Carried(m)
<1>0. Typed /\ ProgramTyped /\ StoreTyped /\ TurnTyped /\ AreSlots(slots) /\ 0 \notin Nodes
  BY ProgramIsProgram DEF Typed, StoreTyped
<1>a. \A n \in Nodes : HoldsValue(slots[n])
  BY <1>0 DEF AreSlots
<1>b. EmptySlot.val = Nothing
  BY DEF EmptySlot
<1>1. CASE EndRun
  <2>. DEFINE s == LetGo(slots, ReadsLeft(Waiting \cap Running(program, state)))
  <2>1. slots' = ReleaseDead(program, s) /\ disk' = disk
    BY <1>1 DEF EndRun
  <2>2. AreSlots(s) /\ \A n \in Nodes : s[n] = slots[n] \/ Lessened(n, s[n].val, slots[n].val)
    BY <1>0, LetGoReturns
  <2>. HIDE DEF s
  <2>3. \A n \in Nodes : slots'[n] = s[n] \/ slots'[n].val = Nothing
    BY <2>1, <2>2, ReleaseDeadReturns
  <2>4. \A n \in Nodes : CarriedValue(n)
    BY <1>0, <2>2, <2>3, SameIsCarried, ValueIsSomething DEF CarriedValue, Lessened
  <2>. QED  BY <1>0, <2>1, <2>4, SameBlobIsCarried DEF Carried
<1>2. CASE Crash \/ Clear
  <2>1. disk' = disk /\ \A n \in Nodes : slots'[n].val = Nothing
    BY <1>2, <1>b DEF Crash, Clear
  <2>. QED  BY <1>0, <2>1, SameIsCarried, SameBlobIsCarried DEF Carried
<1>3. CASE \E asked \in Seeds : BeginRun(asked)
  <2>1. PICK planned : slots' = Stamps(program, planned, slots, memo')
    BY <1>3 DEF BeginRun
  <2>2. disk' = disk /\ IsProgram(program)
    BY <1>0, <1>3, ProgramIsProgram DEF BeginRun
  <2>3. \A n \in Nodes : slots'[n].val = slots[n].val
    BY <1>0, <2>1, <2>2, StampsReturns
  <2>. QED  BY <1>0, <2>2, <2>3, SameIsCarried, SameBlobIsCarried DEF Carried
<1>4. CASE UNCHANGED <<slots, disk>>
  BY <1>0, <1>4, SameIsCarried, SameBlobIsCarried DEF Carried
<1>5. ASSUME NEW g \in Programs, Install(g) PROVE \A m \in Nodes : Carried(m)
  <2>1. slots' = ReleaseDead(g, Realigned(g)) /\ disk' = disk
    BY <1>5 DEF Install
  <2>2. AreSlots(Realigned(g))
    BY <1>0, RealignedReturns
  <2>3. ASSUME NEW n \in Nodes, slots'[n].val # Nothing PROVE CarriedValue(n)
    <3>1. slots'[n] = Realigned(g)[n]
      BY <2>1, <2>2, <2>3, ReleaseDeadReturns
    <3>2. SameValue(slots'[n].val, slots[n].val)
      BY <1>0, <1>b, <2>3, <3>1, RealignedReturns
    <3>. QED  BY <3>2, ValueIsSomething DEF SameValue, CarriedValue
  <2>. QED  BY <1>0, <2>1, <2>3, SameBlobIsCarried DEF Carried, CarriedValue
<1>6. ASSUME NEW from, Evict(from) PROVE \A m \in Nodes : Carried(m)
  <2>1. PICK out :
          /\ disk' = [n \in Nodes |-> IF n \in out THEN Nothing ELSE disk[n]]
          /\ slots' = [n \in Nodes |-> IF n \in out THEN [slots[n] EXCEPT !.val = Nothing]
                                       ELSE slots[n]]
    BY <1>6 DEF Evict
  <2>2. \A n \in Nodes : /\ slots'[n].val = Nothing \/ slots'[n] = slots[n]
                         /\ disk'[n] = disk[n] \/ disk'[n] = Nothing
    BY <1>a, <2>1, EmptiedSlot
  <2>. QED  BY <1>0, <2>2, SameIsCarried, SameBlobIsCarried DEF Carried
<1>7. ASSUME NEW n \in Nodes, Flush(n) PROVE \A m \in Nodes : Carried(m)
  <2>1. PICK r \in Stores(n, slots[n], "PreserveCovering") :
          slots' = [slots EXCEPT ![n] = r.slot] /\ disk' = [disk EXCEPT ![n] = r.blob]
    BY <1>7 DEF Flush
  <2>2. (r.slot = slots[n] /\ r.blob = disk[n]) \/ Stored(n, slots[n], r)
    BY <1>a, StoresReturns
  <2>3. /\ slots'[n] = r.slot /\ disk'[n] = r.blob
        /\ \A m \in Nodes : m # n => slots'[m] = slots[m] /\ disk'[m] = disk[m]
    BY <1>0, <2>1 DEF StoreTyped, AreSlots
  <2>4. turn.node # n
    BY <1>0, <1>7 DEF Flush, TurnTyped, MidTurn, NoTurn
  <2>5. Carried(n)
    <3>1. CASE r.slot = slots[n] /\ r.blob = disk[n]
      BY <1>0, <2>3, <3>1, SameIsCarried, SameBlobIsCarried DEF Carried
    <3>2. CASE Stored(n, slots[n], r)
      <4>1. CarriedValue(n)
        BY <2>3, <3>2, ValueIsSomething DEF Stored, SameValue, CarriedValue
      <4>2. slots[n].val # Nothing /\ slots[n].val.under = slots[n].cur /\ slots[n].cur # None
        BY <3>2 DEF Stored, IsCurrent
      <4>3. disk'[n] = disk[n] \/ disk'[n] = BlobOf(slots[n].val)
        BY <2>3, <3>2, <4>2 DEF Stored, BlobOf
      <4>4. CarriedBlob(n)
        BY <1>0, <2>4, <4>2, <4>3, SameBlobIsCarried DEF CarriedBlob
      <4>. QED  BY <4>1, <4>4 DEF Carried
    <3>. QED  BY <2>2, <3>1, <3>2
  <2>. QED  BY <1>0, <2>3, <2>5, SameIsCarried, SameBlobIsCarried DEF Carried
<1>8. ASSUME NEW n \in Nodes, Corrupt(n) PROVE \A m \in Nodes : Carried(m)
  <2>1. /\ IsBlob(disk[n]) /\ disk' = [disk EXCEPT ![n] = [disk[n] EXCEPT !.intact = FALSE]]
        /\ slots' = slots
    BY <1>0, <1>8 DEF Corrupt, StoreTyped
  <2>2. PICK b : b = [disk[n] EXCEPT !.intact = FALSE]
    OBVIOUS
  <2>3. /\ IsBlob(b) /\ b.digest = disk[n].digest /\ b.ports = disk[n].ports
        /\ b.made = disk[n].made /\ b.arity = disk[n].arity
    BY Zenon, <2>1, <2>2, RottedBlob
  <2>4. disk'[n] = b /\ \A m \in Nodes : m # n => disk'[m] = disk[m]
    BY <1>0, <2>1, <2>2 DEF StoreTyped
  <2>5. CarriedBlob(n)
    BY <2>1, <2>3, <2>4, BlobIsSomething DEF CarriedBlob
  <2>. QED  BY <1>0, <2>1, <2>4, <2>5, SameIsCarried, SameBlobIsCarried DEF Carried
<1>. QED
  BY <1>0, <1>1, <1>2, <1>3, <1>4, <1>5, <1>6, <1>7, <1>8, OtherFrame

(* What a value and a blob have bound is of the ports their node had.        *)
PortsInRange ==
    \A n \in Nodes :
        /\ slots[n].val # Nothing => slots[n].val.ports \subseteq 1..slots[n].val.arity
        /\ disk[n] # Nothing => disk[n].ports \subseteq 1..disk[n].arity

\* Every step keeps the ports held among those of the node.
LEMMA RangeStep ==
    ASSUME Typed, PortsInRange, [Next]_vars
    PROVE  PortsInRange'
<1>0. Typed /\ ProgramTyped /\ TurnTyped /\ StoreTyped
  BY DEF Typed
<1>. DEFINE Within(m) ==
        /\ slots'[m].val # Nothing => slots'[m].val.ports \subseteq 1..slots'[m].val.arity
        /\ disk'[m] # Nothing => disk'[m].ports \subseteq 1..disk'[m].arity
<1>1. ASSUME NEW m \in Nodes, Carried(m) PROVE Within(m)
  BY <1>1 DEF PortsInRange, Carried, CarriedValue, CarriedBlob, BlobOf
<1>2. ASSUME NEW n \in Nodes, Loaded(n) PROVE Within(n)
  BY <1>2 DEF PortsInRange, Loaded, Decoded, Covers
<1>3. ASSUME NEW n \in Nodes, Returns(n) PROVE Within(n)
  BY <1>3 DEF PortsInRange, Returns, ProducedBy, Released, Backed, Ports
<1>4. ASSUME NEW n \in Nodes, slots'[n] = InvokeBuffer(n), disk' = disk PROVE Within(n)
  <2>1. InvokeBuffer(n).val.ports = {}
    BY <1>0 DEF InvokeBuffer, StoreTyped, AreSlots, HoldsValue, IsSlot
  <2>. QED  BY <1>4, <2>1 DEF PortsInRange
<1>5. \A m \in Nodes : Within(m)
  <2>1. CASE \E n \in Nodes : Turn(n)
    BY <1>0, <1>1, <1>2, <1>3, <1>4, <2>1, TurnCarries
  <2>2. CASE ~ \E n \in Nodes : Turn(n)
    BY <1>0, <1>1, <2>2, OtherStepsCarry
  <2>. QED  BY <2>1, <2>2
<1>. QED  BY <1>5 DEF PortsInRange

-----------------------------------------------------------------------------
(* A node whose turn is to come holds no value it would not keep in RAM.     *)
WaitingHoldNothing ==
    phase = "run" => \A n \in DOMAIN program :
        outcome[n] = "Pending" /\ ~Invoking(n) /\ ~Ram(n) => slots[n].val = Nothing

SpentAt(n, val, left) ==
    /\ ~Drained(left, n)
    /\ \A p \in val.ports : left[n][p] = 0 => Readers(program, state)[n][p] = 0

(* Before a node settles no read of it was taken.                            *)
LEMMA UnreadYet ==
    ASSUME Typed, phase = "run", ~cancelled \/ turn # NoTurn, NEW n \in DOMAIN program,
           outcome[n] = "Pending", IsRunnable(state[n])
    PROVE  reads[n] = Readers(program, state)[n]
<1>1. Typed /\ ProgramTyped /\ IsProgram(program) /\ reads = ReadsOwed(Owing)
  BY ProgramIsProgram DEF Typed, CountsExact
<1>2. ASSUME NEW p
      PROVE  ReadsOf(program, state, Owing, n, p) = ReadsOf(program, state, Running(program, state), n, p)
  <2>1. Owing \subseteq Running(program, state)
    BY DEF Owing
  <2>2. ASSUME NEW c \in Running(program, state), NEW k \in DOMAIN program[c].inputs,
               program[c].inputs[k].from = n,
               Delivery(program[c].inputs[k], state) = "wire"
        PROVE  c \in Owing
    <3>1. n \in Producers(program, c) /\ c \in DOMAIN program
      BY <2>2 DEF Producers, Wired, Delivery, Running
    <3>. QED  BY <3>1 DEF Typed, TurnsInOrder, Owing, Invoking
  <2>. QED  BY <2>1, <2>2 DEF ReadsOf
<1>. QED  BY <1>1, <1>2 DEF ReadsOwed, Readers

\* What a release leaves held is still to be read, port by port.
LEMMA LetGoOfTheSpent ==
    ASSUME NEW s, AreSlots(s), NEW left, NEW m \in DOMAIN program, m \in Nodes, ~Ram(m),
           \A p \in Ports(program, m) : reads[m][p] \in Nat,
           s[m].val.ports \subseteq Ports(program, m),
           s[m].val # Nothing => SpentAt(m, s[m].val, reads),
           LetGo(s, left)[m].val # Nothing
    PROVE  SpentAt(m, LetGo(s, left)[m].val, left)
<1>1. s[m].val # Nothing
  BY LetGoReturns, ValueIsSomething DEF Lessened
<1>2. \/ Spent(left, m) = {} /\ LetGo(s, left)[m] = s[m]
      \/ /\ ~ Drained(left, m)
         /\ LetGo(s, left)[m].val.ports = s[m].val.ports \ Spent(left, m)
  BY <1>1, LetGoReturns
<1>3. ~Drained(left, m)
  <2>1. CASE Spent(left, m) = {}
    <3>1. PICK p \in Ports(program, m) : reads[m][p] # 0
      BY <1>1 DEF SpentAt, Drained
    <3>2. reads[m][p] > 0 /\ p \notin Spent(left, m)
      BY <2>1, <3>1
    <3>. QED  BY <3>1, <3>2 DEF Spent, Drained
  <2>. QED  BY <1>2, <2>1
<1>4. ASSUME NEW p \in LetGo(s, left)[m].val.ports, left[m][p] = 0
      PROVE  Readers(program, state)[m][p] = 0
  <2>1. p \in s[m].val.ports /\ p \notin Spent(left, m) /\ p \in Ports(program, m)
    BY <1>2
  <2>2. reads[m][p] = 0
    BY <1>4, <2>1 DEF Spent
  <2>. QED  BY <1>1, <2>1, <2>2 DEF SpentAt
<1>. QED  BY <1>3, <1>4 DEF SpentAt

\* While the counts are exact they are natural numbers.
LEMMA CountsAreNumbers ==
    ASSUME Typed, phase = "run", ~cancelled \/ turn # NoTurn, NEW m \in DOMAIN program
    PROVE  \A p \in Ports(program, m) : reads[m][p] \in Nat
<1>1. ProgramTyped /\ IsProgram(program) /\ reads = ReadsOwed(Owing)
  BY ProgramIsProgram DEF Typed, CountsExact
<1>2. Owing \subseteq DOMAIN program
  BY DEF Owing, Running
<1>. QED  BY <1>1, <1>2, ReadsAreFinite DEF ReadsOwed

(* How a turn counts.                                                        *)
LEMMA TurnCounts ==
    ASSUME Typed, NEW n \in Nodes, Turn(n)
    PROVE  \/ reads' = reads /\ \A m \in Nodes : m # n => slots'[m] = slots[m]
           \/ /\ ~cancelled \/ turn # NoTurn
              /\ reads' = ReadsLeft({n})
              /\ \E s : /\ AreSlots(s) /\ slots' = LetGo(s, reads')
                        /\ \A m \in Nodes : m # n => s[m] = slots[m]
<1>0. StoreTyped /\ HoldsValue(slots[n]) /\ AreSlots(slots)
  BY DEF Typed, StoreTyped, AreSlots
<1>1. CASE LateServe(n)
  <2>1. PICK h \in Hydrated(n, Restamped(n)) :
          slots' = LetGo([slots EXCEPT ![n] = ReleaseDrained(n, h.slot)], reads')
    BY <1>1 DEF LateServe
  <2>2. HoldsValue(ReleaseDrained(n, h.slot))
    BY <1>0, RekeyedSlot, HydratedReturns, ReleaseDrainedReturns DEF Restamped
  <2>3. /\ AreSlots([slots EXCEPT ![n] = ReleaseDrained(n, h.slot)])
        /\ \A m \in Nodes : m # n => [slots EXCEPT ![n] = ReleaseDrained(n, h.slot)][m] = slots[m]
    BY <1>0, <2>2, OneSlotWritten
  <2>. QED  BY <1>1, <2>1, <2>3 DEF LateServe, Unkeyed, Ready
<1>2. CASE SkipUpstream(n)
  <2>1. PICK s : s = [slots EXCEPT ![n].val = Nothing]
    OBVIOUS
  <2>2. AreSlots(s)
    BY <1>0, <2>1, OneSlotEmptied
  <2>3. \A m \in Nodes : m # n => s[m] = slots[m]
    BY <1>0, <2>1 DEF AreSlots
  <2>4. ~cancelled \/ turn # NoTurn
    BY <1>2 DEF SkipUpstream, ToInvoke, Ready, NoTurn
  <2>. QED  BY <1>2, <2>1, <2>2, <2>3, <2>4 DEF SkipUpstream
<1>3. CASE StartInvoke(n)
  <2>1. /\ AreSlots([slots EXCEPT ![n] = InvokeBuffer(n)])
        /\ \A m \in Nodes : m # n => [slots EXCEPT ![n] = InvokeBuffer(n)][m] = slots[m]
    BY <1>0, InvokeBufferReturns, OneSlotWritten
  <2>4. ~cancelled \/ turn # NoTurn
    BY <1>3 DEF StartInvoke, ToInvoke, Ready, NoTurn
  <2>. QED  BY <1>3, <2>1, <2>4 DEF StartInvoke
<1>4. ASSUME NEW x, slots' = [slots EXCEPT ![n] = x] PROVE \A m \in Nodes : m # n => slots'[m] = slots[m]
  BY <1>0, <1>4 DEF AreSlots
<1>5. ASSUME slots' = [slots EXCEPT ![n].val = Nothing]
      PROVE  \A m \in Nodes : m # n => slots'[m] = slots[m]
  BY <1>0, <1>5 DEF AreSlots
<1>6. CASE PassCut(n) \/ IdentifyFails(n)
  BY <1>6 DEF PassCut, IdentifyFails, cacheVars
<1>7. CASE IdentifyCancelled(n) \/ Fail(n)
  BY <1>5, <1>7 DEF IdentifyCancelled, Fail, Skip
<1>8. CASE ServeReuse(n)
  BY <1>4, <1>5, <1>8 DEF ServeReuse, Skip
<1>9. CASE LateMiss(n) \/ Succeed(n)
  BY <1>4, <1>9 DEF LateMiss, Succeed
<1>. QED
  BY <1>1, <1>2, <1>3, <1>6, <1>7, <1>8, <1>9 DEF Turn

Releases == BeliefIsBacked /\ AtRest /\ PortsInRange /\ WaitingHoldNothing /\ SpentOutputsAreReleased

\* A value held outside a turn is of a node of the program, with ports of
\* that node.
LEMMA HeldAreOfTheirNode ==
    ASSUME BeliefIsBacked, PortsInRange, NEW n \in Nodes, turn.node # n, slots[n].val # Nothing
    PROVE  n \in DOMAIN program /\ slots[n].val.ports \subseteq Ports(program, n)
BY DEF BeliefIsBacked, PortsInRange, Held, Invoking, Ports

\* After a turn the nodes still to come hold nothing they would not keep in
\* RAM.
LEMMA WaitingAfterTurn ==
    ASSUME Typed, Releases, NEW n \in Nodes, Turn(n)
    PROVE  WaitingHoldNothing'
<1>0. /\ Typed /\ ProgramTyped /\ StoreTyped /\ TurnTyped /\ DOMAIN program \subseteq Nodes
      /\ NoTurn.node = 0 /\ NoTurn.at = "none" /\ 0 \notin Nodes
  BY ProgramIsProgram DEF Typed, NoTurn
<1>1. /\ program' = program /\ phase = "run" /\ n \in DOMAIN program /\ outcome[n] = "Pending"
      /\ outcome = [c \in DOMAIN program |-> outcome[c]]
  BY <1>0, TurnFrame DEF TurnTyped
<1>2. ASSUME NEW m \in DOMAIN program, outcome'[m] = "Pending", ~Invoking(m)', ~Ram(m)
      PROVE  slots'[m].val = Nothing
  <2>1. CASE m # n
    <3>1. outcome[m] = "Pending" /\ ~Invoking(m)
      BY <1>0, <1>1, <1>2, <2>1, TurnFrame DEF Invoking
    <3>2. slots[m].val = Nothing
      BY <1>1, <1>2, <3>1 DEF Releases, WaitingHoldNothing
    <3>3. Kept(m)
      BY <1>0, <2>1, TurnCarries
    <3>. QED  BY <3>2, <3>3, ValueIsSomething DEF Kept, Lessened
  <2>2. CASE m = n
    <3>1. outcome' = outcome
      BY <1>1, <1>2, <2>2, TurnFrame, <1>0
    <3>2. PassCut(n) \/ ServeReuse(n) \/ IdentifyCancelled(n) \/ LateServe(n) \/ SkipUpstream(n)
            \/ Succeed(n) \/ Fail(n) => outcome' # outcome
      BY <1>1 DEF PassCut, ServeReuse, IdentifyCancelled, LateServe, SkipUpstream, Succeed, Fail,
                  Settle, Skip
    <3>3. StartInvoke(n) => Invoking(n)'
      BY DEF StartInvoke, Invoking
    <3>4. IdentifyFails(n) \/ LateMiss(n)
      BY <1>2, <2>2, <3>1, <3>2, <3>3 DEF Turn
    <3>5. ~Invoking(n)
      BY <1>0, <3>4 DEF IdentifyFails, LateMiss, Unkeyed, Ready, Invoking
    <3>6. slots[n].val = Nothing
      BY <1>1, <1>2, <2>2, <3>5 DEF Releases, WaitingHoldNothing
    <3>7. slots'[n].val = slots[n].val
      <4>1. Restamped(n).val = slots[n].val
        BY <1>0, RekeyedSlot DEF Restamped, StoreTyped, AreSlots
      <4>. QED  BY <1>0, <3>4, <4>1, LateMissRekeys DEF IdentifyFails, cacheVars
    <3>. QED  BY <2>2, <3>6, <3>7
  <2>. QED  BY <2>1, <2>2
<1>. QED  BY <1>1, <1>2 DEF WaitingHoldNothing, Ram

\* After a turn no value outlives its last read.
LEMMA SpentAfterTurn ==
    ASSUME Typed, Releases, NEW n \in Nodes, Turn(n), BeliefIsBacked', PortsInRange'
    PROVE  SpentOutputsAreReleased'
<1>0. /\ Typed /\ ProgramTyped /\ StoreTyped /\ TurnTyped /\ DOMAIN program \subseteq Nodes
      /\ NoTurn.node = 0 /\ NoTurn.at = "none" /\ 0 \notin Nodes /\ BeliefIsBacked /\ PortsInRange
  BY ProgramIsProgram DEF Typed, NoTurn, Releases
<1>1. /\ program' = program /\ state' = state /\ phase = "run" /\ phase' = "run"
      /\ n \in DOMAIN program /\ outcome[n] = "Pending"
      /\ turn = NoTurn \/ turn.node = n
  BY <1>0, TurnFrame
<1>2. ASSUME NEW m \in DOMAIN program, m # n, slots'[m].val # Nothing, ~Ram(m)
      PROVE  SpentAt(m, slots'[m].val, reads')
  <2>1. Kept(m)
    BY <1>0, <1>2, TurnCarries
  <2>2. slots[m].val # Nothing
    BY <1>2, <2>1, ValueIsSomething DEF Kept, Lessened
  <2>3. turn.node # m
    BY <1>0, <1>1, <1>2
  <2>4. SpentAt(m, slots[m].val, reads)
    BY <1>2, <2>2, <2>3 DEF Releases, SpentOutputsAreReleased, Held, Invoking, SpentAt
  <2>5. CASE reads' = reads
    <3>1. slots'[m].val.ports \subseteq slots[m].val.ports
      BY <1>2, <2>1 DEF Kept, Lessened
    <3>2. SpentAt(m, slots'[m].val, reads)
      BY <2>4, <3>1 DEF SpentAt
    <3>. QED  BY <2>5, <3>2
  <2>6. CASE /\ ~cancelled \/ turn # NoTurn
             /\ \E s : /\ AreSlots(s) /\ slots' = LetGo(s, reads')
                       /\ \A k \in Nodes : k # n => s[k] = slots[k]
    <3>1. PICK s : /\ AreSlots(s) /\ slots' = LetGo(s, reads')
                   /\ \A k \in Nodes : k # n => s[k] = slots[k]
      BY <2>6
    <3>2. \A p \in Ports(program, m) : reads[m][p] \in Nat
      BY <1>1, <2>6, CountsAreNumbers
    <3>3. slots[m].val.ports \subseteq Ports(program, m)
      BY <1>0, <2>2, <2>3, HeldAreOfTheirNode
    <3>4. s[m] = slots[m] /\ m \in Nodes
      BY <1>0, <1>2, <3>1
    <3>. QED  BY <1>2, <2>4, <3>1, <3>2, <3>3, <3>4, LetGoOfTheSpent
  <2>. QED  BY <2>5, <2>6, TurnCounts
<1>3. ASSUME slots'[n].val # Nothing, ~Invoking(n)', ~Ram(n)
      PROVE  SpentAt(n, slots'[n].val, reads')
  <2>1. ~Invoking(n) => slots[n].val = Nothing
    BY <1>1, <1>3 DEF Releases, WaitingHoldNothing
  <2>2. turn = NoTurn => ~Invoking(n)
    BY <1>0 DEF Invoking
  <2>3. ~ (PassCut(n) \/ IdentifyFails(n) \/ LateMiss(n))
    <3>1. Restamped(n).val = slots[n].val
      BY <1>0, RekeyedSlot DEF Restamped, StoreTyped, AreSlots
    <3>2. PassCut(n) \/ IdentifyFails(n) \/ LateMiss(n) => slots'[n].val = slots[n].val /\ turn = NoTurn
      BY <1>0, <3>1, LateMissRekeys DEF PassCut, IdentifyFails, LateMiss, Unkeyed, Ready, cacheVars
    <3>. QED  BY <1>3, <2>1, <2>2, <3>2
  <2>4. ~ EmptiedBy(n)
    BY <1>3 DEF EmptiedBy
  <2>5. ~ StartInvoke(n)
    BY <1>3 DEF StartInvoke, Invoking
  <2>6. /\ ~Drained(reads, n) /\ IsRunnable(state[n]) /\ ~cancelled /\ turn'.node # n
        /\ (reads' = reads) \/ (reads' = ReadsLeft({n}))
    <3>1. CASE ServeReuse(n) /\ ServedFrom(n, slots[n])
      BY <1>0, <1>3, <3>1 DEF ServeReuse, Ready, ServedFrom, Released, IsRunnable
    <3>2. CASE LateServe(n) /\ ServedFrom(n, Restamped(n))
      BY <1>0, <1>3, <3>2 DEF LateServe, Unkeyed, Ready, ServedFrom, Released, IsRunnable
    <3>3. ASSUME NEW ports, Succeed(n), ProducedBy(n, ports)
          PROVE  /\ ~Drained(reads, n) /\ ~cancelled /\ reads' = reads /\ turn'.node # n
                 /\ state[n] = "Run"
      BY <1>0, <1>1, <1>3, <3>3 DEF Succeed, ProducedBy, Released, TurnTyped, MidTurn
    <3>. QED  BY <1>0, <2>3, <2>4, <2>5, <3>1, <3>2, <3>3, TurnSlots DEF IsRunnable
  <2>7. reads[n] = Readers(program, state)[n]
    BY <1>0, <1>1, <2>6, UnreadYet
  <2>8. \A p \in Ports(program, n) : reads[n][p] \in Nat /\ reads'[n][p] = reads[n][p]
    <3>1. \A p \in Ports(program, n) : reads[n][p] \in Nat
      BY <1>0, <1>1, <2>6, CountsAreNumbers
    <3>2. \A p \in Ports(program, n) : ReadsLeft({n})[n][p] = reads[n][p]
      BY <1>0, <1>1, <3>1, ProgramIsProgram, NoReadOfOneself DEF ReadsLeft
    <3>. QED  BY <2>6, <3>1, <3>2
  <2>9. slots'[n].val.ports \subseteq Ports(program, n)
    BY <1>1, <1>3, <2>6 DEF BeliefIsBacked, PortsInRange, Held, Invoking, Ports
  <2>. QED  BY <2>6, <2>7, <2>8, <2>9 DEF SpentAt, Drained
<1>4. ASSUME NEW m \in DOMAIN program', Held(m)', ~Ram(m)' PROVE SpentAt(m, slots'[m].val, reads')
  <2>1. m \in DOMAIN program /\ slots'[m].val # Nothing /\ ~Ram(m) /\ ~Invoking(m)'
    BY <1>1, <1>4 DEF Held, Ram
  <2>. QED  BY <1>2, <1>3, <2>1
<1>. QED  BY <1>1, <1>4 DEF SpentOutputsAreReleased, SpentAt, Drained

\* Every step keeps the conjuncts of Releases.
LEMMA ReleasesStep ==
    ASSUME Typed, Releases, [Next]_vars
    PROVE  Releases'
<1>0. BeliefIsBacked' /\ AtRest' /\ PortsInRange'
  BY BeliefAndRestStep, RangeStep DEF Releases
<1>1. ASSUME NEW n \in Nodes, Turn(n) PROVE Releases'
  BY <1>0, <1>1, WaitingAfterTurn, SpentAfterTurn DEF Releases
<1>2. CASE ~ \E n \in Nodes : Turn(n)
  <2>0. /\ Typed /\ ProgramTyped /\ DOMAIN program \subseteq Nodes /\ StoreTyped
        /\ program' = <<>> \/ program' \in Programs
    BY ProgramIsProgram, TypedStep DEF Typed, ProgramTyped
  <2>a. DOMAIN program' \subseteq Nodes
    <3>1. CASE program' = <<>>
      BY <3>1
    <3>2. CASE program' \in Programs
      BY <3>2, ScheduleAssumption DEF IsProgram
    <3>. QED  BY <2>0, <3>1, <3>2
  <2>1. CASE phase' = "rest"
    BY <1>0, <2>a, <2>1 DEF AtRest, Alive, WaitingHoldNothing, SpentOutputsAreReleased, Held, Ram,
       Releases
  <2>2. CASE phase = "rest" /\ \E asked \in Seeds : BeginRun(asked)
    <3>1. PICK planned : slots' = Stamps(program, planned, slots, memo')
      BY <2>2 DEF BeginRun
    <3>2. \A n \in Nodes : slots'[n].val = slots[n].val
      BY <2>0, <3>1, StampsReturns, ProgramIsProgram DEF StoreTyped
    <3>3. program' = program
      BY <2>2 DEF BeginRun
    <3>4. \A n \in DOMAIN program : slots'[n].val # Nothing => Ram(n)
      BY <2>0, <2>2, <3>2 DEF Releases, AtRest, Alive, Ram
    <3>. QED  BY <1>0, <3>3, <3>4 DEF WaitingHoldNothing, SpentOutputsAreReleased, Held, Ram, Releases
  <2>3. CASE /\ UNCHANGED <<program, seeds, state, demand, slots, disk>>
             /\ UNCHANGED <<phase, reads, outcome, turn, memo, runs>>
    BY <1>0, <2>3 DEF Releases, WaitingHoldNothing, SpentOutputsAreReleased, Held, Invoking, Ram,
       Drained
  <2>. QED  BY <1>2, <2>1, <2>2, <2>3, OtherFrame
<1>. QED  BY <1>1, <1>2

\* The conjuncts of Releases hold at first.
LEMMA ReleasesInit == Init => Releases
<1>1. EmptySlot.val = Nothing
  BY DEF EmptySlot
<1>. QED
  BY <1>1 DEF Init, Releases, BeliefIsBacked, AtRest, PortsInRange, WaitingHoldNothing,
     SpentOutputsAreReleased, Held, Invoking, NoTurn

\* What is held is of its node as the program has it, believed no better stored
\* than it is, and released at its last read; between runs nothing is held that
\* is not kept in RAM, and in one, nothing by a node still to have its turn.
THEOREM ReleasesHold == Spec => []Releases
<1>1. Typed /\ Releases /\ [Next]_vars => Releases'
  BY ReleasesStep
<1>. QED  BY <1>1, ReleasesInit, TypedHolds, PTL DEF Spec

\* A node that keeps no RAM copy holds its outputs only until their last read.
THEOREM ReleasesAreExact == Spec => []SpentOutputsAreReleased
<1>1. Releases => SpentOutputsAreReleased
  BY DEF Releases
<1>. QED  BY <1>1, ReleasesHold, PTL

\* What a slot believes of its blob the disk bears out, whatever fails, rots or
\* is evicted, so that a blob still owed is never taken for paid.
THEOREM BeliefsHold == Spec => []BeliefIsBacked
<1>1. Releases => BeliefIsBacked
  BY DEF Releases
<1>. QED  BY <1>1, ReleasesHold, PTL

-----------------------------------------------------------------------------
(* The schedule's three recursions, by their equations.                      *)
ReachBody(env, reached, n) ==
    \/ n \in Roots(env.g, env.seeds)
    \/ \E c \in DOMAIN env.g :
        c > n /\ n \in Producers(env.g, c) /\ ~Off(env.g, env.seeds, c) /\ reached[c]
Reaching == INSTANCE Recursion WITH Body <- ReachBody

VerdictBody(env, st, n) == Verdict(env.g, env.seeds, n, st)
Planning == INSTANCE Recursion WITH Body <- VerdictBody

SweptBody(env, st, n) == Swept(env.g, env.seeds, env.plan, env.serves, n, st)
Sweeping == INSTANCE Recursion WITH Body <- SweptBody

(* Nodes counted from the first, and from the last.                          *)
Forward(g)  == [n \in DOMAIN g |-> n]
Backward(g) == [n \in DOMAIN g |-> Cardinality(Nodes) - n]

\* Node numbers, and their complements, rank the nodes of a program for the
\* recursions over it.
LEMMA RanksAreBounded ==
    ASSUME NEW g, IsProgram(g)
    PROVE  /\ Forward(g) \in [DOMAIN g -> Nat] /\ Backward(g) \in [DOMAIN g -> Nat]
           /\ Cardinality(Nodes) + 1 \in Nat
           /\ \A n \in DOMAIN g : /\ Forward(g)[n] < Cardinality(Nodes) + 1
                                  /\ Backward(g)[n] < Cardinality(Nodes) + 1
           /\ \A n, c \in DOMAIN g : /\ Forward(g)[n] < Forward(g)[c] <=> n < c
                                     /\ Backward(g)[n] < Backward(g)[c] <=> n > c
<1>1. Nodes = 1..Cardinality(Nodes) /\ Cardinality(Nodes) \in Nat
  BY ScheduleAssumption, FS_CardinalityType
<1>. QED  BY <1>1 DEF IsProgram, Forward, Backward

\* The planner's backward walk reaches what its defining equation says.
LEMMA ReachedAt ==
    ASSUME NEW g, IsProgram(g), NEW asked
    PROVE  \A n \in DOMAIN g : Reached(g, asked)[n] =
              (\/ n \in Roots(g, asked)
               \/ \E c \in DOMAIN g :
                    c > n /\ n \in Producers(g, c) /\ ~Off(g, asked, c) /\ Reached(g, asked)[c])
<1>. DEFINE env == [g |-> g, seeds |-> asked]
<1>1. Reaching!ReadsBelow(env, DOMAIN g, Backward(g))
  <2>1. SUFFICES ASSUME NEW n \in DOMAIN g, NEW f, NEW h,
                        \A m \in DOMAIN g : Backward(g)[m] < Backward(g)[n] => f[m] = h[m]
                 PROVE  ReachBody(env, f, n) = ReachBody(env, h, n)
    BY Zenon DEF Reaching!ReadsBelow
  <2>2. \A m \in DOMAIN g : m > n => f[m] = h[m]
    BY <2>1, RanksAreBounded
  <2>. QED  BY <2>2 DEF ReachBody
<1>2. \E f : f = [n \in DOMAIN g |-> ReachBody(env, f, n)]
  <2>. HIDE DEF env
  <2>. QED  BY <1>1, RanksAreBounded, Reaching!RecursionSolved
<1>3. \A f : [n \in DOMAIN g |-> ReachBody(env, f, n)] =
             [n \in DOMAIN g |-> \/ n \in Roots(g, asked)
                                 \/ \E c \in DOMAIN g : c > n /\ n \in Producers(g, c)
                                      /\ ~Off(g, asked, c) /\ f[c]]
  BY DEF ReachBody
<1>4. \E f : f = [n \in DOMAIN g |-> \/ n \in Roots(g, asked)
                                 \/ \E c \in DOMAIN g : c > n /\ n \in Producers(g, c)
                                      /\ ~Off(g, asked, c) /\ f[c]]
  <2>. HIDE DEF env
  <2>1. PICK f : f = [n \in DOMAIN g |-> ReachBody(env, f, n)]
    BY Zenon, <1>2
  <2>2. [n \in DOMAIN g |-> ReachBody(env, f, n)] =
        [n \in DOMAIN g |-> \/ n \in Roots(g, asked)
                             \/ \E c \in DOMAIN g : c > n /\ n \in Producers(g, c)
                                  /\ ~Off(g, asked, c) /\ f[c]]
    BY Zenon, <1>3
  <2>3. f = [n \in DOMAIN g |-> \/ n \in Roots(g, asked)
                                \/ \E c \in DOMAIN g : c > n /\ n \in Producers(g, c)
                                     /\ ~Off(g, asked, c) /\ f[c]]
    BY Zenon, <2>1, <2>2
  <2>. QED  BY Zenon, <2>3
<1>5. Reached(g, asked) = [n \in DOMAIN g |-> \/ n \in Roots(g, asked)
                                 \/ \E c \in DOMAIN g : c > n /\ n \in Producers(g, c)
                                      /\ ~Off(g, asked, c) /\ Reached(g, asked)[c]]
  BY Zenon, <1>4 DEF Reached
<1>. QED  BY Zenon, <1>5

\* The planner's states are those of their defining equation, producers
\* before consumers.
LEMMA PlanAt ==
    ASSUME NEW g, IsProgram(g), NEW asked
    PROVE  /\ Plan(g, asked) = [n \in DOMAIN g |-> Plan(g, asked)[n]]
           /\ \A n \in DOMAIN g : Plan(g, asked)[n] = Verdict(g, asked, n, Plan(g, asked))
<1>. DEFINE env == [g |-> g, seeds |-> asked]
<1>1. Planning!ReadsBelow(env, DOMAIN g, Forward(g))
  <2>1. SUFFICES ASSUME NEW n \in DOMAIN g, NEW f, NEW h,
                        \A m \in DOMAIN g : Forward(g)[m] < Forward(g)[n] => f[m] = h[m]
                 PROVE  VerdictBody(env, f, n) = VerdictBody(env, h, n)
    BY Zenon DEF Planning!ReadsBelow
  <2>2. \A m \in DOMAIN g : m < n => f[m] = h[m]
    BY <2>1, RanksAreBounded
  <2>3. \A k \in DOMAIN g[n].inputs : Delivery(g[n].inputs[k], f) = Delivery(g[n].inputs[k], h)
    BY <2>2 DEF Delivery, IsProgram
  <2>4. (\E k \in DOMAIN g[n].inputs : InputMissing(g[n].inputs[k], f)) <=>
        (\E k \in DOMAIN g[n].inputs : InputMissing(g[n].inputs[k], h))
    BY <2>3 DEF InputMissing
  <2>. QED  BY <2>4 DEF VerdictBody, Verdict
<1>2. \E f : f = [n \in DOMAIN g |-> VerdictBody(env, f, n)]
  <2>. HIDE DEF env
  <2>. QED  BY <1>1, RanksAreBounded, Planning!RecursionSolved
<1>3. \A f : [n \in DOMAIN g |-> VerdictBody(env, f, n)] =
             [n \in DOMAIN g |-> Verdict(g, asked, n, f)]
  BY DEF VerdictBody
<1>4. \E f : f = [n \in DOMAIN g |-> Verdict(g, asked, n, f)]
  <2>. HIDE DEF env
  <2>1. PICK f : f = [n \in DOMAIN g |-> VerdictBody(env, f, n)]
    BY Zenon, <1>2
  <2>2. [n \in DOMAIN g |-> VerdictBody(env, f, n)] = [n \in DOMAIN g |-> Verdict(g, asked, n, f)]
    BY Zenon, <1>3
  <2>3. f = [n \in DOMAIN g |-> Verdict(g, asked, n, f)]
    BY Zenon, <2>1, <2>2
  <2>. QED  BY Zenon, <2>3
<1>5. Plan(g, asked) = [n \in DOMAIN g |-> Verdict(g, asked, n, Plan(g, asked))]
  BY Zenon, <1>4 DEF Plan
<1>. DEFINE verdicts == [n \in DOMAIN g |-> Verdict(g, asked, n, Plan(g, asked))]
<1>6. verdicts = [n \in DOMAIN g |-> verdicts[n]]
  OBVIOUS
<1>. QED  BY Zenon, <1>5, <1>6

\* The sweep's states are those of their defining equation, consumers before
\* producers.
LEMMA SweepAt ==
    ASSUME NEW g, IsProgram(g), NEW asked, NEW plan, NEW serves
    PROVE  \A n \in DOMAIN g : Sweep(g, asked, plan, serves)[n] =
              Swept(g, asked, plan, serves, n, Sweep(g, asked, plan, serves))
<1>. DEFINE env == [g |-> g, seeds |-> asked, plan |-> plan, serves |-> serves]
<1>1. Sweeping!ReadsBelow(env, DOMAIN g, Backward(g))
  <2>1. SUFFICES ASSUME NEW n \in DOMAIN g, NEW f, NEW h,
                        \A m \in DOMAIN g : Backward(g)[m] < Backward(g)[n] => f[m] = h[m]
                 PROVE  SweptBody(env, f, n) = SweptBody(env, h, n)
    BY Zenon DEF Sweeping!ReadsBelow
  <2>2. \A m \in DOMAIN g : m > n => f[m] = h[m]
    BY <2>1, RanksAreBounded
  <2>3. {c \in DOMAIN g : c > n /\ f[c] = "Run"} = {c \in DOMAIN g : c > n /\ h[c] = "Run"}
    BY <2>2
  <2>. QED  BY <2>3 DEF SweptBody, Swept
<1>2. \E f : f = [n \in DOMAIN g |-> SweptBody(env, f, n)]
  <2>. HIDE DEF env
  <2>. QED  BY <1>1, RanksAreBounded, Sweeping!RecursionSolved
<1>3. \A f : [n \in DOMAIN g |-> SweptBody(env, f, n)] =
             [n \in DOMAIN g |-> Swept(g, asked, plan, serves, n, f)]
  BY DEF SweptBody
<1>4. \E f : f = [n \in DOMAIN g |-> Swept(g, asked, plan, serves, n, f)]
  <2>. HIDE DEF env
  <2>1. PICK f : f = [n \in DOMAIN g |-> SweptBody(env, f, n)]
    BY Zenon, <1>2
  <2>2. [n \in DOMAIN g |-> SweptBody(env, f, n)] = [n \in DOMAIN g |-> Swept(g, asked, plan, serves, n, f)]
    BY Zenon, <1>3
  <2>3. f = [n \in DOMAIN g |-> Swept(g, asked, plan, serves, n, f)]
    BY Zenon, <2>1, <2>2
  <2>. QED  BY Zenon, <2>3
<1>5. Sweep(g, asked, plan, serves) =
        [n \in DOMAIN g |-> Swept(g, asked, plan, serves, n, Sweep(g, asked, plan, serves))]
  BY Zenon, <1>4 DEF Sweep
<1>. QED  BY Zenon, <1>5

(* What the planner and the sweep promise a node of a run: no input of it is *)
(* blocked, the producers it reads are scheduled, and when it runs they run  *)
(* or are reused, with the ports it reads demanded of them.                  *)
Supplied(g, st, wanted, n) ==
    IsRunnable(st[n]) =>
        \A k \in DOMAIN g[n].inputs :
            LET i == g[n].inputs[k] IN
            /\ Delivery(i, st) # "blocked"
            /\ Delivery(i, st) = "wire" =>
                /\ IsRunnable(st[i.from])
                /\ st[n] = "Run" => st[i.from] \in {"Reuse", "Run"} /\ i.port \in wanted[i.from]

\* A node the planner schedules has no blocked input, and every producer
\* wired to it is scheduled.
LEMMA PlannedNodes ==
    ASSUME NEW g, IsProgram(g), NEW asked, NEW n \in DOMAIN g, IsRunnable(Plan(g, asked)[n]),
           NEW k \in DOMAIN g[n].inputs
    PROVE  LET i == g[n].inputs[k] IN
           /\ Plan(g, asked)[n] = "Cut"
           /\ Delivery(i, Plan(g, asked)) # "blocked"
           /\ Delivery(i, Plan(g, asked)) = "wire" =>
                i.kind = "wire" /\ i.from \in DOMAIN g /\ i.from < n /\ Plan(g, asked)[i.from] = "Cut"
<1>. DEFINE i == g[n].inputs[k]
            plan == Plan(g, asked)
<1>1. \A m \in DOMAIN g : plan[m] = Verdict(g, asked, m, plan)
  BY PlanAt
<1>. HIDE DEF plan
<1>2. /\ Reached(g, asked)[n] /\ ~Off(g, asked, n)
      /\ ~ \E j \in DOMAIN g[n].inputs : InputMissing(g[n].inputs[j], plan)
      /\ plan[n] = "Cut"
  BY <1>1 DEF Verdict, IsRunnable, plan
<1>3. Delivery(i, plan) # "blocked"
  BY <1>2 DEF InputMissing
<1>4. ASSUME Delivery(i, plan) = "wire"
      PROVE  i.kind = "wire" /\ i.from \in DOMAIN g /\ i.from < n /\ plan[i.from] = "Cut"
  <2>1. i.kind = "wire" /\ plan[i.from] # "Disabled" /\ plan[i.from] # "MissingInputs"
    BY <1>4 DEF Delivery
  <2>2. i.from \in DOMAIN g /\ i.from < n /\ i.from \in Producers(g, n)
    BY <2>1 DEF IsProgram, Producers, Wired
  <2>3. n > i.from
    <3>1. Nodes = 1..Cardinality(Nodes) /\ Cardinality(Nodes) \in Nat
      BY ScheduleAssumption, FS_CardinalityType
    <3>. QED  BY <2>2, <3>1 DEF IsProgram
  <2>4. Reached(g, asked)[i.from]
    <3>1. Reached(g, asked)[i.from] =
            (\/ i.from \in Roots(g, asked)
             \/ \E c \in DOMAIN g :
                  c > i.from /\ i.from \in Producers(g, c) /\ ~Off(g, asked, c) /\ Reached(g, asked)[c])
      <4>. HIDE DEF i
      <4>. QED  BY Zenon, <2>2, ReachedAt
    <3>. HIDE DEF i
    <3>. QED  BY Zenon, <1>2, <2>2, <2>3, <3>1
  <2>5. plan[i.from] = Verdict(g, asked, i.from, plan)
    BY <1>1, <2>2
  <2>6. plan[i.from] = "Cut"
    BY <2>1, <2>4, <2>5 DEF Verdict
  <2>. QED  BY <2>1, <2>2, <2>6
<1>. QED  BY <1>2, <1>3, <1>4 DEF plan

\* The sweep refines the nodes scheduled and leaves the rest as planned.
LEMMA SweptNodes ==
    ASSUME NEW g, IsProgram(g), NEW asked, NEW plan, NEW serves, NEW n \in DOMAIN g
    PROVE  LET swept == Sweep(g, asked, plan, serves) IN
           /\ plan[n] # "Cut" => swept[n] = plan[n]
           /\ plan[n] = "Cut" => swept[n] \in {"Cut", "Reuse", "Run"}
<1>1. Sweep(g, asked, plan, serves)[n] = Swept(g, asked, plan, serves, n, Sweep(g, asked, plan, serves))
  BY SweepAt
<1>. QED  BY <1>1 DEF Swept

\* The sweep changes nothing of what an input delivers.
LEMMA SameDelivery ==
    ASSUME NEW g, IsProgram(g), NEW asked, NEW plan, NEW serves, NEW n \in DOMAIN g,
           \A m \in DOMAIN g : plan[m] \in {"Unvisited", "Disabled", "MissingInputs", "Cut"},
           NEW k \in DOMAIN g[n].inputs
    PROVE  Delivery(g[n].inputs[k], Sweep(g, asked, plan, serves)) = Delivery(g[n].inputs[k], plan)
<1>. DEFINE i == g[n].inputs[k]
<1>1. CASE i.kind # "wire"
  BY <1>1 DEF Delivery
<1>2. CASE i.kind = "wire"
  <2>1. i.from \in DOMAIN g
    BY <1>2 DEF IsProgram
  <2>. QED  BY <1>2, <2>1, SweptNodes DEF Delivery
<1>. QED  BY <1>1, <1>2

\* What the planner and the sweep settle on supplies every node of the run.
LEMMA SweepSupplies ==
    ASSUME NEW g, IsProgram(g), NEW asked, NEW serves, NEW st,
           st = Sweep(g, asked, Plan(g, asked), serves), NEW n \in DOMAIN g
    PROVE  Supplied(g, st, [m \in DOMAIN g |-> Demand(g, asked, st, Running(g, st), m)], n)
<1>. DEFINE plan == Plan(g, asked)
            wanted == [m \in DOMAIN g |-> Demand(g, asked, st, Running(g, st), m)]
<1>0. \A m \in DOMAIN g : plan[m] \in {"Unvisited", "Disabled", "MissingInputs", "Cut"}
  BY PlanAt DEF Verdict
<1>1. \A m \in DOMAIN g : /\ plan[m] # "Cut" => st[m] = plan[m]
                          /\ plan[m] = "Cut" => st[m] \in {"Cut", "Reuse", "Run"}
  <2>. HIDE DEF plan
  <2>. QED  BY SweptNodes DEF plan
<1>2. SUFFICES ASSUME IsRunnable(st[n]), NEW k \in DOMAIN g[n].inputs
               PROVE  LET i == g[n].inputs[k] IN
                      /\ Delivery(i, st) # "blocked"
                      /\ Delivery(i, st) = "wire" =>
                          /\ IsRunnable(st[i.from])
                          /\ st[n] = "Run" => st[i.from] \in {"Reuse", "Run"} /\ i.port \in wanted[i.from]
  BY DEF Supplied
<1>. DEFINE i == g[n].inputs[k]
<1>3. plan[n] = "Cut"
  BY <1>0, <1>1, <1>2 DEF IsRunnable
<1>4. Delivery(i, st) = Delivery(i, plan)
  <2>. HIDE DEF plan
  <2>. QED  BY <1>0, SameDelivery DEF plan
<1>5. /\ Delivery(i, plan) # "blocked"
      /\ Delivery(i, plan) = "wire" =>
           i.kind = "wire" /\ i.from \in DOMAIN g /\ i.from < n /\ plan[i.from] = "Cut"
  BY <1>3, PlannedNodes DEF IsRunnable
<1>6. ASSUME Delivery(i, plan) = "wire"
      PROVE  IsRunnable(st[i.from])
  BY <1>1, <1>5, <1>6 DEF IsRunnable
<1>7. ASSUME Delivery(i, plan) = "wire", st[n] = "Run"
      PROVE  st[i.from] \in {"Reuse", "Run"} /\ i.port \in wanted[i.from]
  <2>1. /\ i.from \in DOMAIN g /\ i.from < n /\ plan[i.from] = "Cut"
        /\ i.port \in Ports(g, i.from) /\ n > i.from
    <3>1. Nodes = 1..Cardinality(Nodes) /\ Cardinality(Nodes) \in Nat
      BY ScheduleAssumption, FS_CardinalityType
    <3>. QED  BY <1>5, <1>7, <3>1 DEF IsProgram, Ports
  <2>2. ASSUME NEW states, NEW running, n \in running, Delivery(i, states) = "wire"
        PROVE  i.port \in Demand(g, asked, states, running, i.from)
    <3>1. <<n, k>> \in ReadsOf(g, states, running, i.from, i.port)
      BY <2>1, <2>2, ReadsOfMembers
    <3>. QED  BY <2>1, <3>1 DEF Demand
  <2>3. i.port \in wanted[i.from]
    BY <1>4, <1>7, <2>1, <2>2 DEF Running
  <2>4. i.port \in Demand(g, asked, plan, {c \in DOMAIN g : c > i.from /\ st[c] = "Run"}, i.from)
    BY <1>7, <2>1, <2>2
  <2>5. st[i.from] = Swept(g, asked, plan, serves, i.from, st)
    <3>. HIDE DEF plan
    <3>. QED  BY <2>1, SweepAt DEF plan
  <2>6. st[i.from] \in {"Reuse", "Run"}
    <3>. HIDE DEF plan
    <3>. QED  BY <2>1, <2>4, <2>5 DEF Swept
  <2>. QED  BY <2>3, <2>6
<1>. QED  BY <1>4, <1>5, <1>6, <1>7
-----------------------------------------------------------------------------
(* The run is planned as the schedule promises, and what it has identified   *)
(* of the file is the file's version, until the file changes under it.       *)
RunIsPlanned ==
    phase = "run" => \A n \in DOMAIN program : Supplied(program, state, demand, n)

MemoIsOfTheFile ==
    /\ file \in Nat /\ memo \in Nat /\ memo <= file
    /\ phase = "run" /\ calm => memo \in {0, file}

(* A value kept in RAM or on disk has the ports its lambda always binds.      *)
HasItsBinds(digest, ports) == Binds[digest.key] \subseteq ports

PortsAreBound ==
    \A n \in Nodes :
        /\ disk[n] # Nothing => HasItsBinds(disk[n].digest, disk[n].ports)
        /\ Held(n) /\ Ram(n) /\ slots[n].val.under # None =>
              HasItsBinds(slots[n].val.under, slots[n].val.ports)

(* What an input contributes to a digest once it is known, and whether it is. *)
ItemOf(i, delivery, digest, known) ==
    CASE delivery = "unbound" -> Unset
      [] delivery = "file" -> Named(known)
      [] OTHER -> IF i.path THEN NamedBy(digest, i.port, known) ELSE Output(digest, i.port)

IsNamed(i, delivery, digest, known) ==
    /\ delivery = "file" => known # 0
    /\ delivery = "wire" => digest # None /\ (i.path => known # 0)

(* A digest of a run folds the digests of the producers, as they are stamped. *)
Stamped(g, st, s, known, n) ==
    /\ g[n].pure
    /\ \A k \in DOMAIN g[n].inputs :
        LET i == g[n].inputs[k] IN IsNamed(i, Delivery(i, st), s[i.from].cur, known)
    /\ s[n].cur = Term(g[n].key, [k \in DOMAIN g[n].inputs |->
            LET i == g[n].inputs[k] IN ItemOf(i, Delivery(i, st), s[i.from].cur, known)], 0)

DigestsAreStamped ==
    phase = "run" => \A n \in DOMAIN program :
        IsRunnable(state[n]) /\ slots[n].cur # None => Stamped(program, state, slots, memo, n)

(* A node settled with a value holds it under its digest.                    *)
SettledAreCurrent ==
    phase = "run" => \A n \in DOMAIN program :
        outcome[n] \in {"Ran", "Reused"} /\ slots[n].val # Nothing =>
            slots[n].val.under = slots[n].cur

(* What a node still to read is wired to is there.                           *)
IsThere(i) ==
    Delivery(i, state) = "wire" /\ outcome[i.from] \in {"Ran", "Reused"} =>
        slots[i.from].val # Nothing /\ i.port \in slots[i.from].val.ports

ReadsAreThere ==
    phase = "run" /\ (~cancelled \/ turn # NoTurn) =>
        \A c \in Owing : \A k \in DOMAIN program[c].inputs : IsThere(program[c].inputs[k])

(* A lambda computes what its node's digest says, or the digest is outdated.  *)
MadeAsStamped ==
    \A n \in Nodes :
        Invoking(n) /\ slots[n].cur # None => turn.made = slots[n].cur \/ Outdated(slots[n].cur)

\* A run begins planned, keyed under its plan, and with every node supplied.
LEMMA BeginRunPlans ==
    ASSUME Typed, NEW asked, BeginRun(asked)
    PROVE  /\ slots' = Stamps(program, Plan(program, asked), slots, memo')
           /\ program' = program /\ phase' = "run" /\ phase = "rest"
           /\ \A n \in DOMAIN program :
                /\ IsRunnable(state'[n]) => IsRunnable(Plan(program, asked)[n])
                /\ \A k \in DOMAIN program[n].inputs :
                     Delivery(program[n].inputs[k], state') =
                       Delivery(program[n].inputs[k], Plan(program, asked))
                /\ Supplied(program, state', demand', n)
<1>. DEFINE plan == Plan(program, asked)
<1>0. IsProgram(program)
  BY ProgramIsProgram DEF Typed
<1>1. plan = [n \in DOMAIN program |-> plan[n]]
  BY <1>0, PlanAt
<1>2. \A n \in DOMAIN program : plan[n] \in {"Unvisited", "Disabled", "MissingInputs", "Cut"}
  BY <1>0, PlanAt DEF Verdict
<1>. HIDE DEF plan
<1>3. /\ slots' = Stamps(program, plan, slots, memo')
      /\ state' = Sweep(program, asked, plan, Served(program, slots'))
  <2>1. PICK planned \in {[n \in DOMAIN program |-> Plan(program, asked)[n]]} :
          /\ slots' = Stamps(program, planned, slots, memo')
          /\ state' = Sweep(program, asked, planned, Served(program, slots'))
    BY DEF BeginRun
  <2>2. planned = plan
    BY <1>1, <2>1 DEF plan
  <2>. QED  BY <2>1, <2>2
<1>4. demand' = [m \in DOMAIN program |-> Demand(program, asked, state', Running(program, state'), m)]
  BY DEF BeginRun
<1>5. ASSUME NEW n \in DOMAIN program PROVE Supplied(program, state', demand', n)
  BY <1>0, <1>3, <1>4, SweepSupplies DEF plan
<1>6. ASSUME NEW n \in DOMAIN program, NEW k \in DOMAIN program[n].inputs
      PROVE  Delivery(program[n].inputs[k], state') = Delivery(program[n].inputs[k], plan)
  BY <1>0, <1>2, <1>3, SameDelivery
<1>7. ASSUME NEW n \in DOMAIN program, IsRunnable(state'[n]) PROVE IsRunnable(plan[n])
  BY <1>0, <1>2, <1>3, <1>7, SweptNodes DEF IsRunnable
<1>. QED  BY <1>3, <1>5, <1>6, <1>7 DEF plan, BeginRun

\* Every step keeps the run planned.
LEMMA PlannedStep ==
    ASSUME Typed, RunIsPlanned, [Next]_vars
    PROVE  RunIsPlanned'
<1>1. ASSUME NEW n \in Nodes, Turn(n) PROVE RunIsPlanned'
  <2>1. phase = "run" /\ UNCHANGED <<program, state, demand>>
    BY <1>1, TurnFrame DEF Typed
  <2>. QED  BY <2>1 DEF RunIsPlanned, Supplied, Delivery, IsRunnable
<1>2. CASE ~ \E n \in Nodes : Turn(n)
  <2>1. CASE \E asked \in Seeds : BeginRun(asked)
    <3>1. PICK asked : BeginRun(asked)
      BY <2>1
    <3>. QED  BY <3>1, BeginRunPlans DEF RunIsPlanned, Supplied, Delivery, IsRunnable
  <2>2. CASE UNCHANGED <<program, state, demand, phase>>
    BY <2>2 DEF RunIsPlanned, Supplied, Delivery, IsRunnable
  <2>3. CASE phase' = "rest"
    BY <2>3 DEF RunIsPlanned
  <2>. QED  BY <1>2, <2>1, <2>2, <2>3, OtherFrame
<1>. QED  BY <1>1, <1>2

\* A run identifies the file as it is, and once.
LEMMA MemoStep ==
    ASSUME Typed, MemoIsOfTheFile, [Next]_vars
    PROVE  MemoIsOfTheFile'
<1>1. ASSUME NEW n \in Nodes, Turn(n) PROVE MemoIsOfTheFile'
  <2>1. UNCHANGED <<file, calm, phase>>
    BY <1>1, TurnFrame DEF Typed
  <2>2. memo' = memo \/ (memo = 0 /\ memo' = file)
    BY <1>1 DEF Turn, PassCut, ServeReuse, IdentifyCancelled, IdentifyFails, LateServe, LateMiss,
       SkipUpstream, StartInvoke, Succeed, Fail, Identify, Unidentified
  <2>. QED  BY <2>1, <2>2 DEF MemoIsOfTheFile
<1>2. CASE \E asked \in Seeds : BeginRun(asked)
  <2>1. file' = file /\ memo' \in {0, file}
    BY <1>2 DEF BeginRun, Prepare
  <2>. QED  BY <2>1 DEF MemoIsOfTheFile
<1>3. CASE Touch
  <2>1. phase' = phase /\ (phase = "run" => ~calm')
    BY Zenon, <1>3 DEF Touch, runVars
  <2>2. file' = file + 1 /\ memo' = memo
    BY <1>3 DEF Touch, runVars
  <2>. QED  BY <2>1, <2>2 DEF MemoIsOfTheFile
<1>4. CASE EndRun \/ Crash \/ Clear
  BY <1>4 DEF EndRun, Crash, Clear, MemoIsOfTheFile, world
<1>5. CASE UNCHANGED <<file, memo, phase, calm>>
  BY <1>5 DEF MemoIsOfTheFile
<1>6. (\E g \in Programs : Install(g)) \/ (\E n \in DOMAIN program : Evict({n})) \/ Cancel
      \/ (\E n \in Nodes : Flush(n) \/ Corrupt(n)) \/ UNCHANGED vars
      => UNCHANGED <<file, memo, phase, calm>>
  BY DEF Install, Evict, Cancel, Flush, Corrupt, world, runVars, vars
<1>. QED  BY <1>1, <1>2, <1>3, <1>4, <1>5, <1>6 DEF Next

-----------------------------------------------------------------------------
(* A path is bound as identified, or it is not known yet.                    *)
PathIsBound(slot, port, known) ==
    BoundPath(slot, port, known) = None \/ (known # 0 /\ BoundPath(slot, port, known) = known)

\* A digest is stamped only of inputs known, and folds each as it is.
LEMMA KeyedIsKnown ==
    ASSUME NEW g, NEW n, NEW st, NEW s, NEW cur, NEW known,
           Keyed(g, n, st, s, cur, known) # None,
           \A k \in DOMAIN g[n].inputs :
              LET i == g[n].inputs[k] IN
              /\ Delivery(i, st) \in {"unbound", "file", "wire"}
              /\ Delivery(i, st) = "wire" /\ i.path =>
                   PathIsBound([s[i.from] EXCEPT !.cur = cur[i.from]], i.port, known)
    PROVE  /\ g[n].pure
           /\ \A k \in DOMAIN g[n].inputs :
                LET i == g[n].inputs[k] IN IsNamed(i, Delivery(i, st), cur[i.from], known)
           /\ Keyed(g, n, st, s, cur, known) =
                Term(g[n].key, [k \in DOMAIN g[n].inputs |->
                        LET i == g[n].inputs[k] IN ItemOf(i, Delivery(i, st), cur[i.from], known)], 0)
<1>. DEFINE items == [k \in DOMAIN g[n].inputs |-> Folded(g[n].inputs[k], st, s, cur, known)]
            kept == [k \in DOMAIN g[n].inputs |->
                        LET i == g[n].inputs[k] IN ItemOf(i, Delivery(i, st), cur[i.from], known)]
<1>1. /\ g[n].pure /\ \A k \in DOMAIN items : items[k] # None
      /\ Keyed(g, n, st, s, cur, known) = Term(g[n].key, items, 0)
  BY DEF Keyed
<1>2. ASSUME NEW k \in DOMAIN g[n].inputs
      PROVE  /\ IsNamed(g[n].inputs[k], Delivery(g[n].inputs[k], st), cur[g[n].inputs[k].from], known)
             /\ items[k] = ItemOf(g[n].inputs[k], Delivery(g[n].inputs[k], st), cur[g[n].inputs[k].from], known)
  <2>. DEFINE i == g[n].inputs[k]
              slot == [s[i.from] EXCEPT !.cur = cur[i.from]]
  <2>1. items[k] = FoldedInput(i, Delivery(i, st), s, cur, known) /\ items[k] # None
    BY <1>1 DEF Folded
  <2>2. FoldedInput(i, Delivery(i, st), s, cur, known) =
          CASE Delivery(i, st) = "unbound" -> Unset
            [] Delivery(i, st) = "file" -> IF known = 0 THEN None ELSE Named(known)
            [] OTHER -> IF cur[i.from] = None THEN None
                        ELSE IF ~i.path THEN Output(cur[i.from], i.port)
                        ELSE IF BoundPath(slot, i.port, known) = None THEN None
                        ELSE NamedBy(cur[i.from], i.port, BoundPath(slot, i.port, known))
    BY DEF FoldedInput
  <2>3. /\ Delivery(i, st) \in {"unbound", "file", "wire"}
        /\ Delivery(i, st) = "wire" /\ i.path => PathIsBound(slot, i.port, known)
    OBVIOUS
  <2>. HIDE DEF i, slot, items
  <2>. QED  BY <2>1, <2>2, <2>3 DEF IsNamed, ItemOf, PathIsBound, i
<1>3. items = kept
  BY <1>2
<1>. QED  BY <1>1, <1>2, <1>3

\* A digest names the node's own key.
LEMMA KeyedHasKey ==
    ASSUME NEW g, NEW n, NEW st, NEW s, NEW cur, NEW known,
           Keyed(g, n, st, s, cur, known) # None
    PROVE  Keyed(g, n, st, s, cur, known).key = g[n].key
<1>. DEFINE items == [k \in DOMAIN g[n].inputs |-> Folded(g[n].inputs[k], st, s, cur, known)]
<1>1. Keyed(g, n, st, s, cur, known) = Term(g[n].key, items, 0)
  BY DEF Keyed
<1>. HIDE DEF items
<1>. QED  BY <1>1 DEF Term

\* A node's digest is stamped when its inputs are named by the digests around it.
LEMMA StampedOf ==
    ASSUME NEW g, NEW n, g[n].pure, NEW st, NEW s, NEW known, NEW cur,
           \A k \in DOMAIN g[n].inputs :
              LET i == g[n].inputs[k] IN
              /\ IsNamed(i, Delivery(i, st), cur[i.from], known)
              /\ Delivery(i, st) = "wire" => s[i.from].cur = cur[i.from]
              /\ Delivery(i, st) \in {"unbound", "file", "wire"},
           s[n].cur = Term(g[n].key, [k \in DOMAIN g[n].inputs |->
                LET i == g[n].inputs[k] IN ItemOf(i, Delivery(i, st), cur[i.from], known)], 0)
    PROVE  Stamped(g, st, s, known, n)
<1>. DEFINE items == [k \in DOMAIN g[n].inputs |->
                LET i == g[n].inputs[k] IN ItemOf(i, Delivery(i, st), cur[i.from], known)]
            named == [k \in DOMAIN g[n].inputs |->
                LET i == g[n].inputs[k] IN ItemOf(i, Delivery(i, st), s[i.from].cur, known)]
<1>1. ASSUME NEW k \in DOMAIN g[n].inputs
      PROVE  LET i == g[n].inputs[k] IN
             IsNamed(i, Delivery(i, st), s[i.from].cur, known) /\ items[k] = named[k]
  BY DEF IsNamed, ItemOf
<1>2. items = named
  BY <1>1
<1>. QED  BY <1>1, <1>2 DEF Stamped

\* An input hands its node nothing, a file, a wire's value, or blocks it.
LEMMA DeliveryRange ==
    ASSUME NEW i \in Inputs, NEW st
    PROVE  /\ Delivery(i, st) \in {"unbound", "file", "wire", "blocked"}
           /\ Delivery(i, st) = "wire" => i.kind = "wire"
BY DEF Delivery, Inputs

\* What a node of a supplied run is wired to.
LEMMA SuppliedInputs ==
    ASSUME NEW g, IsProgram(g), NEW st, NEW wanted, NEW n \in DOMAIN g,
           Supplied(g, st, wanted, n), IsRunnable(st[n]), NEW k \in DOMAIN g[n].inputs
    PROVE  LET i == g[n].inputs[k] IN
           /\ Delivery(i, st) \in {"unbound", "file", "wire"}
           /\ Delivery(i, st) = "wire" =>
                /\ i.kind = "wire" /\ i.from \in DOMAIN g /\ i.from < n
                /\ i.from \in Producers(g, n) /\ IsRunnable(st[i.from])
                /\ st[n] = "Run" => st[i.from] \in {"Reuse", "Run"} /\ i.port \in wanted[i.from]
<1>1. g[n].inputs[k] \in Inputs
  BY DEF IsProgram
<1>2. g[n].inputs[k].kind = "wire" => /\ g[n].inputs[k].from \in DOMAIN g /\ g[n].inputs[k].from < n
                                      /\ g[n].inputs[k].from \in Producers(g, n)
  BY DEF IsProgram, Producers, Wired
<1>. QED  BY <1>1, <1>2, DeliveryRange DEF Supplied

\* As a run begins each digest stamped names what the node will read.
LEMMA BeginRunStamps ==
    ASSUME Typed, Releases, MemoIsOfTheFile, PortsAreBound, PathsAreBound(Programs),
           NEW asked, BeginRun(asked)
    PROVE  DigestsAreStamped'
<1>. DEFINE plan == Plan(program, asked)
            cur == Keys(program, plan, slots, memo')
<1>0. /\ IsProgram(program) /\ DOMAIN program \subseteq Nodes /\ AreSlots(slots)
      /\ ProgramTyped /\ AtRest /\ phase = "rest"
  BY ProgramIsProgram DEF Typed, StoreTyped, Releases, BeginRun
<1>1. /\ slots' = Stamps(program, plan, slots, memo')
      /\ program' = program
      /\ \A n \in DOMAIN program :
           /\ IsRunnable(state'[n]) => IsRunnable(plan[n])
           /\ \A k \in DOMAIN program[n].inputs :
                Delivery(program[n].inputs[k], state') = Delivery(program[n].inputs[k], plan)
           /\ Supplied(program, state', demand', n)
  BY BeginRunPlans
<1>. HIDE DEF plan
<1>2. \A n \in DOMAIN program : slots'[n].cur = cur[n]
  BY <1>0, <1>1, StampsReturns
<1>3. \A n \in DOMAIN program : IsRunnable(plan[n]) => cur[n] = Keyed(program, n, plan, slots, cur, memo')
  BY <1>0, KeysAt
<1>. HIDE DEF cur
<1>. SUFFICES ASSUME NEW n \in DOMAIN program, IsRunnable(state'[n]), slots'[n].cur # None
              PROVE  Stamped(program, state', slots', memo', n)
  BY <1>1 DEF DigestsAreStamped
<1>4. ASSUME NEW k \in DOMAIN program[n].inputs
      PROVE  LET i == program[n].inputs[k] IN
             /\ Delivery(i, plan) = Delivery(i, state')
             /\ Delivery(i, plan) \in {"unbound", "file", "wire"}
             /\ Delivery(i, plan) = "wire" =>
                  i.from \in DOMAIN program /\ IsRunnable(plan[i.from]) /\ i.kind = "wire"
  <2>. DEFINE i == program[n].inputs[k]
  <2>1. Delivery(i, plan) = Delivery(i, state')
    BY <1>1
  <2>2. /\ Delivery(i, state') \in {"unbound", "file", "wire"}
        /\ Delivery(i, state') = "wire" =>
             i.kind = "wire" /\ i.from \in DOMAIN program /\ IsRunnable(state'[i.from])
    BY <1>0, <1>1, SuppliedInputs
  <2>. QED  BY <1>1, <2>1, <2>2
<1>5. ASSUME NEW k \in DOMAIN program[n].inputs, NEW i, i = program[n].inputs[k],
             Delivery(i, plan) = "wire", i.path
      PROVE  PathIsBound([slots[i.from] EXCEPT !.cur = cur[i.from]], i.port, memo')
  <2>. DEFINE slot == [slots[i.from] EXCEPT !.cur = cur[i.from]]
  <2>1. i.from \in DOMAIN program /\ IsRunnable(plan[i.from]) /\ i.kind = "wire" /\ i.from \in Nodes
    BY <1>0, <1>4, <1>5
  <2>2. slot.cur = cur[i.from] /\ slot.val = slots[i.from].val
    BY <1>0, <2>1, RekeyedSlot DEF AreSlots
  <2>. HIDE DEF slot
  <2>3. SUFFICES IsCurrent(slot) => i.port \in slot.val.ports
    <3>1. (IsCurrent(slot) => i.port \in slot.val.ports) => PathIsBound(slot, i.port, memo')
      BY DEF PathIsBound, BoundPath
    <3>2. ~IsCurrent(slot) => PathIsBound(slot, i.port, memo')
      BY DEF PathIsBound, BoundPath
    <3>. QED  BY <3>1, <3>2 DEF slot
  <2>. SUFFICES ASSUME IsCurrent(slot) PROVE i.port \in slot.val.ports
    OBVIOUS
  <2>4. slots[i.from].val # Nothing /\ slots[i.from].val.under = cur[i.from] /\ cur[i.from] # None
    BY <2>2 DEF IsCurrent
  <2>5. Ram(i.from) /\ Held(i.from)
    BY <1>0, <2>1, <2>4 DEF AtRest, Alive, Ram, Held, Invoking, Typed, TurnTyped, MidTurn, NoTurn
  <2>6. HasItsBinds(cur[i.from], slots[i.from].val.ports)
    BY <2>1, <2>4, <2>5 DEF PortsAreBound
  <2>7. cur[i.from] = Keyed(program, i.from, plan, slots, cur, memo')
    BY <1>3, <2>1
  <2>8. cur[i.from].key = program[i.from].key
    BY <2>4, <2>7, KeyedHasKey
  <2>9. i.port \in Binds[program[i.from].key]
    <3>1. program \in Programs
      BY <1>0 DEF ProgramTyped
    <3>. QED  BY <1>5, <2>1, <3>1 DEF PathsAreBound
  <2>. QED  BY <2>2, <2>6, <2>8, <2>9 DEF HasItsBinds
<1>6. Keyed(program, n, plan, slots, cur, memo') # None
  BY <1>1, <1>2, <1>3
<1>7. /\ program[n].pure
      /\ \A k \in DOMAIN program[n].inputs :
           LET i == program[n].inputs[k] IN IsNamed(i, Delivery(i, plan), cur[i.from], memo')
      /\ Keyed(program, n, plan, slots, cur, memo') =
           Term(program[n].key, [k \in DOMAIN program[n].inputs |->
                LET i == program[n].inputs[k] IN ItemOf(i, Delivery(i, plan), cur[i.from], memo')], 0)
  <2>1. \A k \in DOMAIN program[n].inputs :
           LET i == program[n].inputs[k] IN
           /\ Delivery(i, plan) \in {"unbound", "file", "wire"}
           /\ Delivery(i, plan) = "wire" /\ i.path =>
                PathIsBound([slots[i.from] EXCEPT !.cur = cur[i.from]], i.port, memo')
    BY <1>4, <1>5
  <2>. QED  BY ZenonT(60), <1>6, <2>1, KeyedIsKnown
<1>8. [k \in DOMAIN program[n].inputs |->
         LET i == program[n].inputs[k] IN ItemOf(i, Delivery(i, plan), cur[i.from], memo')]
      = [k \in DOMAIN program[n].inputs |->
         LET i == program[n].inputs[k] IN ItemOf(i, Delivery(i, state'), cur[i.from], memo')]
  BY <1>4
<1>9. slots'[n].cur = Term(program[n].key, [k \in DOMAIN program[n].inputs |->
         LET i == program[n].inputs[k] IN ItemOf(i, Delivery(i, state'), cur[i.from], memo')], 0)
  BY <1>1, <1>2, <1>3, <1>7, <1>8
<1>. QED  BY <1>2, <1>4, <1>7, <1>9, StampedOf

-----------------------------------------------------------------------------
\* Every step keeps a node settled with a value holding it under its digest.
LEMMA CurrentStep ==
    ASSUME Typed, SettledAreCurrent, [Next]_vars
    PROVE  SettledAreCurrent'
<1>0. /\ ProgramTyped /\ StoreTyped /\ TurnTyped /\ DOMAIN program \subseteq Nodes
  BY ProgramIsProgram DEF Typed
<1>1. ASSUME NEW n \in Nodes, Turn(n) PROVE SettledAreCurrent'
  <2>1. /\ program' = program /\ phase = "run" /\ n \in DOMAIN program /\ outcome[n] = "Pending"
        /\ outcome = [c \in DOMAIN program |-> outcome[c]]
    BY <1>0, <1>1, TurnFrame DEF TurnTyped
  <2>2. \A m \in DOMAIN program : m # n => outcome'[m] = outcome[m]
    BY <1>0, <1>1, <2>1, TurnFrame
  <2>3. ASSUME NEW m \in DOMAIN program, m # n, outcome'[m] \in {"Ran", "Reused"},
               slots'[m].val # Nothing
        PROVE  slots'[m].val.under = slots'[m].cur
    <3>1. Kept(m)
      BY <1>0, <1>1, <2>3, TurnCarries
    <3>2. slots[m].val # Nothing /\ slots'[m].val.under = slots[m].val.under
      BY <2>3, <3>1, ValueIsSomething DEF Kept, Lessened
    <3>. QED  BY <2>1, <2>2, <2>3, <3>1, <3>2 DEF SettledAreCurrent, Kept
  <2>4. ASSUME outcome'[n] \in {"Ran", "Reused"}, slots'[n].val # Nothing
        PROVE  slots'[n].val.under = slots'[n].cur
    <3>1. ASSUME NEW ports, ProducedBy(n, ports) PROVE slots'[n].val.under = slots'[n].cur
      BY <2>4, <3>1 DEF ProducedBy, Released
    <3>2. ASSUME NEW slot, ServedFrom(n, slot) PROVE slots'[n].val.under = slots'[n].cur
      BY <2>4, <3>2 DEF ServedFrom, Released, IsCurrent
    <3>3. ~ (PassCut(n) \/ IdentifyFails(n) \/ LateMiss(n) \/ StartInvoke(n))
      BY <2>1, <2>4 DEF PassCut, IdentifyFails, LateMiss, StartInvoke, Settle
    <3>. QED  BY <1>1, <2>4, <3>1, <3>2, <3>3, TurnSlots DEF EmptiedBy
  <2>. QED  BY <2>1, <2>3, <2>4 DEF SettledAreCurrent
<1>2. CASE ~ \E n \in Nodes : Turn(n)
  <2>1. CASE \E asked \in Seeds : BeginRun(asked)
    BY <2>1 DEF BeginRun, SettledAreCurrent
  <2>2. CASE UNCHANGED <<program, slots, outcome, phase>>
    BY <2>2 DEF SettledAreCurrent
  <2>3. CASE phase' = "rest"
    BY <2>3 DEF SettledAreCurrent
  <2>. QED  BY <1>2, <2>1, <2>2, <2>3, OtherFrame
<1>. QED  BY <1>1, <1>2

\* A turn leaves no node owing reads that did not owe them.
LEMMA OwingShrinks ==
    ASSUME ProgramTyped, TurnTyped, NEW n \in Nodes, Turn(n)
    PROVE  Owing' \subseteq Owing
<1>0. 0 \notin Nodes /\ DOMAIN program \subseteq Nodes /\ NoTurn.at = "none" /\ NoTurn.node = 0
  BY ProgramIsProgram DEF NoTurn
<1>1. /\ UNCHANGED <<program, state>> /\ phase = "run" /\ n \in DOMAIN program
      /\ turn = NoTurn \/ turn.node = n
      /\ outcome = [c \in DOMAIN program |-> outcome[c]]
  BY TurnFrame DEF TurnTyped
<1>2. \A c \in DOMAIN program : outcome'[c] = "Pending" => outcome[c] = "Pending"
  BY <1>1, TurnFrame
<1>3. turn.at = "invoking" /\ turn.node = n => outcome'[n] # "Pending"
  <2>1. turn.at = "invoking" /\ turn.node = n => Succeed(n) \/ Fail(n)
    BY <1>0 DEF Turn, PassCut, ServeReuse, IdentifyCancelled, IdentifyFails, LateServe, LateMiss,
       SkipUpstream, StartInvoke, Unkeyed, ToInvoke, Ready
  <2>. QED  BY <1>1, <2>1 DEF Succeed, Fail, Settle
<1>. QED  BY <1>0, <1>1, <1>2, <1>3 DEF Owing, Running, Invoking

\* A read still to come is counted.
LEMMA OwedIsCounted ==
    ASSUME NEW g, IsProgram(g), NEW st, NEW owing \in SUBSET DOMAIN g, NEW counts,
           counts = [n \in DOMAIN g |-> [p \in Ports(g, n) |->
                        Cardinality(ReadsOf(g, st, owing, n, p))]],
           NEW c \in owing, NEW k \in DOMAIN g[c].inputs, NEW i, i = g[c].inputs[k],
           Delivery(i, st) = "wire"
    PROVE  i.from \in DOMAIN g /\ i.port \in Ports(g, i.from) /\ counts[i.from][i.port] # 0
<1>2. i \in Inputs /\ i.kind = "wire"
  <2>1. i \in Inputs
    BY DEF IsProgram
  <2>. QED  BY <2>1, DeliveryRange
<1>3. i.from \in DOMAIN g /\ i.from < c /\ i.port \in Ports(g, i.from)
  BY <1>2 DEF IsProgram, Ports
<1>4. c > i.from
  <2>1. Nodes = 1..Cardinality(Nodes) /\ Cardinality(Nodes) \in Nat
    BY ScheduleAssumption, FS_CardinalityType
  <2>. QED  BY <1>3, <2>1 DEF IsProgram
<1>5. <<c, k>> \in ReadsOf(g, st, owing, i.from, i.port)
  BY <1>4, ReadsOfMembers
<1>6. /\ IsFiniteSet(ReadsOf(g, st, owing, i.from, i.port))
      /\ counts[i.from][i.port] = Cardinality(ReadsOf(g, st, owing, i.from, i.port))
  BY <1>3, ReadsAreFinite
<1>7. \A S : IsFiniteSet(S) /\ S # {} => Cardinality(S) # 0
  BY FS_EmptySet
<1>. QED  BY <1>3, <1>5, <1>6, <1>7

\* Every step keeps what is still to be read there: a producer settled with
\* the ports its consumers were to read, and gives none up before the last.
LEMMA ThereStep ==
    ASSUME Typed, RunIsPlanned, ReadsAreThere, [Next]_vars
    PROVE  ReadsAreThere'
<1>0. /\ ProgramTyped /\ StoreTyped /\ TurnTyped /\ DOMAIN program \subseteq Nodes
      /\ IsProgram(program) /\ CountsExact /\ CountsExact'
  BY ProgramIsProgram, TypedStep DEF Typed
<1>1. ASSUME NEW n \in Nodes, Turn(n) PROVE ReadsAreThere'
  <2>1. /\ program' = program /\ phase = "run" /\ phase' = "run" /\ state' = state /\ demand' = demand
        /\ n \in DOMAIN program /\ outcome[n] = "Pending" /\ n # 0
        /\ outcome = [c \in DOMAIN program |-> outcome[c]]
        /\ ~cancelled \/ turn # NoTurn
    BY <1>0, <1>1, TurnFrame, ProgramIsProgram DEF TurnTyped, Ready
  <2>2. Owing' \subseteq Owing /\ Owing \subseteq DOMAIN program
    BY <1>0, <1>1, OwingShrinks DEF Owing, Running
  <2>. SUFFICES ASSUME ~cancelled' \/ turn' # NoTurn, NEW c \in Owing',
                       NEW k \in DOMAIN program[c].inputs, NEW i, i = program[c].inputs[k],
                       Delivery(i, state) = "wire", outcome'[i.from] \in {"Ran", "Reused"}
                PROVE  slots'[i.from].val # Nothing /\ i.port \in slots'[i.from].val.ports
    BY <2>1 DEF ReadsAreThere, IsThere
  <2>. DEFINE m == i.from
              p == i.port
  <2>3. reads = ReadsOwed(Owing) /\ reads' = ReadsOwed(Owing')
    BY <1>0, <2>1 DEF CountsExact, ReadsOwed
  <2>4. m \in DOMAIN program /\ p \in Ports(program, m) /\ reads[m][p] # 0 /\ reads'[m][p] # 0
    <3>1. /\ reads = [x \in DOMAIN program |-> [q \in Ports(program, x) |->
                        Cardinality(ReadsOf(program, state, Owing, x, q))]]
          /\ reads' = [x \in DOMAIN program |-> [q \in Ports(program, x) |->
                        Cardinality(ReadsOf(program, state, Owing', x, q))]]
      BY <2>3 DEF ReadsOwed
    <3>2. c \in Owing /\ Owing \in SUBSET DOMAIN program /\ Owing' \in SUBSET DOMAIN program
      BY <2>2
    <3>3. m \in DOMAIN program /\ p \in Ports(program, m) /\ reads[m][p] # 0
      BY <1>0, <3>1, <3>2, OwedIsCounted
    <3>4. reads'[m][p] # 0
      BY <1>0, <3>1, <3>2, OwedIsCounted
    <3>. QED  BY <3>3, <3>4
  <2>5. CASE m # n
    <3>1. outcome[m] \in {"Ran", "Reused"}
      BY <1>0, <1>1, <2>1, <2>4, <2>5, TurnFrame
    <3>2. slots[m].val # Nothing /\ p \in slots[m].val.ports
      BY <2>1, <2>2, <3>1 DEF ReadsAreThere, IsThere
    <3>3. CASE slots'[m] = slots[m]
      BY <3>2, <3>3
    <3>4. CASE \E s : /\ AreSlots(s) /\ slots' = LetGo(s, reads')
                      /\ \A x \in Nodes : x # n => s[x] = slots[x]
      <4>1. PICK s : /\ AreSlots(s) /\ slots' = LetGo(s, reads')
                     /\ \A x \in Nodes : x # n => s[x] = slots[x]
        BY <3>4
      <4>2. s[m] = slots[m] /\ m \in Nodes
        BY <1>0, <2>4, <2>5, <4>1
      <4>3. CASE Ram(m)
        BY SMTT(60), <3>2, <4>1, <4>2, <4>3, LetGoReturns DEF Lessened
      <4>4. CASE ~Ram(m)
        <5>1. p \notin Spent(reads', m) /\ ~Drained(reads', m)
          BY <2>4 DEF Spent, Drained
        <5>2. \/ slots'[m] = s[m]
              \/ slots'[m].val # Nothing /\ slots'[m].val.ports = s[m].val.ports \ Spent(reads', m)
          <6>1. m \in DOMAIN program /\ ~Ram(m) /\ s[m].val # Nothing /\ slots'[m] = LetGo(s, reads')[m]
            BY <2>4, <3>2, <4>1, <4>2, <4>4
          <6>. HIDE DEF m, p
          <6>2. \/ Spent(reads', m) = {} /\ LetGo(s, reads')[m] = s[m]
                \/ /\ LetGo(s, reads')[m].val # Nothing
                   /\ LetGo(s, reads')[m].val.ports = s[m].val.ports \ Spent(reads', m)
            BY <4>1, <4>2, <5>1, <6>1, LetGoReturns
          <6>. QED  BY <6>1, <6>2
        <5>. QED  BY <3>2, <4>2, <5>1, <5>2
      <4>. QED  BY <4>3, <4>4
    <3>. QED  BY <1>0, <1>1, <2>4, <2>5, <3>3, <3>4, TurnCounts
  <2>6. CASE m = n
    <3>1. ~Drained(reads, n)
      BY <2>4, <2>6 DEF Drained
    <3>2. state[c] = "Run" /\ p \in demand[n]
      <4>1. state[c] = "Run" /\ c \in DOMAIN program
        BY <2>2 DEF Owing, Running
      <4>2. Supplied(program, state, demand, c)
        BY <2>1, <4>1 DEF RunIsPlanned
      <4>. QED  BY <2>6, <4>1, <4>2 DEF Supplied, IsRunnable
    <3>3. ASSUME NEW ports, demand[n] \subseteq ports, ProducedBy(n, ports)
          PROVE  slots'[n].val # Nothing /\ p \in slots'[n].val.ports
      BY <3>1, <3>2, <3>3, ValueIsSomething DEF ProducedBy, Released
    <3>4. ASSUME NEW slot, ServedFrom(n, slot)
          PROVE  slots'[n].val # Nothing /\ p \in slots'[n].val.ports
      BY <3>1, <3>2, <3>4 DEF ServedFrom, Released, IsCurrent
    <3>5. ~ (PassCut(n) \/ IdentifyFails(n) \/ LateMiss(n) \/ StartInvoke(n)) /\ ~EmptiedBy(n)
      BY <2>1, <2>6 DEF PassCut, IdentifyFails, LateMiss, StartInvoke, Settle, EmptiedBy
    <3>. QED  BY <1>0, <1>1, <2>6, <3>3, <3>4, <3>5, TurnSlots
  <2>. QED  BY <2>5, <2>6
<1>2. CASE ~ \E n \in Nodes : Turn(n)
  <2>1. CASE \E asked \in Seeds : BeginRun(asked)
    <3>1. program' = program /\ outcome' = [n \in DOMAIN program |-> "Pending"]
      BY <2>1 DEF BeginRun
    <3>2. PICK asked : BeginRun(asked)
      BY <2>1
    <3>3. ASSUME NEW c \in Owing', NEW k \in DOMAIN program[c].inputs,
                 Delivery(program[c].inputs[k], state') = "wire"
          PROVE  outcome'[program[c].inputs[k].from] = "Pending"
      <4>1. c \in DOMAIN program
        BY <3>1 DEF Owing, Running
      <4>2. program[c].inputs[k] \in Inputs
        BY <1>0, <4>1 DEF IsProgram
      <4>3. program[c].inputs[k].from \in DOMAIN program
        BY <1>0, <3>3, <4>1, <4>2, DeliveryRange DEF IsProgram
      <4>. QED  BY <3>1, <4>3
    <3>. QED  BY <3>1, <3>3 DEF ReadsAreThere, IsThere
  <2>2. CASE /\ UNCHANGED <<program, seeds, state, demand, slots, disk>>
             /\ UNCHANGED <<phase, reads, outcome, turn, memo, runs>>
             /\ cancelled => cancelled'
    BY <2>2 DEF ReadsAreThere, IsThere, Owing, Running, Invoking
  <2>3. CASE phase' = "rest"
    BY <2>3 DEF ReadsAreThere
  <2>. QED  BY <1>2, <2>1, <2>2, <2>3, OtherFrame
<1>. QED  BY <1>1, <1>2

-----------------------------------------------------------------------------
(* Only a scheduled node settles, one is cut as the sweep decided, and one   *)
(* skipped or failed is empty.                                               *)
OutcomesAreSettled ==
    phase = "run" => \A n \in DOMAIN program :
        /\ outcome[n] \in {"Pending", "Cut", "Reused", "Skipped", "Ran", "Failed"}
        /\ outcome[n] = "Cut" => state[n] = "Cut"
        /\ outcome[n] # "Pending" => IsRunnable(state[n])
        /\ outcome[n] \in {"Skipped", "Failed"} => slots[n].val = Nothing

\* Every step keeps the outcomes as the turns settled them.
LEMMA OutcomesStep ==
    ASSUME Typed, OutcomesAreSettled, [Next]_vars
    PROVE  OutcomesAreSettled'
<1>0. /\ ProgramTyped /\ StoreTyped /\ TurnTyped /\ DOMAIN program \subseteq Nodes
  BY ProgramIsProgram DEF Typed
<1>1. ASSUME NEW n \in Nodes, Turn(n) PROVE OutcomesAreSettled'
  <2>1. /\ program' = program /\ phase = "run" /\ n \in DOMAIN program /\ outcome[n] = "Pending"
        /\ outcome = [c \in DOMAIN program |-> outcome[c]] /\ state' = state
    BY <1>0, <1>1, TurnFrame DEF TurnTyped
  <2>2. \A m \in DOMAIN program : m # n => outcome'[m] = outcome[m]
    BY <1>0, <1>1, <2>1, TurnFrame
  <2>3. ASSUME NEW m \in DOMAIN program, m # n
        PROVE  slots[m].val = Nothing => slots'[m].val = Nothing
    <3>1. Kept(m)
      BY <1>0, <1>1, <2>3, TurnCarries
    <3>. QED  BY <3>1, ValueIsSomething DEF Kept, Lessened
  <2>4. /\ outcome'[n] \in {"Pending", "Cut", "Reused", "Skipped", "Ran", "Failed"}
        /\ outcome'[n] = "Cut" => PassCut(n)
    <3>1. outcome'[n] = "Cut" => PassCut(n)
      BY <1>1, <2>1 DEF Turn, PassCut, ServeReuse, IdentifyCancelled, IdentifyFails, LateServe,
         LateMiss, SkipUpstream, StartInvoke, Succeed, Fail, Settle, Skip
    <3>. QED  BY <1>0, <1>1, <2>1, <3>1, TurnFrame
  <2>5. outcome'[n] \in {"Skipped", "Failed"} => slots'[n].val = Nothing
    <3>1. ASSUME NEW ports, ProducedBy(n, ports) PROVE outcome'[n] = "Ran"
      BY <2>1, <3>1 DEF ProducedBy
    <3>2. ASSUME NEW slot, ServedFrom(n, slot) PROVE outcome'[n] = "Reused"
      BY <2>1, <3>2 DEF ServedFrom
    <3>3. PassCut(n) \/ IdentifyFails(n) \/ LateMiss(n) \/ StartInvoke(n) =>
            outcome'[n] \notin {"Skipped", "Failed"}
      BY <2>1 DEF PassCut, IdentifyFails, LateMiss, StartInvoke, Settle
    <3>. QED  BY <1>0, <1>1, <3>1, <3>2, <3>3, TurnSlots DEF EmptiedBy
  <2>6. IsRunnable(state[n])
    BY <1>0, <1>1, <2>1 DEF Turn, PassCut, ServeReuse, IdentifyCancelled, IdentifyFails, LateServe,
       LateMiss, SkipUpstream, StartInvoke, Succeed, Fail, Unkeyed, ToInvoke, IsRunnable, TurnTyped,
       MidTurn, NoTurn
  <2>. QED  BY <2>1, <2>2, <2>3, <2>4, <2>5, <2>6 DEF OutcomesAreSettled, PassCut
<1>2. CASE ~ \E n \in Nodes : Turn(n)
  <2>1. CASE \E asked \in Seeds : BeginRun(asked)
    BY <2>1 DEF BeginRun, OutcomesAreSettled
  <2>2. CASE UNCHANGED <<program, slots, outcome, phase, state>>
    BY <2>2 DEF OutcomesAreSettled
  <2>3. CASE phase' = "rest"
    BY <2>3 DEF OutcomesAreSettled
  <2>. QED  BY <1>2, <2>1, <2>2, <2>3, OtherFrame
<1>. QED  BY <1>1, <1>2

\* What a node that may be invoked is wired to has settled, served or computed,
\* unless it came to nothing.
LEMMA SettledProducers ==
    ASSUME Typed, RunIsPlanned, OutcomesAreSettled, phase = "run", NEW n \in DOMAIN program,
           state[n] = "Run",
           \A m \in Producers(program, n) : IsRunnable(state[m]) => outcome[m] # "Pending",
           NEW k \in DOMAIN program[n].inputs, NEW i, i = program[n].inputs[k],
           Delivery(i, state) = "wire"
    PROVE  /\ i.from \in DOMAIN program /\ i.from < n /\ i.from \in Producers(program, n)
           /\ IsRunnable(state[i.from])
           /\ \/ outcome[i.from] \in {"Ran", "Reused"}
              \/ outcome[i.from] \in {"Skipped", "Failed"} /\ slots[i.from].val = Nothing
<1>1. IsProgram(program) /\ Supplied(program, state, demand, n)
  BY ProgramIsProgram DEF Typed, RunIsPlanned
<1>2. /\ i.from \in DOMAIN program /\ i.from < n /\ i.from \in Producers(program, n)
      /\ IsRunnable(state[i.from]) /\ state[i.from] \in {"Reuse", "Run"}
  BY <1>1, SuppliedInputs DEF IsRunnable
<1>3. outcome[i.from] # "Pending"
  BY <1>2
<1>. QED  BY <1>2, <1>3 DEF OutcomesAreSettled

\* A digest completed late names what the node is about to read.
LEMMA LateStamps ==
    ASSUME Typed, RunIsPlanned, OutcomesAreSettled, ReadsAreThere, NEW n \in Nodes, Unkeyed(n),
           NEW known, NEW cur, cur = [m \in DOMAIN program |-> slots[m].cur],
           Keyed(program, n, state, slots, cur, known) # None
    PROVE  /\ program[n].pure
           /\ \A k \in DOMAIN program[n].inputs :
                LET i == program[n].inputs[k] IN
                /\ IsNamed(i, Delivery(i, state), cur[i.from], known)
                /\ Delivery(i, state) \in {"unbound", "file", "wire"}
                /\ Delivery(i, state) = "wire" => i.from \in DOMAIN program /\ i.from < n
           /\ Keyed(program, n, state, slots, cur, known) =
                Term(program[n].key, [k \in DOMAIN program[n].inputs |->
                    LET i == program[n].inputs[k] IN ItemOf(i, Delivery(i, state), cur[i.from], known)], 0)
<1>0. /\ Typed /\ ProgramTyped /\ IsProgram(program) /\ phase = "run" /\ n \in DOMAIN program
      /\ state[n] = "Run" /\ ~cancelled /\ outcome[n] = "Pending" /\ turn = NoTurn
      /\ \A m \in Producers(program, n) : IsRunnable(state[m]) => outcome[m] # "Pending"
      /\ Supplied(program, state, demand, n) /\ DOMAIN program \subseteq Nodes /\ AreSlots(slots)
  BY ProgramIsProgram DEF Typed, Unkeyed, Ready, RunIsPlanned, StoreTyped
<1>1. n \in Owing
  BY <1>0 DEF Owing, Running, Invoking, NoTurn
<1>2. ASSUME NEW k \in DOMAIN program[n].inputs, NEW i, i = program[n].inputs[k]
      PROVE  /\ Delivery(i, state) \in {"unbound", "file", "wire"}
             /\ Delivery(i, state) = "wire" => i.from \in DOMAIN program /\ i.from < n
             /\ Delivery(i, state) = "wire" /\ i.path =>
                  PathIsBound([slots[i.from] EXCEPT !.cur = cur[i.from]], i.port, known)
  <2>1. Delivery(i, state) \in {"unbound", "file", "wire"}
    BY <1>0, <1>2, SuppliedInputs DEF IsRunnable
  <2>2. ASSUME Delivery(i, state) = "wire"
        PROVE  /\ i.from \in DOMAIN program /\ i.from < n
               /\ PathIsBound([slots[i.from] EXCEPT !.cur = cur[i.from]], i.port, known)
    <3>1. /\ i.from \in DOMAIN program /\ i.from < n
          /\ \/ outcome[i.from] \in {"Ran", "Reused"}
             \/ slots[i.from].val = Nothing
      BY <1>0, <1>2, <2>2, SettledProducers
    <3>2. slots[i.from].val = Nothing \/ i.port \in slots[i.from].val.ports
      BY <1>0, <1>1, <1>2, <2>2, <3>1 DEF ReadsAreThere, IsThere
    <3>. DEFINE slot == [slots[i.from] EXCEPT !.cur = cur[i.from]]
    <3>3. slot.val = slots[i.from].val
      BY <1>0, <3>1, RekeyedSlot DEF AreSlots
    <3>. HIDE DEF slot
    <3>4. PathIsBound(slot, i.port, known)
      BY <3>2, <3>3 DEF PathIsBound, BoundPath, IsCurrent
    <3>. QED  BY <3>1, <3>4 DEF slot
  <2>. QED  BY <2>1, <2>2
<1>3. \A k \in DOMAIN program[n].inputs :
        LET i == program[n].inputs[k] IN
        /\ Delivery(i, state) \in {"unbound", "file", "wire"}
        /\ Delivery(i, state) = "wire" /\ i.path =>
             PathIsBound([slots[i.from] EXCEPT !.cur = cur[i.from]], i.port, known)
  BY <1>2
<1>4. /\ program[n].pure
      /\ \A k \in DOMAIN program[n].inputs :
           LET i == program[n].inputs[k] IN IsNamed(i, Delivery(i, state), cur[i.from], known)
      /\ Keyed(program, n, state, slots, cur, known) =
           Term(program[n].key, [k \in DOMAIN program[n].inputs |->
                LET i == program[n].inputs[k] IN ItemOf(i, Delivery(i, state), cur[i.from], known)], 0)
  BY SMTT(60), <1>3, KeyedIsKnown
<1>. QED  BY <1>2, <1>4

\* A term is of its key, and names what its inputs name.
LEMMA TermParts ==
    ASSUME NEW key, NEW ins, NEW run
    PROVE  /\ Term(key, ins, run).key = key
           /\ \A v : v \in Term(key, ins, run).names <=> \E k \in DOMAIN ins : v \in ins[k].names
BY DEF Term

\* A digest stamped is of its node's key.
LEMMA StampedKey ==
    ASSUME NEW g, NEW st, NEW s, NEW known, NEW n, Stamped(g, st, s, known, n)
    PROVE  s[n].cur.key = g[n].key
<1>. DEFINE items == [k \in DOMAIN g[n].inputs |->
                LET i == g[n].inputs[k] IN ItemOf(i, Delivery(i, st), s[i.from].cur, known)]
<1>1. s[n].cur = Term(g[n].key, items, 0)
  BY DEF Stamped
<1>. HIDE DEF items
<1>. QED  BY <1>1, TermParts

\* A digest stays what it names while the digests it folds stay, and the file
\* is identified at most once.
LEMMA StampedCarries ==
    ASSUME NEW g, NEW n, NEW st, NEW s, NEW t, NEW known, NEW later,
           Stamped(g, st, s, known, n), t[n].cur = s[n].cur, later = known \/ known = 0,
           \A k \in DOMAIN g[n].inputs :
              LET i == g[n].inputs[k] IN
              /\ Delivery(i, st) \in {"unbound", "file", "wire"}
              /\ Delivery(i, st) = "wire" /\ s[i.from].cur # None => t[i.from].cur = s[i.from].cur
    PROVE  Stamped(g, st, t, later, n)
<1>. DEFINE items == [k \in DOMAIN g[n].inputs |->
                LET i == g[n].inputs[k] IN ItemOf(i, Delivery(i, st), s[i.from].cur, known)]
            named == [k \in DOMAIN g[n].inputs |->
                LET i == g[n].inputs[k] IN ItemOf(i, Delivery(i, st), t[i.from].cur, later)]
<1>1. ASSUME NEW k \in DOMAIN g[n].inputs, NEW i, i = g[n].inputs[k]
      PROVE  /\ IsNamed(i, Delivery(i, st), t[i.from].cur, later)
             /\ ItemOf(i, Delivery(i, st), s[i.from].cur, known) =
                  ItemOf(i, Delivery(i, st), t[i.from].cur, later)
  <2>1. IsNamed(i, Delivery(i, st), s[i.from].cur, known)
    BY <1>1 DEF Stamped
  <2>2. /\ Delivery(i, st) \in {"unbound", "file", "wire"}
        /\ Delivery(i, st) = "wire" /\ s[i.from].cur # None => t[i.from].cur = s[i.from].cur
    BY <1>1
  <2>. QED  BY <2>1, <2>2 DEF IsNamed, ItemOf
<1>2. items = named
  BY <1>1
<1>. QED  BY <1>1, <1>2 DEF Stamped

\* A turn keeps every digest, and the file's version, unless it is a node's
\* that had no digest and completes it.
LEMMA TurnDigests ==
    ASSUME Typed, NEW n \in Nodes, Turn(n)
    PROVE  /\ \A m \in Nodes : m # n => slots'[m].cur = slots[m].cur
           /\ memo' = memo \/ memo = 0
           /\ \/ slots'[n].cur = slots[n].cur
              \/ /\ Unkeyed(n) /\ slots[n].cur = None
                 /\ slots'[n].cur = Keyed(program, n, state, slots,
                                          [m \in DOMAIN program |-> slots[m].cur], memo')
           /\ memo' # memo => Unkeyed(n)
<1>0. HoldsValue(slots[n])
  BY DEF Typed, StoreTyped, AreSlots
<1>1. \A m \in Nodes : m # n => slots'[m].cur = slots[m].cur
  BY TurnCarries DEF Kept
<1>2. Restamped(n).cur = Keyed(program, n, state, slots, [m \in DOMAIN program |-> slots[m].cur], memo')
  <2>. DEFINE c == Keyed(program, n, state, slots, [m \in DOMAIN program |-> slots[m].cur], memo')
  <2>1. Restamped(n) = [slots[n] EXCEPT !.cur = c]
    BY DEF Restamped
  <2>. HIDE DEF c
  <2>2. Restamped(n).cur = c
    BY <1>0, <2>1, RekeyedSlot
  <2>. QED  BY <2>2 DEF c
<1>3. LateServe(n) \/ LateMiss(n) => Unkeyed(n) /\ slots[n].cur = None
  BY DEF LateServe, LateMiss, Unkeyed
<1>4. \/ slots'[n].cur = slots[n].cur
      \/ (LateServe(n) \/ LateMiss(n)) /\ slots'[n].cur = Restamped(n).cur
  <2>1. InvokeBuffer(n).cur = slots[n].cur
    BY <1>0, InvokeBufferReturns
  <2>2. ASSUME NEW slot, ServedFrom(n, slot) PROVE slots'[n].cur = slot.cur
    BY <2>2 DEF ServedFrom
  <2>3. ASSUME NEW ports, ProducedBy(n, ports) PROVE slots'[n].cur = slots[n].cur
    BY <2>3 DEF ProducedBy
  <2>4. EmptiedBy(n) => slots'[n].cur = slots[n].cur
    BY DEF EmptiedBy
  <2>. QED  BY <2>1, <2>2, <2>3, <2>4, TurnSlots
<1>5. (memo' = memo) \/ ((LateServe(n) \/ LateMiss(n)) /\ memo = 0)
  BY DEF Turn, PassCut, ServeReuse, IdentifyCancelled, IdentifyFails, LateServe, LateMiss,
     SkipUpstream, StartInvoke, Succeed, Fail, Identify, Unidentified
<1>. QED  BY <1>1, <1>2, <1>3, <1>4, <1>5

\* Every step keeps the digests of a run stamped: what they fold stays, and one
\* completed late folds what is there.
LEMMA StampedStep ==
    ASSUME Typed, Releases, RunIsPlanned, MemoIsOfTheFile, OutcomesAreSettled, ReadsAreThere,
           PortsAreBound, PathsAreBound(Programs), DigestsAreStamped, [Next]_vars
    PROVE  DigestsAreStamped'
<1>0. /\ ProgramTyped /\ StoreTyped /\ TurnTyped /\ DOMAIN program \subseteq Nodes /\ IsProgram(program)
  BY ProgramIsProgram DEF Typed
<1>1. ASSUME NEW n \in Nodes, Turn(n) PROVE DigestsAreStamped'
  <2>1. /\ program' = program /\ phase = "run" /\ n \in DOMAIN program /\ state' = state
        /\ Typed
    BY <1>0, <1>1, TurnFrame
  <2>2. /\ \A m \in Nodes : m # n => slots'[m].cur = slots[m].cur
        /\ memo' = memo \/ memo = 0
        /\ \/ slots'[n].cur = slots[n].cur
           \/ /\ Unkeyed(n) /\ slots[n].cur = None
              /\ slots'[n].cur = Keyed(program, n, state, slots,
                                       [m \in DOMAIN program |-> slots[m].cur], memo')
    BY <1>1, TurnDigests
  <2>. SUFFICES ASSUME NEW c \in DOMAIN program, IsRunnable(state[c]), slots'[c].cur # None
                PROVE  Stamped(program, state, slots', memo', c)
    BY <2>1 DEF DigestsAreStamped
  <2>3. ASSUME NEW k \in DOMAIN program[c].inputs, NEW i, i = program[c].inputs[k]
        PROVE  /\ Delivery(i, state) \in {"unbound", "file", "wire"}
               /\ Delivery(i, state) = "wire" => i.from \in DOMAIN program /\ i.from < c
    BY <1>0, <2>1, <2>3, SuppliedInputs DEF RunIsPlanned
  <2>4. CASE slots'[c].cur = slots[c].cur
    <3>1. Stamped(program, state, slots, memo, c)
      BY <2>1, <2>4 DEF DigestsAreStamped
    <3>2. \A m \in DOMAIN program : slots[m].cur # None => slots'[m].cur = slots[m].cur
      BY <1>0, <2>2
    <3>3. \A k \in DOMAIN program[c].inputs :
              LET i == program[c].inputs[k] IN
              /\ Delivery(i, state) \in {"unbound", "file", "wire"}
              /\ Delivery(i, state) = "wire" /\ slots[i.from].cur # None =>
                   slots'[i.from].cur = slots[i.from].cur
      BY <2>3, <3>2
    <3>. QED  BY <2>2, <2>4, <3>1, <3>3, StampedCarries
  <2>5. CASE slots'[c].cur # slots[c].cur
    <3>. DEFINE cur == [m \in DOMAIN program |-> slots[m].cur]
    <3>1. /\ c = n /\ Unkeyed(n)
          /\ slots'[n].cur = Keyed(program, n, state, slots, cur, memo')
      BY <1>0, <2>2, <2>5
    <3>2. Keyed(program, n, state, slots, cur, memo') # None
      BY <3>1
    <3>3. /\ program[n].pure
          /\ \A k \in DOMAIN program[n].inputs :
               LET i == program[n].inputs[k] IN
               /\ IsNamed(i, Delivery(i, state), cur[i.from], memo')
               /\ Delivery(i, state) \in {"unbound", "file", "wire"}
               /\ Delivery(i, state) = "wire" => i.from \in DOMAIN program /\ i.from < n
          /\ Keyed(program, n, state, slots, cur, memo') =
               Term(program[n].key, [k \in DOMAIN program[n].inputs |->
                   LET i == program[n].inputs[k] IN
                   ItemOf(i, Delivery(i, state), cur[i.from], memo')], 0)
      BY <2>1, <3>1, <3>2, LateStamps
    <3>4. \A m \in DOMAIN program : m < n => slots'[m].cur = cur[m]
      <4>1. \A m \in DOMAIN program : m < n => m # n
        BY <1>0, ProgramIsProgram
      <4>. QED  BY <1>0, <2>2, <4>1
    <3>. HIDE DEF cur
    <3>. QED  BY <3>1, <3>3, <3>4, StampedOf
  <2>. QED  BY <2>4, <2>5
<1>2. CASE ~ \E n \in Nodes : Turn(n)
  <2>1. CASE \E asked \in Seeds : BeginRun(asked)
    BY <2>1, BeginRunStamps
  <2>2. CASE UNCHANGED <<program, slots, memo, phase, state>>
    BY <2>2 DEF DigestsAreStamped, Stamped, IsNamed, ItemOf, Delivery
  <2>3. CASE phase' = "rest"
    BY <2>3 DEF DigestsAreStamped
  <2>. QED  BY <1>2, <2>1, <2>2, <2>3, OtherFrame
<1>. QED  BY <1>1, <1>2

-----------------------------------------------------------------------------
\* Every step keeps the ports a lambda always binds where its value is kept.
LEMMA BoundStep ==
    ASSUME Typed, Releases, DigestsAreStamped, PortsAreBound, [Next]_vars
    PROVE  PortsAreBound'
<1>0. /\ ProgramTyped /\ StoreTyped /\ TurnTyped /\ DOMAIN program \subseteq Nodes /\ 0 \notin Nodes
      /\ NoTurn.node = 0 /\ NoTurn.at = "none" /\ AtRest /\ WaitingHoldNothing /\ BeliefIsBacked
  BY ProgramIsProgram DEF Typed, Releases, NoTurn
<1>. DEFINE BlobBound(m) == disk'[m] # Nothing => HasItsBinds(disk'[m].digest, disk'[m].ports)
            ValueBound(m) == Held(m)' /\ Ram(m)' /\ slots'[m].val.under # None =>
                                HasItsBinds(slots'[m].val.under, slots'[m].val.ports)
<1>1. ASSUME NEW m \in Nodes, CarriedBlob(m),
             turn.node # m /\ slots[m].val # Nothing => Ram(m)
      PROVE  BlobBound(m)
  <2>1. CASE disk'[m] = Nothing
    BY <2>1
  <2>2. CASE disk[m] # Nothing /\ disk'[m].digest = disk[m].digest /\ disk'[m].ports = disk[m].ports
    BY <2>2 DEF PortsAreBound
  <2>3. CASE /\ slots[m].val # Nothing /\ slots[m].val.under # None /\ turn.node # m
             /\ disk'[m] = BlobOf(slots[m].val)
    <3>1. Held(m) /\ Ram(m)
      BY <1>1, <2>3 DEF Held, Invoking
    <3>2. HasItsBinds(slots[m].val.under, slots[m].val.ports)
      BY <2>3, <3>1 DEF PortsAreBound
    <3>. QED  BY <2>3, <3>2 DEF BlobOf
  <2>. QED  BY <1>1, <2>1, <2>2, <2>3 DEF CarriedBlob
<1>2. ASSUME NEW m \in Nodes, CarriedValue(m), slots'[m].val = Nothing \/ (~Invoking(m) /\ Ram(m))
      PROVE  ValueBound(m)
  <2>1. SUFFICES ASSUME slots'[m].val # Nothing, slots'[m].val.under # None
                 PROVE  HasItsBinds(slots'[m].val.under, slots'[m].val.ports)
    BY DEF Held
  <2>2. /\ slots[m].val # Nothing /\ slots'[m].val.under = slots[m].val.under
        /\ slots'[m].val.ports = slots[m].val.ports
    BY <1>2, <2>1 DEF CarriedValue, Lessened
  <2>3. Held(m) /\ Ram(m)
    BY <1>2, <2>1, <2>2 DEF Held
  <2>. QED  BY <2>1, <2>2, <2>3 DEF PortsAreBound
<1>3. ASSUME NEW n \in Nodes, Turn(n) PROVE PortsAreBound'
  <2>1. /\ program' = program /\ phase = "run" /\ n \in DOMAIN program /\ outcome[n] = "Pending"
        /\ (turn = NoTurn \/ (turn.node = n /\ state[n] = "Run")) /\ Typed
    BY <1>0, <1>3, TurnFrame
  <2>2. ASSUME NEW m \in Nodes, m # n PROVE BlobBound(m) /\ ValueBound(m)
    <3>1. Kept(m) /\ Carried(m)
      BY <1>3, <2>1, <2>2, TurnCarries
    <3>2. BlobBound(m)
      BY <3>1 DEF Kept, PortsAreBound
    <3>3. ~Invoking(m)
      BY <1>0, <2>1, <2>2 DEF Invoking
    <3>4. Ram(m)' <=> Ram(m)
      BY <2>1 DEF Ram
    <3>5. ValueBound(m)
      BY <1>2, <3>1, <3>3, <3>4 DEF Carried
    <3>. QED  BY <3>2, <3>5
  <2>3. turn.node # n /\ slots[n].val # Nothing => Ram(n)
    BY <2>1 DEF WaitingHoldNothing, Invoking, Releases
  <2>4. Ram(n)' <=> Ram(n)
    BY <2>1 DEF Ram
  <2>5. CASE Carried(n) /\ (slots'[n].val = Nothing \/ ~Invoking(n))
    <3>1. BlobBound(n)
      BY <1>1, <2>3, <2>5 DEF Carried
    <3>2. ValueBound(n)
      BY <1>2, <2>4, <2>5 DEF Carried
    <3>. QED  BY <2>2, <3>1, <3>2 DEF PortsAreBound
  <2>6. CASE Loaded(n)
    <3>1. disk'[n] = disk[n] /\ disk[n] # Nothing /\ disk[n].digest = slots'[n].cur
          /\ slots'[n].val.ports = disk[n].ports /\ slots'[n].val.under = slots'[n].cur
      BY <2>6 DEF Loaded, Covers, Decoded
    <3>2. BlobBound(n) /\ ValueBound(n)
      BY <3>1 DEF PortsAreBound
    <3>. QED  BY <2>2, <3>2 DEF PortsAreBound
  <2>7. CASE Returns(n)
    <3>1. PICK ports : Binds[program[n].key] \subseteq ports /\ ProducedBy(n, ports)
      BY <2>7 DEF Returns
    <3>2. slots[n].cur # None => slots[n].cur.key = program[n].key
      <4>1. state[n] = "Run"
        BY <1>0, <2>7 DEF Returns, Succeed, TurnTyped, MidTurn
      <4>2. slots[n].cur # None => Stamped(program, state, slots, memo, n)
        BY <2>1, <4>1 DEF DigestsAreStamped, IsRunnable
      <4>. QED  BY <4>2, StampedKey
    <3>3. BlobBound(n)
      BY <3>1, <3>2 DEF ProducedBy, HasItsBinds, PortsAreBound
    <3>4. ValueBound(n)
      BY <3>1, <3>2 DEF ProducedBy, Released, HasItsBinds, Held
    <3>. QED  BY <2>2, <3>3, <3>4 DEF PortsAreBound
  <2>8. CASE StartInvoke(n) /\ slots'[n] = InvokeBuffer(n) /\ disk' = disk
    <3>1. Invoking(n)'
      BY <2>8 DEF StartInvoke, Invoking
    <3>2. BlobBound(n) /\ ValueBound(n)
      BY <2>8, <3>1 DEF PortsAreBound, Held
    <3>. QED  BY <2>2, <3>2 DEF PortsAreBound
  <2>. QED  BY <1>3, <2>1, <2>5, <2>6, <2>7, <2>8, TurnCarries
<1>4. CASE ~ \E n \in Nodes : Turn(n)
  <2>0. \A m \in Nodes : Carried(m)
    BY <1>4, OtherStepsCarry
  <2>1. CASE phase = "rest"
    <3>1. turn = NoTurn
      BY <1>0, <2>1 DEF TurnTyped, MidTurn
    <3>2. ASSUME NEW m \in Nodes PROVE BlobBound(m) /\ ValueBound(m)
      <4>1. ~Invoking(m) /\ (slots[m].val # Nothing => Ram(m))
        BY <1>0, <2>1, <3>1 DEF AtRest, Alive, Ram, Invoking
      <4>2. slots'[m].val # Nothing => slots[m].val # Nothing
        BY <2>0 DEF Carried, CarriedValue
      <4>. QED  BY <1>1, <1>2, <2>0, <4>1, <4>2 DEF Carried
    <3>. QED  BY <3>2 DEF PortsAreBound
  <2>2. CASE EndRun
    <3>1. program' = program /\ disk' = disk /\ turn = NoTurn
      BY <2>2 DEF EndRun
    <3>2. ASSUME NEW m \in Nodes PROVE BlobBound(m) /\ ValueBound(m)
      <4>1. (Ram(m)' <=> Ram(m)) /\ ~Invoking(m)
        BY <1>0, <3>1 DEF Ram, Invoking
      <4>. QED  BY <1>2, <2>0, <3>1, <4>1 DEF Carried, PortsAreBound
    <3>. QED  BY <3>2 DEF PortsAreBound
  <2>3. CASE Crash
    <3>1. disk' = disk /\ \A m \in Nodes : slots'[m].val = Nothing
      BY <2>3 DEF Crash, EmptySlot
    <3>. QED  BY <3>1 DEF PortsAreBound, Held
  <2>4. CASE UNCHANGED <<program, slots, disk, turn>>
    BY <2>4 DEF PortsAreBound, Held, Invoking, Ram
  <2>. QED  BY <1>4, <2>1, <2>2, <2>3, <2>4, OtherFrame
<1>. QED  BY <1>3, <1>4

-----------------------------------------------------------------------------
\* What a lambda is invoked on: each producer it reads has settled, and holds
\* the port it reads.
LEMMA InvokeReads ==
    ASSUME Typed, RunIsPlanned, OutcomesAreSettled, ReadsAreThere, NEW n \in Nodes, StartInvoke(n)
    PROVE  /\ phase = "run" /\ n \in DOMAIN program /\ state[n] = "Run" /\ ~Invoking(n)
           /\ \A k \in DOMAIN program[n].inputs :
                LET i == program[n].inputs[k] IN
                /\ Delivery(i, state) \in {"unbound", "file", "wire"}
                /\ Delivery(i, state) = "wire" =>
                     /\ i.from \in DOMAIN program /\ i.from < n /\ IsRunnable(state[i.from])
                     /\ outcome[i.from] \in {"Ran", "Reused"}
                     /\ Held(i.from) /\ i.port \in slots[i.from].val.ports
<1>0. /\ ProgramTyped /\ TurnTyped /\ TurnsInOrder /\ DOMAIN program \subseteq Nodes /\ 0 \notin Nodes
      /\ NoTurn.node = 0 /\ NoTurn.at = "none" /\ Nodes \subseteq Nat /\ IsProgram(program)
  BY ProgramIsProgram DEF Typed, NoTurn
<1>1. /\ phase = "run" /\ n \in DOMAIN program /\ outcome[n] = "Pending" /\ state[n] = "Run"
      /\ turn.at # "invoking" /\ turn.node \in {0, n} /\ (~cancelled \/ turn # NoTurn)
      /\ \A m \in Producers(program, n) : IsRunnable(state[m]) => outcome[m] # "Pending"
  <2>1. CASE Ready(n) /\ state[n] = "Run"
    BY <1>0, <2>1 DEF Ready
  <2>2. CASE turn.at = "keyed" /\ turn.node = n
    <3>1. MidTurn /\ turn # NoTurn
      BY <1>0, <2>2 DEF TurnTyped
    <3>. QED  BY <2>2, <3>1, <1>0 DEF MidTurn, TurnsInOrder
  <2>. QED  BY <2>1, <2>2 DEF StartInvoke, ToInvoke
<1>2. n \in Owing /\ ~Invoking(n)
  BY <1>1 DEF Owing, Running, Invoking
<1>3. ASSUME NEW k \in DOMAIN program[n].inputs, NEW i, i = program[n].inputs[k]
      PROVE  /\ Delivery(i, state) \in {"unbound", "file", "wire"}
             /\ Delivery(i, state) = "wire" =>
                  /\ i.from \in DOMAIN program /\ i.from < n /\ IsRunnable(state[i.from])
                  /\ outcome[i.from] \in {"Ran", "Reused"}
                  /\ Held(i.from) /\ i.port \in slots[i.from].val.ports
  <2>1. Delivery(i, state) \in {"unbound", "file", "wire"}
    BY <1>0, <1>1, <1>3, SuppliedInputs DEF RunIsPlanned, IsRunnable
  <2>. SUFFICES ASSUME Delivery(i, state) = "wire"
                PROVE  /\ i.from \in DOMAIN program /\ i.from < n /\ IsRunnable(state[i.from])
                       /\ outcome[i.from] \in {"Ran", "Reused"}
                       /\ Held(i.from) /\ i.port \in slots[i.from].val.ports
    BY <2>1
  <2>2. /\ i.from \in DOMAIN program /\ i.from < n /\ i.from \in Producers(program, n)
        /\ IsRunnable(state[i.from])
        /\ outcome[i.from] \in {"Ran", "Reused"} \/ outcome[i.from] \in {"Skipped", "Failed"}
    BY <1>1, <1>3, SettledProducers
  <2>3. outcome[i.from] \in {"Ran", "Reused"}
    BY <2>2 DEF StartInvoke, HasErroredDependency
  <2>4. slots[i.from].val # Nothing /\ i.port \in slots[i.from].val.ports
    BY <1>1, <1>2, <1>3, <2>3 DEF ReadsAreThere, IsThere
  <2>5. Held(i.from)
    BY <1>1, <2>4 DEF Held, Invoking
  <2>. QED  BY <2>2, <2>3, <2>4, <2>5
<1>. QED  BY <1>1, <1>2, <1>3

\* A lambda computes what its digest says, unless the file it names has
\* changed since, or the one a producer of it names.
LEMMA ComputesAsStamped ==
    ASSUME Typed, RunIsPlanned, MemoIsOfTheFile, OutcomesAreSettled, ReadsAreThere,
           SettledAreCurrent, DigestsAreStamped, KeysAreHonest,
           NEW n \in Nodes, StartInvoke(n), slots[n].cur # None, ~Outdated(slots[n].cur)
    PROVE  Computed(n) = slots[n].cur
<1>. DEFINE items == [k \in DOMAIN program[n].inputs |->
                LET i == program[n].inputs[k] IN
                ItemOf(i, Delivery(i, state), slots[i.from].cur, memo)]
            given == [k \in DOMAIN program[n].inputs |-> Delivered(program[n].inputs[k])]
<1>0. /\ DOMAIN program \subseteq Nodes /\ file \in Nat /\ memo \in Nat /\ memo <= file
  BY ProgramIsProgram DEF Typed, MemoIsOfTheFile
<1>1. /\ phase = "run" /\ n \in DOMAIN program /\ state[n] = "Run"
      /\ \A k \in DOMAIN program[n].inputs :
           LET i == program[n].inputs[k] IN
           /\ Delivery(i, state) \in {"unbound", "file", "wire"}
           /\ Delivery(i, state) = "wire" =>
                /\ i.from \in DOMAIN program
                /\ outcome[i.from] \in {"Ran", "Reused"}
                /\ Held(i.from) /\ i.port \in slots[i.from].val.ports
  BY InvokeReads
<1>2. Stamped(program, state, slots, memo, n)
  BY <1>1 DEF DigestsAreStamped, IsRunnable
<1>3. program[n].pure /\ slots[n].cur = Term(program[n].key, items, 0)
  BY <1>2 DEF Stamped
<1>4. \A k \in DOMAIN program[n].inputs : \A v : v \in items[k].names => v \in slots[n].cur.names
  <2>1. DOMAIN items = DOMAIN program[n].inputs
    OBVIOUS
  <2>. HIDE DEF items
  <2>. QED  BY <1>3, <2>1, TermParts
<1>5. ASSUME NEW v \in Nat, v # 0, v <= file, v \in slots[n].cur.names PROVE v = file
  BY <1>0, <1>5 DEF Outdated
<1>6. ASSUME NEW k \in DOMAIN program[n].inputs PROVE items[k] = given[k]
  <2>. DEFINE i == program[n].inputs[k]
  <2>1. /\ IsNamed(i, Delivery(i, state), slots[i.from].cur, memo)
        /\ Delivery(i, state) \in {"unbound", "file", "wire"}
    BY <1>1, <1>2 DEF Stamped
  <2>2. items[k] = ItemOf(i, Delivery(i, state), slots[i.from].cur, memo) /\ given[k] = Delivered(i)
    OBVIOUS
  <2>3. CASE Delivery(i, state) = "unbound"
    BY <2>2, <2>3 DEF ItemOf, Delivered
  <2>4. CASE Delivery(i, state) = "file"
    <3>1. items[k] = Named(memo) /\ memo # 0
      BY <2>1, <2>4 DEF ItemOf, IsNamed
    <3>2. memo \in items[k].names
      <4>. HIDE DEF items, i, given
      <4>. QED  BY <3>1 DEF Named
    <3>3. memo = file
      BY <1>0, <1>4, <1>5, <3>1, <3>2
    <3>. QED  BY <2>2, <2>4, <3>1, <3>3 DEF Delivered
  <2>5. CASE Delivery(i, state) = "wire"
    <3>. DEFINE m == i.from
    <3>1. /\ m \in DOMAIN program /\ m \in Nodes /\ outcome[m] \in {"Ran", "Reused"}
          /\ Held(m) /\ i.port \in slots[m].val.ports /\ slots[m].val # Nothing
      BY <1>0, <1>1, <2>5 DEF Held
    <3>2. slots[m].cur # None /\ (i.path => memo # 0)
      BY <2>1, <2>5 DEF IsNamed
    <3>3. slots[m].val.under = slots[m].cur
      BY <1>1, <3>1 DEF SettledAreCurrent
    <3>4. slots[m].val.made = slots[m].cur \/ Outdated(slots[m].cur)
      BY <3>1, <3>2, <3>3 DEF KeysAreHonest
    <3>5. /\ \A v : v \in slots[m].cur.names => v \in items[k].names
          /\ i.path => memo \in items[k].names
      <4>1. items[k] = IF i.path THEN NamedBy(slots[m].cur, i.port, memo) ELSE Output(slots[m].cur, i.port)
        BY <2>2, <2>5 DEF ItemOf
      <4>. HIDE DEF items, i
      <4>2. CASE i.path
        <5>1. items[k] = NamedBy(slots[m].cur, i.port, memo)
          BY <4>1, <4>2
        <5>2. items[k].names = slots[m].cur.names \cup {memo}
          BY <5>1 DEF NamedBy
        <5>. QED  BY <5>2
      <4>3. CASE ~i.path
        <5>1. items[k] = Output(slots[m].cur, i.port)
          BY <4>1, <4>3
        <5>2. items[k].names = slots[m].cur.names
          BY <5>1 DEF Output
        <5>. QED  BY <4>3, <5>2
      <4>. QED  BY <4>2, <4>3
    <3>6. slots[m].val.made = slots[m].cur
      BY <1>4, <3>4, <3>5 DEF Outdated
    <3>7. i.path => memo = file
      BY <1>0, <1>4, <1>5, <3>2, <3>5
    <3>. QED  BY <2>2, <2>5, <3>1, <3>6, <3>7 DEF ItemOf, Delivered
  <2>. QED  BY <2>1, <2>3, <2>4, <2>5
<1>7. items = given
  BY <1>6
<1>8. Computed(n) = Term(program[n].key, given, 0)
  BY <1>3 DEF Computed, Stamp
<1>. QED  BY <1>3, <1>7, <1>8

(* Outdated by a version of the file that may be a later one.                *)
OutdatedBy(version, digest) == \E v \in 1..(version - 1) : v \in digest.names

\* The file only gains versions, so what is outdated stays so.
LEMMA OutdatedStays ==
    ASSUME MemoIsOfTheFile, [Next]_vars
    PROVE  \A digest : OutdatedBy(file, digest) => OutdatedBy(file', digest)
<1>1. file \in Nat /\ (file' = file \/ file' = file + 1)
  BY DEF MemoIsOfTheFile, Next, vars, world, Turn, Install, Clear, Evict, Flush, Corrupt, BeginRun,
     EndRun, Cancel, Touch, Crash, PassCut, ServeReuse, IdentifyCancelled, IdentifyFails, LateServe,
     LateMiss, SkipUpstream, StartInvoke, Succeed, Fail
<1>. QED  BY <1>1 DEF OutdatedBy

\* Every step keeps a lambda's result what its digest says.
LEMMA MadeStep ==
    ASSUME Typed, RunIsPlanned, MemoIsOfTheFile, OutcomesAreSettled, ReadsAreThere,
           SettledAreCurrent, DigestsAreStamped, KeysAreHonest, MadeAsStamped, [Next]_vars
    PROVE  MadeAsStamped'
<1>0. /\ ProgramTyped /\ StoreTyped /\ NoTurn.at = "none" /\ \A n \in Nodes : HoldsValue(slots[n])
  BY DEF Typed, NoTurn, StoreTyped, AreSlots
<1>a. \A digest : OutdatedBy(file, digest) => OutdatedBy(file', digest)
  BY OutdatedStays
<1>. SUFFICES ASSUME NEW x \in Nodes, Invoking(x)', slots'[x].cur # None
              PROVE  turn'.made = slots'[x].cur \/ OutdatedBy(file', slots'[x].cur)
  BY DEF MadeAsStamped, Outdated, OutdatedBy
<1>1. ASSUME NEW n \in Nodes, Turn(n)
      PROVE  turn'.made = slots'[x].cur \/ OutdatedBy(file', slots'[x].cur)
  <2>1. StartInvoke(n)
    <3>1. IdentifyFails(n) \/ LateMiss(n) => turn'.at = "keyed"
      BY DEF IdentifyFails, LateMiss, NoTurn
    <3>2. PassCut(n) \/ ServeReuse(n) \/ IdentifyCancelled(n) \/ LateServe(n) \/ SkipUpstream(n)
            \/ Succeed(n) \/ Fail(n) => turn' = NoTurn
      BY DEF PassCut, ServeReuse, IdentifyCancelled, LateServe, SkipUpstream, Succeed, Fail,
         Unkeyed, Ready
    <3>3. turn'.at = "invoking"
      BY DEF Invoking
    <3>. QED  BY <1>0, <1>1, <3>1, <3>2, <3>3 DEF Turn
  <2>2. x = n /\ turn'.made = Computed(n)
    BY <2>1 DEF StartInvoke, Invoking
  <2>3. slots'[n].cur = slots[n].cur
    BY <1>0, <2>1, InvokeBegins, InvokeBufferReturns
  <2>4. Computed(n) = slots[n].cur \/ OutdatedBy(file, slots[n].cur)
    BY <2>1, <2>2, <2>3, ComputesAsStamped DEF Outdated, OutdatedBy
  <2>. QED  BY <1>a, <2>2, <2>3, <2>4
<1>2. CASE ~ \E n \in Nodes : Turn(n)
  <2>1. CASE turn' = NoTurn
    BY <1>0, <2>1 DEF Invoking
  <2>2. CASE UNCHANGED <<slots, turn>>
    <3>1. turn.made = slots[x].cur \/ OutdatedBy(file, slots[x].cur)
      BY <2>2 DEF MadeAsStamped, Invoking, Outdated, OutdatedBy
    <3>. QED  BY <1>a, <2>2, <3>1
  <2>3. CASE phase = "rest" /\ turn' = turn
    BY <1>0, <2>3 DEF Typed, TurnTyped, MidTurn, Invoking
  <2>4. (\E asked \in Seeds : BeginRun(asked)) => turn' = NoTurn
    BY DEF BeginRun
  <2>. QED  BY <1>2, <2>1, <2>2, <2>3, <2>4, OtherFrame
<1>. QED  BY <1>1, <1>2

\* Every step keeps the digests honest: a value carried keeps its making, one
\* decoded has the blob's, and one returned was made as its digest says.
LEMMA HonestStep ==
    ASSUME Typed, MemoIsOfTheFile, KeysAreHonest, MadeAsStamped, [Next]_vars
    PROVE  KeysAreHonest'
<1>0. /\ ProgramTyped /\ StoreTyped /\ TurnTyped /\ DOMAIN program \subseteq Nodes /\ 0 \notin Nodes
      /\ NoTurn.node = 0 /\ NoTurn.at = "none"
  BY ProgramIsProgram DEF Typed, NoTurn
<1>a. \A digest : OutdatedBy(file, digest) => OutdatedBy(file', digest)
  BY OutdatedStays
<1>. DEFINE Blob(m) == disk'[m] # Nothing =>
                disk'[m].made = disk'[m].digest \/ OutdatedBy(file', disk'[m].digest)
            Value(m) == slots'[m].val # Nothing /\ ~Invoking(m)' /\ slots'[m].val.under # None =>
                slots'[m].val.made = slots'[m].val.under \/ OutdatedBy(file', slots'[m].val.under)
<1>b. (\A m \in Nodes : Blob(m) /\ Value(m)) => KeysAreHonest'
  BY DEF KeysAreHonest, Outdated, OutdatedBy, Held
<1>1. ASSUME NEW m \in Nodes, slots[m].val # Nothing, ~Invoking(m), slots[m].val.under # None
      PROVE  slots[m].val.made = slots[m].val.under \/ OutdatedBy(file', slots[m].val.under)
  BY <1>1, <1>a DEF KeysAreHonest, Held, Outdated, OutdatedBy
<1>2. ASSUME NEW m \in Nodes, disk[m] # Nothing
      PROVE  disk[m].made = disk[m].digest \/ OutdatedBy(file', disk[m].digest)
  BY <1>2, <1>a DEF KeysAreHonest, Outdated, OutdatedBy
<1>3. ASSUME NEW m \in Nodes, CarriedBlob(m) PROVE Blob(m)
  <2>1. CASE disk'[m] = Nothing
    BY <2>1
  <2>2. CASE disk[m] # Nothing /\ disk'[m].digest = disk[m].digest /\ disk'[m].made = disk[m].made
    BY <1>2, <2>2
  <2>3. CASE /\ slots[m].val # Nothing /\ slots[m].val.under # None /\ turn.node # m
             /\ disk'[m] = BlobOf(slots[m].val)
    <3>1. disk'[m].made = slots[m].val.made /\ disk'[m].digest = slots[m].val.under /\ ~Invoking(m)
      BY <2>3 DEF BlobOf, Invoking
    <3>. QED  BY <1>1, <2>3, <3>1
  <2>. QED  BY <1>3, <2>1, <2>2, <2>3 DEF CarriedBlob
<1>4. ASSUME NEW m \in Nodes, CarriedValue(m), slots'[m].val = Nothing \/ ~Invoking(m) PROVE Value(m)
  BY <1>1, <1>4 DEF CarriedValue
<1>5. ASSUME NEW n \in Nodes, Turn(n) PROVE KeysAreHonest'
  <2>1. turn = NoTurn \/ turn.node = n
    BY <1>0, <1>5, TurnFrame
  <2>2. \A m \in Nodes : m # n => Blob(m) /\ Value(m)
    <3>1. \A m \in Nodes : m # n => Carried(m) /\ ~Invoking(m)
      BY <1>0, <1>5, <2>1, TurnCarries DEF Invoking
    <3>. QED  BY <1>3, <1>4, <3>1 DEF Carried
  <2>3. CASE Carried(n) /\ (slots'[n].val = Nothing \/ ~Invoking(n))
    BY <1>b, <1>3, <1>4, <2>2, <2>3 DEF Carried
  <2>4. CASE Loaded(n)
    <3>1. /\ disk'[n] = disk[n] /\ disk[n] # Nothing /\ slots'[n].val.under = disk[n].digest
          /\ slots'[n].val.made = disk[n].made
      BY <2>4 DEF Loaded, Decoded, Covers
    <3>2. Blob(n) /\ Value(n)
      BY <1>2, <3>1
    <3>. QED  BY <1>b, <2>2, <3>2
  <2>5. CASE Returns(n)
    <3>1. PICK ports : ProducedBy(n, ports)
      BY <2>5 DEF Returns
    <3>2. Invoking(n)
      BY <2>5 DEF Returns, Succeed, Invoking
    <3>3. slots[n].cur # None => turn.made = slots[n].cur \/ OutdatedBy(file', slots[n].cur)
      BY <1>a, <3>2 DEF MadeAsStamped, Outdated, OutdatedBy
    <3>4. Blob(n)
      BY <1>2, <3>1, <3>3 DEF ProducedBy
    <3>5. Value(n)
      BY <3>1, <3>3 DEF ProducedBy, Released
    <3>. QED  BY <1>b, <2>2, <3>4, <3>5
  <2>6. CASE StartInvoke(n) /\ slots'[n] = InvokeBuffer(n) /\ disk' = disk
    <3>1. Invoking(n)'
      BY <2>6 DEF StartInvoke, Invoking
    <3>2. Blob(n) /\ Value(n)
      BY <1>2, <2>6, <3>1
    <3>. QED  BY <1>b, <2>2, <3>2
  <2>. QED  BY <1>5, <2>3, <2>4, <2>5, <2>6, TurnCarries
<1>6. CASE ~ \E n \in Nodes : Turn(n)
  <2>0. \A m \in Nodes : Carried(m)
    BY <1>6, OtherStepsCarry
  <2>1. CASE turn = NoTurn
    <3>1. \A m \in Nodes : ~Invoking(m)
      BY <1>0, <2>1 DEF Invoking
    <3>. QED  BY <1>b, <1>3, <1>4, <2>0, <3>1 DEF Carried
  <2>2. CASE UNCHANGED <<slots, disk, turn>>
    <3>1. \A m \in Nodes : Blob(m) /\ Value(m)
      BY <1>1, <1>2, <2>2 DEF Invoking
    <3>. QED  BY <1>b, <3>1
  <2>3. CASE Crash
    <3>1. \A m \in Nodes : slots'[m].val = Nothing
      BY <2>3 DEF Crash, EmptySlot
    <3>. QED  BY <1>b, <1>3, <2>0, <3>1 DEF Carried
  <2>4. phase = "rest" \/ EndRun => turn = NoTurn
    BY <1>0 DEF TurnTyped, MidTurn, EndRun
  <2>. QED  BY <1>6, <2>1, <2>2, <2>3, <2>4, OtherFrame
<1>. QED  BY <1>5, <1>6

-----------------------------------------------------------------------------
FreshBody(env, made, n) == FreshTerm(env.g, env.st, env.version, env.run, made, n)
Refreshing == INSTANCE Recursion WITH Body <- FreshBody

\* An input computed afresh is its item, of the terms computed afresh.
LEMMA FreshItem ==
    ASSUME NEW i, NEW st, NEW version, NEW made
    PROVE  FreshInput(i, st, version, made) = ItemOf(i, Delivery(i, st), made[i.from], version)
BY DEF FreshInput, ItemOf

\* What a program computes afresh is what its defining equation says, producers
\* before consumers.
LEMMA FreshAt ==
    ASSUME NEW g, IsProgram(g), NEW st, NEW version, NEW run
    PROVE  \A n \in DOMAIN g : FreshOf(g, st, version, run)[n] =
              FreshTerm(g, st, version, run, FreshOf(g, st, version, run), n)
<1>. DEFINE env == [g |-> g, st |-> st, version |-> version, run |-> run]
<1>1. Refreshing!ReadsBelow(env, DOMAIN g, Forward(g))
  <2>1. SUFFICES ASSUME NEW n \in DOMAIN g, NEW f, NEW h,
                        \A m \in DOMAIN g : Forward(g)[m] < Forward(g)[n] => f[m] = h[m]
                 PROVE  FreshBody(env, f, n) = FreshBody(env, h, n)
    BY Zenon DEF Refreshing!ReadsBelow
  <2>2. \A m \in DOMAIN g : m < n => f[m] = h[m]
    BY <2>1, RanksAreBounded
  <2>3. ASSUME NEW k \in DOMAIN g[n].inputs
        PROVE  FreshInput(g[n].inputs[k], st, version, f) = FreshInput(g[n].inputs[k], st, version, h)
    <3>. DEFINE i == g[n].inputs[k]
    <3>1. CASE i.kind = "wire"
      <4>1. f[i.from] = h[i.from]
        BY <2>2, <3>1 DEF IsProgram
      <4>. QED  BY <4>1 DEF FreshInput
    <3>2. CASE i.kind # "wire"
      <4>1. Delivery(i, st) = "unbound" \/ Delivery(i, st) = "file"
        <5>1. i \in Inputs
          BY DEF IsProgram
        <5>. QED  BY <3>2, <5>1 DEF Inputs, Delivery
      <4>. QED  BY <4>1 DEF FreshInput
    <3>. QED  BY <3>1, <3>2
  <2>. QED  BY <2>3 DEF FreshBody, FreshTerm
<1>2. \E f : f = [n \in DOMAIN g |-> FreshBody(env, f, n)]
  <2>. HIDE DEF env
  <2>. QED  BY <1>1, RanksAreBounded, Refreshing!RecursionSolved
<1>3. \A f : [n \in DOMAIN g |-> FreshBody(env, f, n)] =
             [n \in DOMAIN g |-> FreshTerm(g, st, version, run, f, n)]
  BY DEF FreshBody
<1>4. \E f : f = [n \in DOMAIN g |-> FreshTerm(g, st, version, run, f, n)]
  <2>. HIDE DEF env
  <2>1. PICK f : f = [n \in DOMAIN g |-> FreshBody(env, f, n)]
    BY Zenon, <1>2
  <2>2. [n \in DOMAIN g |-> FreshBody(env, f, n)] = [n \in DOMAIN g |-> FreshTerm(g, st, version, run, f, n)]
    BY Zenon, <1>3
  <2>3. f = [n \in DOMAIN g |-> FreshTerm(g, st, version, run, f, n)]
    BY Zenon, <2>1, <2>2
  <2>. QED  BY Zenon, <2>3
<1>5. FreshOf(g, st, version, run) =
        [n \in DOMAIN g |-> FreshTerm(g, st, version, run, FreshOf(g, st, version, run), n)]
  BY Zenon, <1>4 DEF FreshOf
<1>. QED  BY Zenon, <1>5

(* Every node of a schedule is supplied, keyed, and keyed afresh.            *)
AllSupplied(g, st, wanted) == \A n \in DOMAIN g : Supplied(g, st, wanted, n)

AllStamped(g, st, s, known) ==
    \A n \in DOMAIN g : IsRunnable(st[n]) /\ s[n].cur # None => Stamped(g, st, s, known, n)

AllFresh(g, st, s, version, run) ==
    \A n \in DOMAIN g : IsRunnable(st[n]) /\ s[n].cur # None =>
        s[n].cur = FreshOf(g, st, version, run)[n] /\ s[n].cur.names \subseteq {version}

\* Where the file stayed as it was identified, a digest is what its node
\* computes afresh, and names that version alone.
LEMMA DigestsAreFresh ==
    ASSUME NEW g, IsProgram(g), NEW st, NEW wanted, AllSupplied(g, st, wanted),
           NEW s, NEW version, NEW known, known = 0 \/ known = version, NEW run,
           AllStamped(g, st, s, known)
    PROVE  AllFresh(g, st, s, version, run)
<1>. USE DEF AllSupplied, AllStamped, AllFresh
<1>. DEFINE fresh == FreshOf(g, st, version, run)
            Good(n) == s[n].cur = fresh[n] /\ s[n].cur.names \subseteq {version}
            Bad == {n \in DOMAIN g : IsRunnable(st[n]) /\ s[n].cur # None /\ ~Good(n)}
<1>0. \A n \in DOMAIN g : fresh[n] = FreshTerm(g, st, version, run, fresh, n)
  BY FreshAt
<1>. HIDE DEF fresh
<1>1. ASSUME Bad # {} PROVE FALSE
  <2>1. Bad \subseteq Nat
    <3>1. Nodes = 1..Cardinality(Nodes) /\ Cardinality(Nodes) \in Nat
      BY ScheduleAssumption, FS_CardinalityType
    <3>. QED  BY <3>1 DEF IsProgram
  <2>2. PICK n \in Bad : \A m \in Bad : n <= m
    <3>. HIDE DEF Bad
    <3>. QED  BY <1>1, <2>1, Stamping!LeastNatural
  <2>3. n \in DOMAIN g /\ IsRunnable(st[n]) /\ s[n].cur # None /\ ~Good(n)
    BY <2>2
  <2>4. \A m \in DOMAIN g : m < n /\ IsRunnable(st[m]) /\ s[m].cur # None => Good(m)
    <3>1. \A m \in DOMAIN g : m \in Nat
      <4>1. Nodes = 1..Cardinality(Nodes) /\ Cardinality(Nodes) \in Nat
        BY ScheduleAssumption, FS_CardinalityType
      <4>. QED  BY <4>1 DEF IsProgram
    <3>2. \A m \in DOMAIN g : m < n => m \notin Bad
      BY <2>1, <2>2, <3>1
    <3>. QED  BY <3>2
  <2>. HIDE DEF Bad
  <2>. DEFINE items == [k \in DOMAIN g[n].inputs |->
                LET i == g[n].inputs[k] IN ItemOf(i, Delivery(i, st), s[i.from].cur, known)]
              anew == [k \in DOMAIN g[n].inputs |-> FreshInput(g[n].inputs[k], st, version, fresh)]
  <2>5. Stamped(g, st, s, known, n)
    BY <2>3
  <2>6. ASSUME NEW k \in DOMAIN g[n].inputs
        PROVE  items[k] = anew[k] /\ items[k].names \subseteq {version}
    <3>. DEFINE i == g[n].inputs[k]
    <3>1. IsNamed(i, Delivery(i, st), s[i.from].cur, known)
      BY <2>5 DEF Stamped
    <3>2. /\ Delivery(i, st) \in {"unbound", "file", "wire"}
          /\ Delivery(i, st) = "wire" =>
               i.from \in DOMAIN g /\ i.from < n /\ IsRunnable(st[i.from])
      BY <2>3, SuppliedInputs
    <3>3. /\ items[k] = ItemOf(i, Delivery(i, st), s[i.from].cur, known)
          /\ anew[k] = ItemOf(i, Delivery(i, st), fresh[i.from], version)
      BY FreshItem
    <3>. HIDE DEF items, anew, i
    <3>4. CASE Delivery(i, st) = "unbound"
      BY <3>3, <3>4 DEF ItemOf, Unset
    <3>5. CASE Delivery(i, st) = "file"
      <4>1. known # 0
        BY <3>1, <3>5 DEF IsNamed
      <4>2. known = version
        BY <4>1
      <4>3. items[k] = Named(known) /\ anew[k] = Named(version)
        BY <3>3, <3>5 DEF ItemOf
      <4>4. Named(version).names = {version}
        BY DEF Named
      <4>. QED  BY <4>2, <4>3, <4>4
    <3>6. CASE Delivery(i, st) = "wire"
      <4>1. Good(i.from) /\ (i.path => known = version)
        BY <2>4, <3>1, <3>2, <3>6 DEF IsNamed
      <4>2. items[k] = anew[k]
        BY <3>3, <3>6, <4>1 DEF ItemOf
      <4>3. CASE i.path
        <5>1. items[k] = NamedBy(s[i.from].cur, i.port, known)
          BY <3>3, <3>6, <4>3 DEF ItemOf
        <5>. QED  BY <4>1, <4>2, <4>3, <5>1 DEF NamedBy
      <4>4. CASE ~i.path
        <5>1. items[k] = Output(s[i.from].cur, i.port)
          BY <3>3, <3>6, <4>4 DEF ItemOf
        <5>. QED  BY <4>1, <4>2, <5>1 DEF Output
      <4>. QED  BY <4>3, <4>4
    <3>. QED  BY <3>2, <3>4, <3>5, <3>6
  <2>7. items = anew
    BY <2>6
  <2>8. g[n].pure /\ s[n].cur = Term(g[n].key, items, 0)
    BY <2>5 DEF Stamped
  <2>9. s[n].cur = fresh[n]
    BY <1>0, <2>3, <2>7, <2>8 DEF FreshTerm
  <2>10. s[n].cur.names \subseteq {version}
    <3>1. DOMAIN items = DOMAIN g[n].inputs
      OBVIOUS
    <3>2. \A k \in DOMAIN items : items[k].names \subseteq {version}
      BY <2>6, <3>1
    <3>. HIDE DEF items
    <3>. QED  BY <2>8, <3>2, TermParts
  <2>. QED  BY <2>3, <2>9, <2>10
<1>. QED  BY <1>1 DEF fresh

\* In a calm run the program, its plan and the file stay as they are, and so
\* does what it would compute from scratch.
LEMMA CalmFrame ==
    ASSUME ProgramTyped, TurnTyped, [Next]_vars, phase = "run", phase' = "run", calm'
    PROVE  calm /\ program' = program /\ Fresh' = Fresh
<1>1. UNCHANGED <<program, state, runs>>
  <2>1. ASSUME NEW n \in Nodes, Turn(n) PROVE UNCHANGED <<program, state, runs>>
    BY <2>1, TurnFrame
  <2>2. CASE ~ \E n \in Nodes : Turn(n)
    BY <2>2, OtherFrame
  <2>. QED  BY <2>1, <2>2
<1>2. calm /\ file' = file
  <2>1. ASSUME NEW n \in Nodes, Turn(n) PROVE calm /\ file' = file
    <3>1. calm' = calm /\ file' = file
      BY <2>1, TurnFrame
    <3>. QED  BY <3>1
  <2>2. CASE Cancel \/ UNCHANGED vars
    BY Zenon, <2>2 DEF Cancel, vars, world
  <2>3. CASE Touch
    BY <2>3 DEF Touch
  <2>4. CASE EndRun \/ Crash
    BY <2>4 DEF EndRun, Crash
  <2>5. CASE \/ \E g \in Programs : Install(g)
             \/ Clear
             \/ \E n \in DOMAIN program : Evict({n})
             \/ \E n \in Nodes : Flush(n) \/ Corrupt(n)
             \/ \E asked \in Seeds : BeginRun(asked)
    BY <2>5 DEF Install, Clear, Evict, Flush, Corrupt, BeginRun
  <2>. QED  BY <2>1, <2>2, <2>3, <2>4, <2>5 DEF Next
<1>3. Fresh' = FreshOf(program', state', file', runs')
  BY DEF Fresh
<1>. QED  BY <1>1, <1>2, <1>3 DEF Fresh

(* What a node of a calm run has settled on under a digest is fresh.         *)
CurrentAreFresh ==
    phase = "run" /\ calm => \A n \in DOMAIN program :
        outcome[n] \in {"Ran", "Reused"} /\ Held(n) /\ slots[n].cur # None =>
            slots[n].val.made = Fresh[n]

\* A value under an honest digest, stamped as the plan has it, is what the whole
\* program computes now.
LEMMA CurrentIsFresh ==
    /\ Typed /\ RunIsPlanned /\ MemoIsOfTheFile /\ OutcomesAreSettled
    /\ SettledAreCurrent /\ DigestsAreStamped /\ KeysAreHonest
    => CurrentAreFresh
<1>. SUFFICES ASSUME Typed, RunIsPlanned, MemoIsOfTheFile, OutcomesAreSettled, SettledAreCurrent,
                     DigestsAreStamped, KeysAreHonest, phase = "run", calm, NEW n \in DOMAIN program,
                     outcome[n] \in {"Ran", "Reused"}, Held(n), slots[n].cur # None
              PROVE  slots[n].val.made = Fresh[n]
  BY DEF CurrentAreFresh
<1>1. IsProgram(program) /\ n \in Nodes /\ file \in Nat /\ IsRunnable(state[n])
  BY ProgramIsProgram DEF Typed, OutcomesAreSettled, MemoIsOfTheFile
<1>2. slots[n].cur = Fresh[n] /\ slots[n].cur.names \subseteq {file}
  <2>1. AllSupplied(program, state, demand)
    BY DEF RunIsPlanned, AllSupplied
  <2>2. AllStamped(program, state, slots, memo)
    BY DEF DigestsAreStamped, AllStamped
  <2>3. memo = 0 \/ memo = file
    BY DEF MemoIsOfTheFile
  <2>4. AllFresh(program, state, slots, file, runs)
    <3>1. IsProgram(program)
      BY <1>1
    <3>. QED  BY Zenon, <2>1, <2>2, <2>3, <3>1, DigestsAreFresh
  <2>. QED  BY <1>1, <2>4 DEF Fresh, AllFresh
<1>3. slots[n].val # Nothing /\ slots[n].val.under = slots[n].cur
  BY <1>1 DEF SettledAreCurrent, Held
<1>4. ~Outdated(slots[n].cur)
  BY <1>1, <1>2 DEF Outdated
<1>. QED  BY <1>1, <1>2, <1>3, <1>4 DEF KeysAreHonest

\* Every step keeps what a calm run has settled on fresh: a node under a digest
\* by what the digest says, one without by its own lambda, in this very run.
LEMMA FreshStep ==
    ASSUME Typed, [Next]_vars, RunIsFresh, InputsAreDelivered,
           Typed', RunIsPlanned', MemoIsOfTheFile', OutcomesAreSettled', SettledAreCurrent',
           DigestsAreStamped', KeysAreHonest'
    PROVE  RunIsFresh'
<1>0. ProgramTyped /\ TurnTyped /\ DOMAIN program \subseteq Nodes /\ 0 \notin Nodes
  BY ProgramIsProgram DEF Typed
<1>1. ASSUME phase' = "run", calm', NEW n \in DOMAIN program', outcome'[n] \in {"Ran", "Reused"},
             Held(n)', slots'[n].cur # None
      PROVE  slots'[n].val.made = Fresh'[n]
  <2>1. CurrentAreFresh'
    BY CurrentIsFresh, PTL
  <2>. QED  BY <1>1, <2>1 DEF CurrentAreFresh
<1>2. ASSUME phase' = "run", calm', NEW n \in DOMAIN program', outcome'[n] \in {"Ran", "Reused"},
             Held(n)', slots'[n].cur = None
      PROVE  slots'[n].val.made = Fresh'[n]
  <2>1. CASE \E x \in Nodes : Turn(x)
    <3>1. PICK x \in Nodes : Turn(x)
      BY <2>1
    <3>2. /\ phase = "run" /\ x \in DOMAIN program /\ outcome[x] = "Pending"
          /\ (turn = NoTurn \/ turn.node = x)
          /\ \/ outcome' = outcome
             \/ \E how \in {"Cut", "Reused", "Skipped", "Ran", "Failed"} :
                   outcome' = [outcome EXCEPT ![x] = how]
      BY <1>0, <3>1, TurnFrame
    <3>3. calm /\ program' = program /\ Fresh' = Fresh
      BY <1>0, <1>2, <3>2, CalmFrame
    <3>4. n \in DOMAIN program /\ n \in Nodes
      BY <1>0, <3>3
    <3>5. CASE n # x
      <4>1. outcome'[n] = outcome[n]
        BY <1>0, <3>2, <3>4, <3>5 DEF TurnTyped
      <4>2. Kept(n)
        BY <3>1, <3>4, <3>5, TurnSlots DEF OtherSlotsKept
      <4>3. slots[n].val # Nothing /\ slots'[n].val.made = slots[n].val.made
        BY <1>2, <4>2, ValueIsSomething DEF Kept, Lessened, Held
      <4>4. ~Invoking(n)
        BY <3>2, <3>5 DEF Invoking, NoTurn
      <4>5. slots[n].val.made = Fresh[n]
        BY <1>2, <3>2, <3>3, <3>4, <4>1, <4>3, <4>4 DEF RunIsFresh, Held
      <4>. QED  BY <3>3, <4>3, <4>5
    <3>6. CASE n = x
      <4>1. outcome' # outcome
        BY <1>2, <3>2, <3>6
      <4>2. ~(PassCut(x) \/ IdentifyFails(x) \/ LateMiss(x) \/ StartInvoke(x))
        <5>1. PassCut(x) => outcome'[x] \in {"Cut", "Pending"}
          BY <3>2 DEF PassCut, Settle
        <5>2. IdentifyFails(x) \/ LateMiss(x) \/ StartInvoke(x) => outcome' = outcome
          BY DEF IdentifyFails, LateMiss, StartInvoke
        <5>. QED  BY <1>2, <3>6, <4>1, <5>1, <5>2
      <4>3. slots'[x].val # Nothing
        BY <1>2, <3>6 DEF Held
      <4>4. \A slot : ~ServedFrom(x, slot)
        BY <1>2, <3>6, <4>3 DEF ServedFrom, Released, IsCurrent
      <4>5. PICK ports : Succeed(x) /\ ProducedBy(x, ports)
        BY <3>1, <4>2, <4>3, <4>4, TurnSlots DEF EmptiedBy
      <4>6. Invoking(x) /\ slots'[x].val.made = turn.made
        BY <4>3, <4>5 DEF Succeed, Invoking, ProducedBy, Released
      <4>7. turn.made = Fresh[x]
        BY <3>3, <4>6 DEF InputsAreDelivered, Invoking
      <4>. QED  BY <3>3, <3>6, <4>6, <4>7
    <3>. QED  BY <3>5, <3>6
  <2>2. CASE ~ \E x \in Nodes : Turn(x)
    <3>1. (\E asked \in Seeds : BeginRun(asked)) => \A m \in DOMAIN program' : outcome'[m] = "Pending"
      BY DEF BeginRun
    <3>2. /\ UNCHANGED <<program, seeds, state, demand, slots, disk>>
          /\ UNCHANGED <<phase, reads, outcome, turn, memo, runs>>
      BY <1>2, <2>2, <3>1, OtherFrame
    <3>3. calm /\ Fresh' = Fresh /\ phase = "run"
      BY <1>0, <1>2, <3>2, CalmFrame
    <3>4. Held(n) /\ n \in DOMAIN program /\ outcome[n] \in {"Ran", "Reused"}
      BY <1>2, <3>2 DEF Held, Invoking
    <3>5. slots[n].val.made = Fresh[n]
      BY <3>3, <3>4 DEF RunIsFresh
    <3>. QED  BY <3>2, <3>3, <3>5
  <2>. QED  BY <2>1, <2>2
<1>. QED  BY <1>1, <1>2 DEF RunIsFresh

\* What a lambda is handed in a calm run makes its result the node's afresh.
LEMMA ComputesAfresh ==
    ASSUME Typed, RunIsPlanned, OutcomesAreSettled, ReadsAreThere, RunIsFresh, calm,
           NEW n \in Nodes, StartInvoke(n)
    PROVE  Computed(n) = Fresh[n]
<1>. DEFINE given == [k \in DOMAIN program[n].inputs |-> Delivered(program[n].inputs[k])]
            anew  == [k \in DOMAIN program[n].inputs |->
                        FreshInput(program[n].inputs[k], state, file, Fresh)]
<1>1. /\ phase = "run" /\ n \in DOMAIN program
      /\ \A k \in DOMAIN program[n].inputs :
           LET i == program[n].inputs[k] IN
           /\ Delivery(i, state) \in {"unbound", "file", "wire"}
           /\ Delivery(i, state) = "wire" =>
                /\ i.from \in DOMAIN program
                /\ outcome[i.from] \in {"Ran", "Reused"}
                /\ Held(i.from) /\ i.port \in slots[i.from].val.ports
  BY InvokeReads
<1>2. ASSUME NEW k \in DOMAIN program[n].inputs PROVE given[k] = anew[k]
  <2>. DEFINE i == program[n].inputs[k]
  <2>1. given[k] = Delivered(i) /\ anew[k] = FreshInput(i, state, file, Fresh)
    OBVIOUS
  <2>2. CASE Delivery(i, state) = "unbound"
    BY <2>1, <2>2 DEF Delivered, FreshInput
  <2>3. CASE Delivery(i, state) = "file"
    BY <2>1, <2>3 DEF Delivered, FreshInput
  <2>4. CASE Delivery(i, state) = "wire"
    <3>1. i.port \in slots[i.from].val.ports /\ slots[i.from].val.made = Fresh[i.from]
      BY <1>1, <2>4 DEF RunIsFresh
    <3>. QED  BY <2>1, <2>4, <3>1 DEF Delivered, FreshInput
  <2>. QED  BY <1>1, <2>2, <2>3, <2>4
<1>3. given = anew
  BY <1>2
<1>4. Computed(n) = Term(program[n].key, given, Stamp(n))
  BY DEF Computed
<1>5. Fresh[n] = FreshTerm(program, state, file, runs, Fresh, n)
  BY <1>1, ProgramIsProgram, FreshAt DEF Typed, Fresh
<1>6. Fresh[n] = Term(program[n].key, anew, Stamp(n))
  BY <1>5 DEF FreshTerm, Stamp
<1>. QED  BY <1>3, <1>4, <1>6

\* Every step keeps a lambda at work on what the whole program delivers now.
LEMMA DeliveredStep ==
    ASSUME Typed, RunIsPlanned, OutcomesAreSettled, ReadsAreThere, RunIsFresh,
           InputsAreDelivered, [Next]_vars
    PROVE  InputsAreDelivered'
<1>0. ProgramTyped /\ TurnTyped /\ NoTurn.at = "none"
  BY DEF Typed, NoTurn
<1>. SUFFICES ASSUME turn'.at = "invoking", calm'
              PROVE  turn'.made = Fresh'[turn'.node]
  BY DEF InputsAreDelivered
<1>1. ASSUME NEW n \in Nodes, Turn(n) PROVE turn'.made = Fresh'[turn'.node]
  <2>1. StartInvoke(n)
    <3>1. IdentifyFails(n) \/ LateMiss(n) => turn'.at = "keyed"
      BY DEF IdentifyFails, LateMiss, NoTurn
    <3>2. PassCut(n) \/ ServeReuse(n) \/ IdentifyCancelled(n) \/ LateServe(n) \/ SkipUpstream(n)
            \/ Succeed(n) \/ Fail(n) => turn' = NoTurn
      BY DEF PassCut, ServeReuse, IdentifyCancelled, LateServe, SkipUpstream, Succeed, Fail,
         Unkeyed, Ready
    <3>. QED  BY <1>0, <1>1, <3>1, <3>2 DEF Turn
  <2>2. phase = "run" /\ phase' = "run"
    BY <1>0, <1>1, TurnFrame
  <2>3. calm /\ Fresh' = Fresh
    BY <1>0, <2>2, CalmFrame
  <2>4. turn'.node = n /\ turn'.made = Computed(n)
    BY <2>1 DEF StartInvoke
  <2>. QED  BY <2>1, <2>3, <2>4, ComputesAfresh
<1>2. CASE ~ \E n \in Nodes : Turn(n)
  <2>1. (\E asked \in Seeds : BeginRun(asked)) => turn' = NoTurn
    BY DEF BeginRun
  <2>2. phase = "rest" => turn = NoTurn
    BY <1>0 DEF TurnTyped, MidTurn
  <2>3. UNCHANGED <<phase, turn>> /\ phase = "run"
    BY <1>0, <1>2, <2>1, <2>2, OtherFrame DEF TurnTyped
  <2>4. calm /\ Fresh' = Fresh
    BY <1>0, <2>3, CalmFrame
  <2>. QED  BY <2>3, <2>4 DEF InputsAreDelivered
<1>. QED  BY <1>1, <1>2

-----------------------------------------------------------------------------
(* What holds of a run's plan, of its turns and of the reads still to come,   *)
(* whatever the programs are...                                               *)
Planned ==
    /\ RunIsPlanned /\ MemoIsOfTheFile /\ OutcomesAreSettled /\ ReadsAreThere
    /\ SettledAreCurrent

(* ...and what a digest stands for, where every path wire leads from a port  *)
(* its producer always binds.                                                *)
Honest ==
    /\ PortsAreBound /\ DigestsAreStamped /\ KeysAreHonest /\ MadeAsStamped
    /\ RunIsFresh /\ InputsAreDelivered

\* The conjuncts of Planned hold at first.
LEMMA PlannedInit == Init => Planned
<1>. SUFFICES ASSUME Init PROVE Planned
  OBVIOUS
<1>. QED  BY DEF Init, Planned, RunIsPlanned, MemoIsOfTheFile, OutcomesAreSettled, ReadsAreThere,
            SettledAreCurrent

\* Every step keeps the conjuncts of Planned.
LEMMA PlannedKept == Typed /\ Planned /\ [Next]_vars => Planned'
BY PlannedStep, MemoStep, OutcomesStep, ThereStep, CurrentStep DEF Planned

\* Each run is planned as the schedule promises: a scheduled node is wired to
\* none the run leaves out, what it needs is demanded of a producer that is
\* scheduled before it, and until its turn what it reads is still there.
THEOREM PlannedHolds == Spec => []Planned
<1>1. Typed /\ Planned /\ [Next]_vars => Planned'
  BY PlannedKept
<1>. QED  BY <1>1, PlannedInit, TypedHolds, PTL DEF Spec

\* The conjuncts of Honest hold at first.
LEMMA HonestInit == Init => Honest
<1>. SUFFICES ASSUME Init PROVE Honest
  OBVIOUS
<1>1. \A n \in Nodes : slots[n].val = Nothing /\ disk[n] = Nothing
  BY DEF Init, EmptySlot
<1>2. turn.at = "none" /\ phase = "rest"
  BY DEF Init, NoTurn
<1>. QED  BY <1>1, <1>2 DEF Honest, PortsAreBound, DigestsAreStamped, KeysAreHonest, MadeAsStamped,
            RunIsFresh, InputsAreDelivered, Held, Invoking

\* Every step keeps the conjuncts of Honest.
LEMMA HonestKept ==
    ASSUME PathsAreBound(Programs)
    PROVE  Typed /\ Releases /\ Planned /\ Honest /\ [Next]_vars /\ Typed' /\ Planned' => Honest'
<1>. SUFFICES ASSUME Typed, Releases, Planned, Honest, [Next]_vars, Typed', Planned'
              PROVE  Honest'
  OBVIOUS
<1>1. RunIsPlanned /\ MemoIsOfTheFile /\ OutcomesAreSettled /\ ReadsAreThere /\ SettledAreCurrent
  BY DEF Planned
<1>2. /\ RunIsPlanned' /\ MemoIsOfTheFile' /\ OutcomesAreSettled' /\ ReadsAreThere'
      /\ SettledAreCurrent'
  BY DEF Planned
<1>3. /\ PortsAreBound /\ DigestsAreStamped /\ KeysAreHonest /\ MadeAsStamped /\ RunIsFresh
      /\ InputsAreDelivered
  BY DEF Honest
<1>4. DigestsAreStamped'
  BY <1>1, <1>3, StampedStep
<1>5. PortsAreBound'
  BY <1>3, BoundStep
<1>6. MadeAsStamped'
  BY <1>1, <1>3, MadeStep
<1>7. KeysAreHonest'
  BY <1>1, <1>3, HonestStep
<1>8. RunIsFresh'
  BY <1>2, <1>3, <1>4, <1>7, FreshStep
<1>9. InputsAreDelivered'
  BY <1>1, <1>3, DeliveredStep
<1>. QED  BY <1>4, <1>5, <1>6, <1>7, <1>8, <1>9 DEF Honest

\* A digest stands for what it says, in RAM, on disk, in a lambda at work and
\* in what a run has settled on.
THEOREM HonestHolds ==
    ASSUME PathsAreBound(Programs)
    PROVE  Spec => []Honest
<1>1. Typed /\ Releases /\ Planned /\ Honest /\ [Next]_vars /\ Typed' /\ Planned' => Honest'
  BY HonestKept
<1>. QED  BY <1>1, HonestInit, TypedHolds, ReleasesHold, PlannedHolds, PTL DEF Spec

\* A value held or stored under a digest was computed from what the digest
\* says, or no later run comes to that digest: across installs, evictions,
\* failed stores, rot, cancelled runs, crashes and files that change mid-run.
THEOREM DigestsAreHonest ==
    ASSUME PathsAreBound(Programs)
    PROVE  Spec => []KeysAreHonest
<1>1. Honest => KeysAreHonest
  BY DEF Honest
<1>. QED  BY <1>1, HonestHolds, PTL

\* Whatever a run serves, computed, resident or decoded, is what the whole
\* program computes now, unless the file changed under the run.
THEOREM ServedIsFresh ==
    ASSUME PathsAreBound(Programs)
    PROVE  Spec => []RunIsFresh
<1>1. Honest => RunIsFresh
  BY DEF Honest
<1>. QED  BY <1>1, HonestHolds, PTL

\* A lambda is handed every value its inputs are wired to, each of this run.
THEOREM LambdasAreFed ==
    ASSUME PathsAreBound(Programs)
    PROVE  Spec => []InputsAreDelivered
<1>1. Honest => InputsAreDelivered
  BY DEF Honest
<1>. QED  BY <1>1, HonestHolds, PTL

-----------------------------------------------------------------------------
(* What an eviction takes: the cone of what reads a node, as the code walks  *)
(* it, and as the least set closed under being read by a node of it.         *)
ConeBody(env, reached, n) ==
    n \in env.from \/ \E m \in Producers(env.g, n) : reached[m]
Coning == INSTANCE Recursion WITH Body <- ConeBody

IsClosed(g, on, s) == \A m \in on : (\E p \in Producers(g, m) : p \in s) => m \in s

Reach(g, from, on) ==
    {n \in on : \A s \in SUBSET on : from \cap on \subseteq s /\ IsClosed(g, on, s) => n \in s}

\* The cone holds the nodes it starts from, and every reader of a node of it.
LEMMA ConeIsClosed ==
    ASSUME NEW g, IsProgram(g), NEW from
    PROVE  /\ ConsumerCone(g, from) \subseteq DOMAIN g
           /\ from \cap DOMAIN g \subseteq ConsumerCone(g, from)
           /\ IsClosed(g, DOMAIN g, ConsumerCone(g, from))
<1>. DEFINE env == [g |-> g, from |-> from]
            reached == CHOOSE f : f = [n \in DOMAIN g |-> n \in from \/ \E m \in Producers(g, n) : f[m]]
<1>1. Coning!ReadsBelow(env, DOMAIN g, Forward(g))
  <2>1. SUFFICES ASSUME NEW n \in DOMAIN g, NEW f, NEW h,
                        \A m \in DOMAIN g : Forward(g)[m] < Forward(g)[n] => f[m] = h[m]
                 PROVE  ConeBody(env, f, n) = ConeBody(env, h, n)
    BY Zenon DEF Coning!ReadsBelow
  <2>2. \A m \in Producers(g, n) : m \in DOMAIN g /\ m < n
    BY DEF Producers, Wired, IsProgram
  <2>3. \A m \in Producers(g, n) : f[m] = h[m]
    BY <2>1, <2>2, RanksAreBounded
  <2>. QED  BY <2>3 DEF ConeBody
<1>2. \E f : f = [n \in DOMAIN g |-> ConeBody(env, f, n)]
  <2>. HIDE DEF env
  <2>. QED  BY <1>1, RanksAreBounded, Coning!RecursionSolved
<1>3. \A f : [n \in DOMAIN g |-> ConeBody(env, f, n)] =
             [n \in DOMAIN g |-> n \in from \/ \E m \in Producers(g, n) : f[m]]
  BY DEF ConeBody
<1>4. \E f : f = [n \in DOMAIN g |-> n \in from \/ \E m \in Producers(g, n) : f[m]]
  <2>. HIDE DEF env
  <2>1. PICK f : f = [n \in DOMAIN g |-> ConeBody(env, f, n)]
    BY Zenon, <1>2
  <2>2. [n \in DOMAIN g |-> ConeBody(env, f, n)] =
        [n \in DOMAIN g |-> n \in from \/ \E m \in Producers(g, n) : f[m]]
    BY Zenon, <1>3
  <2>3. f = [n \in DOMAIN g |-> n \in from \/ \E m \in Producers(g, n) : f[m]]
    BY Zenon, <2>1, <2>2
  <2>. QED  BY Zenon, <2>3
<1>5. reached = [n \in DOMAIN g |-> n \in from \/ \E m \in Producers(g, n) : reached[m]]
  BY Zenon, <1>4
<1>6. ConsumerCone(g, from) = {n \in DOMAIN g : reached[n]}
  BY Zenon DEF ConsumerCone
<1>. HIDE DEF reached
<1>7. \A n \in DOMAIN g : reached[n] = (n \in from \/ \E m \in Producers(g, n) : reached[m])
  BY Zenon, <1>5
<1>8. ConsumerCone(g, from) \subseteq DOMAIN g
  BY Zenon, <1>6
<1>9. \A n \in from \cap DOMAIN g : n \in ConsumerCone(g, from)
  BY Zenon, <1>6, <1>7
<1>10. IsClosed(g, DOMAIN g, ConsumerCone(g, from))
  BY Zenon, <1>6, <1>7 DEF IsClosed
<1>. QED  BY <1>8, <1>9, <1>10

\* What is reached holds what it starts from, is closed, and is no more than
\* that: a node of it is one it starts from or reads another of it.
LEMMA ReachIsLeast ==
    ASSUME NEW g, NEW from, NEW on
    PROVE  /\ Reach(g, from, on) \subseteq on /\ from \cap on \subseteq Reach(g, from, on)
           /\ IsClosed(g, on, Reach(g, from, on))
           /\ \A n \in Reach(g, from, on) :
                n \in from \/ \E p \in Producers(g, n) : p \in Reach(g, from, on)
           /\ \A s \in SUBSET on : from \cap on \subseteq s /\ IsClosed(g, on, s) =>
                Reach(g, from, on) \subseteq s
<1>. DEFINE R == Reach(g, from, on)
<1>1. R \subseteq on /\ from \cap on \subseteq R
  BY DEF Reach
<1>2. ASSUME NEW s \in SUBSET on, from \cap on \subseteq s, IsClosed(g, on, s)
      PROVE  R \subseteq s
  BY <1>2 DEF Reach
<1>3. IsClosed(g, on, R)
  <2>1. SUFFICES ASSUME NEW m \in on, NEW p \in Producers(g, m), p \in R,
                        NEW s \in SUBSET on, from \cap on \subseteq s, IsClosed(g, on, s)
                 PROVE  m \in s
    BY DEF IsClosed, Reach
  <2>2. p \in s
    BY <1>2, <2>1
  <2>. QED  BY <2>1, <2>2 DEF IsClosed
<1>. HIDE DEF R
<1>4. ASSUME NEW n \in R, n \notin from, ~ \E p \in Producers(g, n) : p \in R
      PROVE  FALSE
  <2>. DEFINE s == R \ {n}
  <2>1. s \in SUBSET on /\ from \cap on \subseteq s
    BY <1>1, <1>4
  <2>2. IsClosed(g, on, s)
    BY <1>3, <1>4 DEF IsClosed
  <2>3. R \subseteq s
    <3>. HIDE DEF s
    <3>. QED  BY <1>2, <2>1, <2>2
  <2>. QED  BY <1>4, <2>3
<1>. QED  BY <1>1, <1>2, <1>3, <1>4 DEF R

\* Less to start from reaches less, over fewer nodes too.
LEMMA ReachIsMonotone ==
    ASSUME NEW g, NEW from, NEW less, less \subseteq from, NEW on, NEW fewer, fewer \subseteq on
    PROVE  Reach(g, less, fewer) \subseteq Reach(g, from, on)
<1>. DEFINE s == Reach(g, from, on) \cap fewer
<1>1. /\ from \cap on \subseteq Reach(g, from, on) /\ IsClosed(g, on, Reach(g, from, on))
  BY ReachIsLeast
<1>2. s \in SUBSET fewer /\ less \cap fewer \subseteq s
  BY <1>1
<1>3. IsClosed(g, fewer, s)
  BY <1>1 DEF IsClosed
<1>. HIDE DEF s
<1>4. Reach(g, less, fewer) \subseteq s
  BY <1>2, <1>3, ReachIsLeast
<1>. QED  BY <1>4 DEF s

\* A cone evicted adds no more than itself to what the evicted nodes reach.
LEMMA ReachOfCone ==
    ASSUME NEW g, NEW gone, NEW cone, cone \subseteq DOMAIN g, IsClosed(g, DOMAIN g, cone)
    PROVE  Reach(g, gone \cup cone, DOMAIN g) \subseteq Reach(g, gone, DOMAIN g) \cup cone
<1>. DEFINE s == Reach(g, gone, DOMAIN g) \cup cone
<1>1. /\ Reach(g, gone, DOMAIN g) \subseteq DOMAIN g
      /\ gone \cap DOMAIN g \subseteq Reach(g, gone, DOMAIN g)
      /\ IsClosed(g, DOMAIN g, Reach(g, gone, DOMAIN g))
  BY ReachIsLeast
<1>2. s \in SUBSET DOMAIN g /\ (gone \cup cone) \cap DOMAIN g \subseteq s
  BY <1>1
<1>3. IsClosed(g, DOMAIN g, s)
  BY <1>1 DEF IsClosed
<1>. HIDE DEF s
<1>4. Reach(g, gone \cup cone, DOMAIN g) \subseteq s
  BY <1>2, <1>3, ReachIsLeast
<1>. QED  BY <1>4 DEF s

-----------------------------------------------------------------------------
(* The digests of an evicted node and of what reads it.                      *)
Downstream(g, gone) == Reach(g, gone, DOMAIN g)

(* Digests, by node, that go without the nodes evicted: none of them is an   *)
(* evicted node's, and where one of a node downstream folds a wire from      *)
(* another node downstream, it folds that node's.                            *)
Spares(g, gone, dig) ==
    \A m \in Downstream(g, gone) : dig[m] # None =>
        /\ m \notin gone
        /\ \A k \in Wired(g, m) :
            LET p == g[m].inputs[k].from IN
            p \in Downstream(g, gone) =>
                dig[m].ins[k] = Unset \/ (dig[p] # None /\ dig[m].ins[k].of = dig[p])

IsSpare(g, gone, n, digest) == \E dig : Spares(g, gone, dig) /\ dig[n] = digest

\* Digests that go without the nodes evicted go without fewer.
LEMMA SparesFewer ==
    ASSUME NEW g, NEW gone, NEW fewer, fewer \subseteq gone, NEW dig, Spares(g, gone, dig)
    PROVE  Spares(g, fewer, dig)
<1>1. Downstream(g, fewer) \subseteq Downstream(g, gone)
  BY ReachIsMonotone DEF Downstream
<1>. QED  BY <1>1 DEF Spares

\* A node outside a cone evicted keeps digests that go without the cone.
LEMMA SparesCone ==
    ASSUME NEW g, NEW gone, NEW cone, cone \subseteq DOMAIN g, IsClosed(g, DOMAIN g, cone),
           NEW n \in DOMAIN g, n \notin cone, NEW digest, IsSpare(g, gone, n, digest)
    PROVE  IsSpare(g, gone \cup cone, n, digest)
<1>1. PICK dig : Spares(g, gone, dig) /\ dig[n] = digest
  BY DEF IsSpare
<1>. DEFINE less == [m \in DOMAIN g |-> IF m \in cone THEN None ELSE dig[m]]
<1>2. /\ Downstream(g, gone \cup cone) \subseteq Downstream(g, gone) \cup cone
      /\ Downstream(g, gone \cup cone) \subseteq DOMAIN g
  BY ReachOfCone, ReachIsLeast DEF Downstream
<1>3. less[n] = digest
  BY <1>1
<1>4. \A m \in DOMAIN g : less[m] = IF m \in cone THEN None ELSE dig[m]
  OBVIOUS
<1>. HIDE DEF less
<1>5. ASSUME NEW m \in Downstream(g, gone \cup cone), less[m] # None
      PROVE  /\ m \notin gone \cup cone
             /\ \A k \in Wired(g, m) :
                  LET p == g[m].inputs[k].from IN
                  p \in Downstream(g, gone \cup cone) =>
                      less[m].ins[k] = Unset \/ (less[p] # None /\ less[m].ins[k].of = less[p])
  <2>1. m \in DOMAIN g /\ m \notin cone /\ less[m] = dig[m] /\ m \in Downstream(g, gone)
    BY <1>2, <1>4, <1>5
  <2>2. m \notin gone
    BY <1>1, <1>5, <2>1 DEF Spares
  <2>3. ASSUME NEW k \in Wired(g, m), g[m].inputs[k].from \in Downstream(g, gone \cup cone)
        PROVE  \/ less[m].ins[k] = Unset
               \/ /\ less[g[m].inputs[k].from] # None
                  /\ less[m].ins[k].of = less[g[m].inputs[k].from]
    <3>. DEFINE p == g[m].inputs[k].from
    <3>1. p \in Producers(g, m)
      BY DEF Producers
    <3>2. p \notin cone
      BY <2>1, <3>1 DEF IsClosed
    <3>3. p \in DOMAIN g /\ less[p] = dig[p] /\ p \in Downstream(g, gone)
      BY <1>2, <1>4, <2>3, <3>2
    <3>. QED  BY <1>1, <1>5, <2>1, <3>3 DEF Spares
  <2>. QED  BY <2>1, <2>2, <2>3
<1>6. Spares(g, gone \cup cone, less)
  BY <1>5 DEF Spares
<1>. QED  BY <1>3, <1>6 DEF IsSpare

\* A node a run schedules folds of a wire nothing, or the digest of the
\* producer, which the run schedules too.
LEMMA StampedWire ==
    ASSUME NEW g, IsProgram(g), NEW st, NEW wanted, AllSupplied(g, st, wanted), NEW s, NEW known,
           AllStamped(g, st, s, known), NEW m \in DOMAIN g, IsRunnable(st[m]), s[m].cur # None,
           NEW k \in Wired(g, m), NEW p, p = g[m].inputs[k].from
    PROVE  /\ p \in DOMAIN g /\ p < m
           /\ \/ s[m].cur.ins[k] = Unset /\ st[p] = "Disabled"
              \/ /\ Delivery(g[m].inputs[k], st) = "wire"
                 /\ IsRunnable(st[p]) /\ s[p].cur # None
                 /\ s[m].cur.ins[k] # Unset /\ s[m].cur.ins[k].of = s[p].cur
<1>. DEFINE i == g[m].inputs[k]
            items == [j \in DOMAIN g[m].inputs |->
                LET h == g[m].inputs[j] IN ItemOf(h, Delivery(h, st), s[h.from].cur, known)]
<1>1. k \in DOMAIN g[m].inputs /\ i.kind = "wire"
  BY DEF Wired
<1>2. p \in DOMAIN g /\ p < m
  BY <1>1 DEF IsProgram
<1>3. Stamped(g, st, s, known, m) /\ Supplied(g, st, wanted, m)
  BY DEF AllStamped, AllSupplied
<1>4. s[m].cur = Term(g[m].key, items, 0) /\ IsNamed(i, Delivery(i, st), s[p].cur, known)
  BY <1>1, <1>3 DEF Stamped
<1>5. items[k] = ItemOf(i, Delivery(i, st), s[p].cur, known)
  BY <1>1
<1>6. /\ Delivery(i, st) \in {"unbound", "file", "wire"}
      /\ Delivery(i, st) = "wire" => IsRunnable(st[p])
  BY <1>1, <1>3, SuppliedInputs
<1>7. Delivery(i, st) \in {"unbound", "wire"} /\ (Delivery(i, st) = "unbound" => st[p] = "Disabled")
  BY <1>1, <1>6 DEF Delivery
<1>. HIDE DEF items
<1>8. s[m].cur.ins[k] = items[k]
  BY <1>4 DEF Term
<1>9. CASE Delivery(i, st) = "unbound"
  BY <1>2, <1>5, <1>7, <1>8, <1>9 DEF ItemOf
<1>10. CASE Delivery(i, st) = "wire"
  <2>1. s[p].cur # None
    BY <1>4, <1>10 DEF IsNamed
  <2>2. items[k] = NamedBy(s[p].cur, i.port, known) \/ items[k] = Output(s[p].cur, i.port)
    BY <1>5, <1>10 DEF ItemOf
  <2>3. items[k].of = s[p].cur
    BY <2>2 DEF NamedBy, Output
  <2>4. "of" \in DOMAIN items[k] /\ "of" \notin DOMAIN Unset
    BY <2>2 DEF NamedBy, Output, Unset
  <2>5. items[k] # Unset
    BY <2>4
  <2>. QED  BY <1>2, <1>6, <1>8, <1>10, <2>1, <2>3, <2>5
<1>. QED  BY <1>7, <1>9, <1>10

(* Digests of a run that go without the nodes evicted: each is the one       *)
(* stamped, and those of the nodes settled with a value are among them.      *)
RunSpares(g, gone, s, how, dig) ==
    /\ Spares(g, gone, dig)
    /\ \A m \in Downstream(g, gone) :
        /\ dig[m] = None \/ dig[m] = s[m].cur
        /\ how[m] \in {"Ran", "Reused"} => dig[m] = s[m].cur

\* A value that goes without the nodes evicted, served under the digest
\* stamped, joins those of the run: what its digest folds is what is stamped.
LEMMA ServedJoins ==
    ASSUME NEW g, IsProgram(g), NEW st, NEW wanted, AllSupplied(g, st, wanted), NEW s, NEW known,
           AllStamped(g, st, s, known), NEW gone, NEW how, NEW dig, RunSpares(g, gone, s, how, dig),
           NEW n \in DOMAIN g, IsRunnable(st[n]), IsSpare(g, gone, n, s[n].cur),
           NEW then, \A m \in DOMAIN g : m # n => then[m] = how[m]
    PROVE  \E d : RunSpares(g, gone, s, then, d)
<1>1. PICK other : Spares(g, gone, other) /\ other[n] = s[n].cur
  BY DEF IsSpare
<1>. DEFINE Agrees(m) == IsRunnable(st[m]) /\ other[m] = s[m].cur
            d == [m \in DOMAIN g |-> IF Agrees(m) THEN s[m].cur ELSE dig[m]]
            down == Downstream(g, gone)
<1>2. \A m \in DOMAIN g : d[m] = IF Agrees(m) THEN s[m].cur ELSE dig[m]
  OBVIOUS
<1>3. down \subseteq DOMAIN g
  BY ReachIsLeast DEF Downstream
<1>4. Agrees(n)
  BY <1>1
<1>. HIDE DEF d
<1>5. \A m \in down : /\ d[m] = None \/ d[m] = s[m].cur
                      /\ dig[m] # None => d[m] = s[m].cur /\ dig[m] = s[m].cur
                      /\ Agrees(m) => d[m] = s[m].cur
  BY <1>2, <1>3 DEF RunSpares
<1>6. ASSUME NEW m \in down, d[m] # None
      PROVE  /\ m \notin gone
             /\ \A k \in Wired(g, m) :
                  LET p == g[m].inputs[k].from IN
                  p \in down => d[m].ins[k] = Unset \/ (d[p] # None /\ d[m].ins[k].of = d[p])
  <2>1. d[m] = s[m].cur /\ m \in DOMAIN g /\ s[m].cur # None
    BY <1>3, <1>5, <1>6
  <2>2. CASE Agrees(m)
    <3>1. m \notin gone
      BY <1>1, <2>1, <2>2 DEF Spares
    <3>2. ASSUME NEW k \in Wired(g, m), NEW p, p = g[m].inputs[k].from, p \in down,
                 d[m].ins[k] # Unset
          PROVE  d[p] # None /\ d[m].ins[k].of = d[p]
      <4>1. /\ IsRunnable(st[p]) /\ s[p].cur # None
            /\ s[m].cur.ins[k] # Unset /\ s[m].cur.ins[k].of = s[p].cur
        BY <2>1, <2>2, <3>2, StampedWire
      <4>2. other[m].ins[k].of = other[p]
        BY <1>1, <2>1, <2>2, <3>2, <4>1 DEF Spares
      <4>3. Agrees(p)
        BY <2>2, <4>1, <4>2
      <4>4. d[p] = s[p].cur
        BY <1>5, <3>2, <4>3
      <4>. QED  BY <2>1, <4>1, <4>4
    <3>. QED  BY <3>1, <3>2
  <2>3. CASE ~Agrees(m)
    <3>1. dig[m] = d[m] /\ dig[m] # None
      BY <1>2, <1>6, <2>1, <2>3
    <3>2. m \notin gone
      BY <3>1 DEF RunSpares, Spares
    <3>3. ASSUME NEW k \in Wired(g, m), NEW p, p = g[m].inputs[k].from, p \in down
          PROVE  d[m].ins[k] = Unset \/ (d[p] # None /\ d[m].ins[k].of = d[p])
      <4>1. dig[m].ins[k] = Unset \/ (dig[p] # None /\ dig[m].ins[k].of = dig[p])
        BY <3>1, <3>3 DEF RunSpares, Spares
      <4>2. dig[p] # None => d[p] = dig[p]
        BY <1>5, <3>3
      <4>. QED  BY <3>1, <4>1, <4>2
    <3>. QED  BY <3>2, <3>3
  <2>. QED  BY <2>2, <2>3
<1>7. Spares(g, gone, d)
  BY <1>6 DEF Spares
<1>8. ASSUME NEW m \in down, then[m] \in {"Ran", "Reused"} PROVE d[m] = s[m].cur
  <2>1. CASE m = n
    BY <1>4, <1>5, <1>8, <2>1
  <2>2. CASE m # n
    <3>1. dig[m] = s[m].cur
      BY <1>3, <1>8, <2>2 DEF RunSpares
    <3>. QED  BY <1>2, <1>3, <1>8, <3>1
  <2>. QED  BY <2>1, <2>2
<1>. QED  BY <1>5, <1>7, <1>8 DEF RunSpares

\* A node that returns joins the run's, and is evicted no more.
LEMMA ReturnedJoins ==
    ASSUME NEW g, IsProgram(g), NEW st, NEW wanted, AllSupplied(g, st, wanted), NEW s, NEW known,
           AllStamped(g, st, s, known), NEW gone, NEW how, NEW dig, RunSpares(g, gone, s, how, dig),
           NEW n \in DOMAIN g, IsRunnable(st[n]),
           \A k \in Wired(g, n) : Delivery(g[n].inputs[k], st) = "wire" =>
                how[g[n].inputs[k].from] \in {"Ran", "Reused"},
           NEW then, \A m \in DOMAIN g : m # n => then[m] = how[m]
    PROVE  \E d : RunSpares(g, gone \ {n}, s, then, d) /\ d[n] = s[n].cur
<1>. DEFINE d == [m \in DOMAIN g |-> IF m = n THEN s[n].cur ELSE dig[m]]
            down == Downstream(g, gone)
            fewer == Downstream(g, gone \ {n})
<1>1. \A m \in DOMAIN g : d[m] = IF m = n THEN s[n].cur ELSE dig[m]
  OBVIOUS
<1>2. down \subseteq DOMAIN g /\ fewer \subseteq down
  BY ReachIsLeast, ReachIsMonotone DEF Downstream
<1>. HIDE DEF d
<1>3. \A m \in down : /\ d[m] = None \/ d[m] = s[m].cur
                      /\ dig[m] # None => d[m] = s[m].cur /\ dig[m] = s[m].cur
  BY <1>1, <1>2 DEF RunSpares
<1>4. ASSUME NEW m \in fewer, d[m] # None
      PROVE  /\ m \notin gone \ {n}
             /\ \A k \in Wired(g, m) :
                  LET p == g[m].inputs[k].from IN
                  p \in fewer => d[m].ins[k] = Unset \/ (d[p] # None /\ d[m].ins[k].of = d[p])
  <2>1. m \in down /\ m \in DOMAIN g
    BY <1>2
  <2>2. CASE m = n
    <3>1. d[n] = s[n].cur /\ s[n].cur # None
      BY <1>1, <1>4, <2>2
    <3>2. ASSUME NEW k \in Wired(g, n), NEW p, p = g[n].inputs[k].from, p \in fewer,
                 d[n].ins[k] # Unset
          PROVE  d[p] # None /\ d[n].ins[k].of = d[p]
      <4>1. /\ Delivery(g[n].inputs[k], st) = "wire"
            /\ s[p].cur # None /\ s[n].cur.ins[k].of = s[p].cur
        BY <3>1, <3>2, StampedWire
      <4>2. how[p] \in {"Ran", "Reused"}
        BY <3>2, <4>1
      <4>3. dig[p] = s[p].cur
        BY <1>2, <3>2, <4>2 DEF RunSpares
      <4>4. d[p] = s[p].cur
        BY <1>2, <1>3, <3>2, <4>1, <4>3
      <4>. QED  BY <3>1, <4>1, <4>4
    <3>. QED  BY <2>2, <3>2
  <2>3. CASE m # n
    <3>1. dig[m] = d[m] /\ dig[m] # None
      BY <1>1, <1>4, <2>1, <2>3
    <3>2. m \notin gone
      BY <2>1, <3>1 DEF RunSpares, Spares
    <3>3. ASSUME NEW k \in Wired(g, m), NEW p, p = g[m].inputs[k].from, p \in fewer
          PROVE  d[m].ins[k] = Unset \/ (d[p] # None /\ d[m].ins[k].of = d[p])
      <4>1. dig[m].ins[k] = Unset \/ (dig[p] # None /\ dig[m].ins[k].of = dig[p])
        BY <1>2, <2>1, <3>1, <3>3 DEF RunSpares, Spares
      <4>2. dig[p] # None => d[p] = dig[p]
        BY <1>2, <1>3, <3>3
      <4>. QED  BY <3>1, <4>1, <4>2
    <3>. QED  BY <3>2, <3>3
  <2>. QED  BY <2>2, <2>3
<1>5. Spares(g, gone \ {n}, d)
  BY <1>4 DEF Spares
<1>6. ASSUME NEW m \in fewer, then[m] \in {"Ran", "Reused"} PROVE d[m] = s[m].cur
  <2>1. CASE m # n
    <3>1. dig[m] = s[m].cur
      BY <1>2, <1>6, <2>1 DEF RunSpares
    <3>. QED  BY <1>1, <1>2, <2>1, <3>1
  <2>. QED  BY <1>1, <2>1
<1>. QED  BY <1>1, <1>2, <1>3, <1>5, <1>6 DEF RunSpares

\* A node the run schedules that reads an evicted one, through nodes it
\* schedules, is keyed by no digest that goes without the nodes evicted.
LEMMA EvictedIsKeyed ==
    ASSUME NEW g, IsProgram(g), NEW st, NEW wanted, AllSupplied(g, st, wanted), NEW s, NEW known,
           AllStamped(g, st, s, known), NEW gone,
           NEW n, n \in Reach(g, gone, {m \in DOMAIN g : IsRunnable(st[m])}),
           IsSpare(g, gone, n, s[n].cur)
    PROVE  s[n].cur = None
<1>. DEFINE on == {m \in DOMAIN g : IsRunnable(st[m])}
            R == Reach(g, gone, on)
<1>1. PICK dig : Spares(g, gone, dig) /\ dig[n] = s[n].cur
  BY DEF IsSpare
<1>. DEFINE Bad == {m \in R : s[m].cur # None /\ dig[m] = s[m].cur}
<1>2. /\ R \subseteq on /\ R \subseteq Downstream(g, gone)
      /\ \A m \in R : m \in gone \/ \E p \in Producers(g, m) : p \in R
  <2>1. on \subseteq DOMAIN g
    OBVIOUS
  <2>. HIDE DEF on
  <2>. QED  BY <2>1, ReachIsLeast, ReachIsMonotone DEF Downstream
<1>3. Bad \subseteq Nat /\ \A m \in DOMAIN g : m \in Nat
  <2>1. Nodes \subseteq Nat
    BY ScheduleAssumption, FS_CardinalityType
  <2>. HIDE DEF R
  <2>. QED  BY <1>2, <2>1 DEF IsProgram
<1>4. SUFFICES ASSUME Bad # {} PROVE FALSE
  BY <1>1
<1>5. PICK m \in Bad : \A b \in Bad : m <= b
  <2>. HIDE DEF Bad
  <2>. QED  BY <1>3, <1>4, Coning!LeastNatural
<1>. HIDE DEF R
<1>6. m \in R /\ m \in on /\ s[m].cur # None /\ dig[m] = s[m].cur /\ m \in Downstream(g, gone)
  BY <1>2, <1>5
<1>7. m \notin gone
  BY <1>1, <1>6 DEF Spares
<1>8. PICK p \in Producers(g, m) : p \in R
  BY <1>2, <1>6, <1>7
<1>9. PICK k \in Wired(g, m) : p = g[m].inputs[k].from
  BY DEF Producers
<1>10. /\ p \in DOMAIN g /\ p < m
       /\ \/ s[m].cur.ins[k] = Unset /\ st[p] = "Disabled"
          \/ s[p].cur # None /\ s[m].cur.ins[k] # Unset /\ s[m].cur.ins[k].of = s[p].cur
  BY <1>6, <1>9, StampedWire
<1>11. IsRunnable(st[p]) /\ p \in Downstream(g, gone)
  BY <1>2, <1>8
<1>12. s[p].cur # None /\ s[m].cur.ins[k] # Unset /\ s[m].cur.ins[k].of = s[p].cur
  BY <1>10, <1>11 DEF IsRunnable
<1>13. dig[p] = s[p].cur
  BY <1>1, <1>6, <1>9, <1>11, <1>12 DEF Spares
<1>14. p \in Bad
  BY <1>8, <1>12, <1>13
<1>15. m <= p /\ m \in Nat /\ p \in Nat
  BY <1>3, <1>5, <1>10, <1>14
<1>. QED  BY <1>10, <1>15

-----------------------------------------------------------------------------
(* The nodes a run is for: roots, and what those read through nodes it        *)
(* schedules.                                                                *)
WantedBody(env, wanted, n) ==
    /\ IsRunnable(env.st[n])
    /\ n \in Roots(env.g, env.seeds) \/ \E c \in DOMAIN env.g : n \in Producers(env.g, c) /\ wanted[c]
Wanting == INSTANCE Recursion WITH Body <- WantedBody

Wanted(g, asked, st) ==
    LET wanted[n \in DOMAIN g] ==
        /\ IsRunnable(st[n])
        /\ \/ n \in Roots(g, asked)
           \/ \E c \in DOMAIN g : n \in Producers(g, c) /\ wanted[c]
    IN  wanted

\* A node reads only nodes of the program, before its own.
LEMMA ReadersFollow ==
    ASSUME NEW g, IsProgram(g), NEW c \in DOMAIN g, NEW n \in Producers(g, c)
    PROVE  n \in DOMAIN g /\ n \in Nat /\ c \in Nat /\ n < c /\ c <= Cardinality(Nodes)
<1>1. Nodes = 1..Cardinality(Nodes) /\ Cardinality(Nodes) \in Nat
  BY ScheduleAssumption, FS_CardinalityType
<1>2. n \in DOMAIN g /\ n < c
  BY DEF Producers, Wired, IsProgram
<1>. QED  BY <1>1, <1>2 DEF IsProgram

\* What a run is for is as its defining equation says.
LEMMA WantedAt ==
    ASSUME NEW g, IsProgram(g), NEW asked, NEW st
    PROVE  \A n \in DOMAIN g : Wanted(g, asked, st)[n] =>
              /\ IsRunnable(st[n])
              /\ \/ n \in Roots(g, asked)
                 \/ \E c \in DOMAIN g : n \in Producers(g, c) /\ Wanted(g, asked, st)[c]
<1>. DEFINE env == [g |-> g, seeds |-> asked, st |-> st]
            Eqn(f) == [n \in DOMAIN g |->
                /\ IsRunnable(st[n])
                /\ \/ n \in Roots(g, asked)
                   \/ \E c \in DOMAIN g : n \in Producers(g, c) /\ f[c]]
<1>1. Wanting!ReadsBelow(env, DOMAIN g, Backward(g))
  <2>1. SUFFICES ASSUME NEW n \in DOMAIN g, NEW f, NEW h,
                        \A m \in DOMAIN g : Backward(g)[m] < Backward(g)[n] => f[m] = h[m]
                 PROVE  WantedBody(env, f, n) = WantedBody(env, h, n)
    BY Zenon DEF Wanting!ReadsBelow
  <2>2. \A c \in DOMAIN g : n \in Producers(g, c) => c > n
    BY ReadersFollow
  <2>3. \A c \in DOMAIN g : n \in Producers(g, c) => f[c] = h[c]
    BY <2>1, <2>2, RanksAreBounded
  <2>. QED  BY <2>3 DEF WantedBody
<1>2. \E f : f = [n \in DOMAIN g |-> WantedBody(env, f, n)]
  <2>. HIDE DEF env
  <2>. QED  BY <1>1, RanksAreBounded, Wanting!RecursionSolved
<1>3. \A f : [n \in DOMAIN g |-> WantedBody(env, f, n)] = Eqn(f)
  BY DEF WantedBody
<1>4. \E f : f = Eqn(f)
  <2>. HIDE DEF env, Eqn
  <2>1. PICK f : f = [n \in DOMAIN g |-> WantedBody(env, f, n)]
    BY Zenon, <1>2
  <2>2. f = Eqn(f)
    BY Zenon, <1>3, <2>1
  <2>. QED  BY Zenon, <2>2
<1>5. Wanted(g, asked, st) = Eqn(Wanted(g, asked, st))
  BY Zenon, <1>4 DEF Wanted
<1>. QED  BY Zenon, <1>5

\* A node of a swept schedule that no cache serves, because it reads an
\* evicted one or is one, runs when the run is for it.
LEMMA UnservedRun ==
    ASSUME NEW g, IsProgram(g), NEW asked, NEW st, NEW gone, NEW wanted, AllSupplied(g, st, wanted),
           \A n \in Roots(g, asked) \cap DOMAIN g : IsRunnable(st[n]) => st[n] \in {"Reuse", "Run"},
           NEW R, R = Reach(g, gone, {m \in DOMAIN g : IsRunnable(st[m])}),
           \A n \in R : st[n] # "Reuse",
           NEW w, \A x \in DOMAIN g : w[x] =>
                    /\ IsRunnable(st[x])
                    /\ x \in Roots(g, asked) \/ \E c \in DOMAIN g : x \in Producers(g, c) /\ w[c],
           NEW n \in R, w[n]
    PROVE  st[n] = "Run"
<1>. DEFINE on == {m \in DOMAIN g : IsRunnable(st[m])}
            top == Cardinality(Nodes)
            Bad == {k \in 0..top : \E m \in R : w[m] /\ st[m] # "Run" /\ k = top - m}
<1>1. R \subseteq on /\ IsClosed(g, on, R)
  <2>. HIDE DEF on
  <2>. QED  BY ReachIsLeast DEF on
<1>2. Nodes = 1..top /\ top \in Nat /\ DOMAIN g \subseteq Nodes
  BY ScheduleAssumption, FS_CardinalityType DEF IsProgram
<1>3. SUFFICES ASSUME st[n] # "Run" PROVE FALSE
  OBVIOUS
<1>4. Bad \subseteq Nat /\ Bad # {}
  <2>1. n \in R /\ n \in DOMAIN g /\ top - n \in 0..top
    BY <1>1, <1>2
  <2>2. top - n \in Bad
    BY <1>3, <2>1
  <2>. QED  BY <1>2, <2>2
<1>5. PICK k \in Bad : \A j \in Bad : k <= j
  <2>. HIDE DEF Bad
  <2>. QED  BY <1>4, Coning!LeastNatural
<1>6. PICK m \in R : w[m] /\ st[m] # "Run" /\ k = top - m
  BY <1>5
<1>7. m \in DOMAIN g /\ IsRunnable(st[m])
  BY <1>1
<1>9. m \notin Roots(g, asked)
  BY <1>6, <1>7
<1>10. PICK c \in DOMAIN g : m \in Producers(g, c) /\ w[c]
  BY Zenon, <1>6, <1>7, <1>9
<1>12. IsRunnable(st[c])
  BY Zenon, <1>10
<1>13. c \in R
  BY <1>1, <1>6, <1>10, <1>12 DEF IsClosed
<1>14. c > m /\ c \in Nat /\ m \in Nat /\ c <= top
  BY <1>10, ReadersFollow
<1>15. st[c] = "Run"
  <2>1. SUFFICES ASSUME st[c] # "Run" PROVE FALSE
    OBVIOUS
  <2>2. top - c \in 0..top
    BY <1>2, <1>14
  <2>3. top - c \in Bad
    BY <1>10, <1>13, <2>1, <2>2
  <2>4. k <= top - c
    BY <1>5, <2>3
  <2>5. k = top - m
    BY <1>6
  <2>. QED  BY <1>2, <1>14, <2>4, <2>5
<1>16. PICK j \in Wired(g, c) : m = g[c].inputs[j].from
  BY <1>10 DEF Producers
<1>17. j \in DOMAIN g[c].inputs /\ g[c].inputs[j].kind = "wire" /\ Delivery(g[c].inputs[j], st) = "wire"
  BY <1>7, <1>16 DEF Wired, Delivery, IsRunnable
<1>18. st[m] \in {"Reuse", "Run"}
  BY <1>12, <1>15, <1>16, <1>17, SuppliedInputs DEF AllSupplied
<1>. QED  BY <1>6, <1>18

-----------------------------------------------------------------------------
(* What the engine keeps of a node downstream of an evicted one goes without *)
(* the nodes evicted, in RAM, on disk and among what a run has settled.      *)
EvictedAreNodes == evicted \subseteq DOMAIN program

InvokedHaveAll == \A n \in Nodes : Invoking(n) => ~HasErroredDependency(n)

SpareValue(m) ==
    slots[m].val # Nothing /\ ~Invoking(m) /\ slots[m].val.under # None =>
        IsSpare(program, evicted, m, slots[m].val.under)

SpareBlob(m) ==
    disk[m] # Nothing /\ disk[m].digest # None => IsSpare(program, evicted, m, disk[m].digest)

ValuesSpare == \A m \in Downstream(program, evicted) : SpareValue(m) /\ SpareBlob(m)

RunGoesWithout == phase = "run" => \E dig : RunSpares(program, evicted, slots, outcome, dig)

Evictions ==
    /\ EvictedAreNodes /\ InvokedHaveAll /\ ValuesSpare /\ RunGoesWithout /\ EvictionTakesHold

\* Nothing is downstream of no eviction.
LEMMA NothingDownstream ==
    ASSUME NEW g
    PROVE  Downstream(g, {}) = {}
<1>1. {} \in SUBSET DOMAIN g /\ {} \cap DOMAIN g \subseteq {} /\ IsClosed(g, DOMAIN g, {})
  BY DEF IsClosed
<1>2. Reach(g, {}, DOMAIN g) \subseteq {}
  BY <1>1, ReachIsLeast
<1>. QED  BY <1>2 DEF Downstream

\* What is downstream is of the program, and no more is downstream of fewer.
LEMMA DownstreamOf ==
    ASSUME NEW g, NEW gone, NEW fewer, fewer \subseteq gone
    PROVE  /\ Downstream(g, gone) \subseteq DOMAIN g
           /\ Downstream(g, fewer) \subseteq Downstream(g, gone)
<1>1. Downstream(g, gone) \subseteq DOMAIN g
  BY ReachIsLeast DEF Downstream
<1>2. DOMAIN g \subseteq DOMAIN g
  OBVIOUS
<1>3. Reach(g, fewer, DOMAIN g) \subseteq Reach(g, gone, DOMAIN g)
  BY <1>2, ReachIsMonotone
<1>. QED  BY <1>1, <1>3 DEF Downstream

\* What goes without the nodes evicted goes without fewer.
LEMMA FewerSpared ==
    ASSUME NEW g, NEW gone, NEW fewer, fewer \subseteq gone
    PROVE  /\ \A n, digest : IsSpare(g, gone, n, digest) => IsSpare(g, fewer, n, digest)
           /\ \A s, how, dig : RunSpares(g, gone, s, how, dig) => RunSpares(g, fewer, s, how, dig)
<1>1. ASSUME NEW n, NEW digest, IsSpare(g, gone, n, digest) PROVE IsSpare(g, fewer, n, digest)
  <2>1. PICK dig : Spares(g, gone, dig) /\ dig[n] = digest
    BY <1>1 DEF IsSpare
  <2>2. Spares(g, fewer, dig)
    BY <2>1, SparesFewer
  <2>. QED  BY <2>1, <2>2 DEF IsSpare
<1>2. ASSUME NEW s, NEW how, NEW dig, RunSpares(g, gone, s, how, dig)
      PROVE  RunSpares(g, fewer, s, how, dig)
  <2>1. Spares(g, fewer, dig)
    BY <1>2, SparesFewer DEF RunSpares
  <2>2. Downstream(g, fewer) \subseteq Downstream(g, gone)
    BY DownstreamOf
  <2>. QED  BY <1>2, <2>1, <2>2 DEF RunSpares
<1>. QED  BY <1>1, <1>2

\* A run's digests that go without the nodes evicted still do when digests stay
\* or are completed, and no more nodes have settled with a value.
LEMMA RunCarries ==
    ASSUME NEW g, NEW gone, NEW s, NEW how, NEW dig, RunSpares(g, gone, s, how, dig),
           NEW t, NEW then,
           \A m \in Downstream(g, gone) :
             \/ t[m].cur = s[m].cur /\ (then[m] \in {"Ran", "Reused"} => how[m] \in {"Ran", "Reused"})
             \/ s[m].cur = None /\ then[m] \notin {"Ran", "Reused"}
    PROVE  RunSpares(g, gone, t, then, dig)
<1>1. \A m \in Downstream(g, gone) :
        /\ dig[m] = None \/ dig[m] = s[m].cur
        /\ how[m] \in {"Ran", "Reused"} => dig[m] = s[m].cur
  BY DEF RunSpares
<1>2. ASSUME NEW m \in Downstream(g, gone)
      PROVE  /\ dig[m] = None \/ dig[m] = t[m].cur
             /\ then[m] \in {"Ran", "Reused"} => dig[m] = t[m].cur
  BY <1>1
<1>. QED  BY <1>2 DEF RunSpares

\* No step of a run, and none that begins one, evicts a node.
LEMMA RunEvictsNone ==
    ASSUME ProgramTyped, TurnTyped, [Next]_vars
    PROVE  /\ \A n \in Nodes : Turn(n) =>
                evicted' = evicted \/ (Succeed(n) /\ evicted' = evicted \ {n})
           /\ \/ evicted' = evicted /\ program' = program
              \/ evicted' = {}
              \/ \E n \in Nodes : Succeed(n) /\ evicted' = evicted \ {n}
              \/ \E n \in DOMAIN program : Evict({n})
<1>1. \A n \in Nodes : Turn(n) =>
        evicted' = evicted \/ (Succeed(n) /\ evicted' = evicted \ {n})
  BY DEF Turn, PassCut, ServeReuse, IdentifyCancelled, IdentifyFails, LateServe, LateMiss,
     SkipUpstream, StartInvoke, Succeed, Fail
<1>2. \A n \in Nodes : Turn(n) => program' = program
  BY TurnFrame
<1>3. CASE ~ \E n \in Nodes : Turn(n)
  BY <1>3 DEF Next, vars, Install, Clear, Flush, Corrupt, BeginRun, EndRun, Cancel, Touch, Crash
<1>. QED  BY <1>1, <1>2, <1>3

\* Only nodes of the program are counted as evicted.
LEMMA EvictedStep ==
    ASSUME ProgramTyped, TurnTyped, EvictedAreNodes, [Next]_vars
    PROVE  EvictedAreNodes'
<1>0. IsProgram(program)
  BY ProgramIsProgram
<1>1. CASE evicted' = evicted /\ program' = program
  BY <1>1 DEF EvictedAreNodes
<1>2. CASE evicted' = {}
  BY <1>2 DEF EvictedAreNodes
<1>3. ASSUME NEW n \in Nodes, Succeed(n), evicted' = evicted \ {n}
      PROVE  EvictedAreNodes'
  BY <1>3 DEF EvictedAreNodes, Succeed
<1>4. ASSUME NEW n \in DOMAIN program, Evict({n})
      PROVE  EvictedAreNodes'
  <2>1. ConsumerCone(program, {n}) \subseteq DOMAIN program
    BY <1>0, ConeIsClosed
  <2>. QED  BY <1>4, <2>1 DEF EvictedAreNodes, Evict, EvictedWith
<1>. QED  BY <1>1, <1>2, <1>3, <1>4, RunEvictsNone

\* Every step keeps a lambda at work only where nothing it depends on has
\* failed.
LEMMA InvokedStep ==
    ASSUME ProgramTyped, TurnTyped, InvokedHaveAll, [Next]_vars
    PROVE  InvokedHaveAll'
<1>0. NoTurn.at = "none" /\ 0 \notin Nodes
  BY ProgramIsProgram DEF NoTurn
<1>1. ASSUME NEW n \in Nodes, Turn(n), NEW x \in Nodes, Invoking(x)'
      PROVE  ~HasErroredDependency(x)'
  <2>1. IdentifyFails(n) \/ LateMiss(n) => turn'.at = "keyed"
    BY DEF IdentifyFails, LateMiss, NoTurn
  <2>2. PassCut(n) \/ ServeReuse(n) \/ IdentifyCancelled(n) \/ LateServe(n) \/ SkipUpstream(n)
          \/ Succeed(n) \/ Fail(n) => turn' = NoTurn
    BY DEF PassCut, ServeReuse, IdentifyCancelled, LateServe, SkipUpstream, Succeed, Fail,
       Unkeyed, Ready
  <2>3. turn'.at = "invoking" /\ turn'.node = x
    BY <1>1 DEF Invoking
  <2>4. StartInvoke(n)
    BY <1>0, <1>1, <2>1, <2>2, <2>3 DEF Turn
  <2>. QED  BY <2>3, <2>4 DEF StartInvoke, HasErroredDependency
<1>2. CASE ~ \E n \in Nodes : Turn(n)
  <2>1. CASE turn' = NoTurn
    BY <1>0, <2>1 DEF InvokedHaveAll, Invoking
  <2>2. CASE UNCHANGED <<program, outcome, turn>>
    BY <2>2 DEF InvokedHaveAll, Invoking, HasErroredDependency
  <2>3. CASE phase = "rest" /\ turn' = turn
    BY <1>0, <2>3 DEF TurnTyped, MidTurn, InvokedHaveAll, Invoking
  <2>4. (\E asked \in Seeds : BeginRun(asked)) => turn' = NoTurn
    BY DEF BeginRun
  <2>. QED  BY <1>2, <2>1, <2>2, <2>3, <2>4, OtherFrame
<1>. QED  BY <1>1, <1>2 DEF InvokedHaveAll

\* A lambda that returns had every node it read settle with a value of this
\* run, and its own goes without the nodes still evicted.
LEMMA ReturnsSpare ==
    ASSUME Typed, RunIsPlanned, OutcomesAreSettled, DigestsAreStamped, InvokedHaveAll,
           RunGoesWithout, NEW n \in Nodes, Succeed(n)
    PROVE  \E dig : /\ RunSpares(program, evicted \ {n}, slots, outcome', dig)
                    /\ dig[n] = slots[n].cur
<1>0. /\ ProgramTyped /\ TurnTyped /\ IsProgram(program)
      /\ Invoking(n) /\ turn.at = "invoking" /\ turn.node = n /\ NoTurn.at = "none"
  BY ProgramIsProgram DEF Typed, Succeed, Invoking, NoTurn
<1>1. /\ phase = "run" /\ n \in DOMAIN program /\ state[n] = "Run" /\ outcome[n] = "Pending"
      /\ outcome = [m \in DOMAIN program |-> outcome[m]]
  BY <1>0 DEF TurnTyped, MidTurn
<1>2. PICK dig : RunSpares(program, evicted, slots, outcome, dig)
  BY <1>1 DEF RunGoesWithout
<1>3. AllSupplied(program, state, demand) /\ AllStamped(program, state, slots, memo)
  BY <1>1 DEF RunIsPlanned, DigestsAreStamped, AllSupplied, AllStamped
<1>4. IsRunnable(state[n])
  BY <1>1 DEF IsRunnable
<1>5. ASSUME NEW k \in Wired(program, n), Delivery(program[n].inputs[k], state) = "wire"
      PROVE  outcome[program[n].inputs[k].from] \in {"Ran", "Reused"}
  <2>1. k \in DOMAIN program[n].inputs
    BY DEF Wired
  <2>2. PICK i : i = program[n].inputs[k]
    OBVIOUS
  <2>3. \A m \in Producers(program, n) : IsRunnable(state[m]) => outcome[m] # "Pending"
    BY <1>0, <1>1 DEF Typed, TurnsInOrder
  <2>4. /\ i.from \in Producers(program, n)
        /\ outcome[i.from] \in {"Ran", "Reused"} \/ outcome[i.from] \in {"Skipped", "Failed"}
    BY <1>1, <1>5, <2>1, <2>2, <2>3, SettledProducers
  <2>5. ~HasErroredDependency(n)
    BY <1>0 DEF InvokedHaveAll
  <2>. QED  BY <2>2, <2>4, <2>5 DEF HasErroredDependency
<1>6. \A m \in DOMAIN program : m # n => outcome'[m] = outcome[m]
  BY <1>1 DEF Succeed, Settle
<1>7. \A k \in Wired(program, n) : Delivery(program[n].inputs[k], state) = "wire" =>
        outcome[program[n].inputs[k].from] \in {"Ran", "Reused"}
  BY <1>5
<1>8. IsProgram(program) /\ n \in DOMAIN program
  BY <1>0, <1>1
<1>. QED  BY <1>2, <1>3, <1>4, <1>6, <1>7, <1>8, ReturnedJoins

\* What an eviction takes it empties; what it leaves goes without the cone.
LEMMA EvictSpares ==
    ASSUME Typed, ValuesSpare, NEW x \in DOMAIN program, Evict({x})
    PROVE  ValuesSpare'
<1>0. /\ ProgramTyped /\ StoreTyped /\ IsProgram(program) /\ DOMAIN program \subseteq Nodes
      /\ program' = program /\ turn' = turn
  BY ProgramIsProgram DEF Typed, Evict, runVars
<1>1. PICK cone : cone = ConsumerCone(program, {x})
  OBVIOUS
<1>2. cone \subseteq DOMAIN program /\ IsClosed(program, DOMAIN program, cone)
  BY <1>0, <1>1, ConeIsClosed
<1>3. PICK stuck :
        /\ disk' = [n \in Nodes |-> IF n \in cone \ stuck THEN Nothing ELSE disk[n]]
        /\ slots' = [n \in Nodes |-> IF n \in cone \ stuck
                                     THEN [slots[n] EXCEPT !.val = Nothing] ELSE slots[n]]
        /\ evicted' = IF stuck = {} THEN evicted \cup cone ELSE evicted
  BY <1>1 DEF Evict, EvictedWith
<1>4. \A n \in Nodes : HoldsValue(slots[n])
  BY <1>0 DEF StoreTyped, AreSlots
<1>5. \A n \in Nodes :
        \/ n \in cone /\ slots'[n].val = Nothing /\ disk'[n] = Nothing
        \/ n \notin cone \ stuck /\ slots'[n] = slots[n] /\ disk'[n] = disk[n]
  BY <1>3, <1>4, EmptiedSlot
<1>6. \A m \in Nodes : Invoking(m)' <=> Invoking(m)
  BY <1>0 DEF Invoking
<1>. SUFFICES ASSUME NEW m \in Downstream(program, evicted')
              PROVE  SpareValue(m)' /\ SpareBlob(m)'
  BY <1>0 DEF ValuesSpare
<1>7. m \in DOMAIN program /\ m \in Nodes
  BY <1>0, DownstreamOf
<1>8. CASE slots'[m].val = Nothing /\ disk'[m] = Nothing
  BY <1>8 DEF SpareValue, SpareBlob
<1>9. CASE m \notin cone \ stuck /\ slots'[m] = slots[m] /\ disk'[m] = disk[m]
  <2>1. ASSUME m \in Downstream(program, evicted),
               \A digest : IsSpare(program, evicted, m, digest) =>
                             IsSpare(program, evicted', m, digest)
        PROVE  SpareValue(m)' /\ SpareBlob(m)'
    BY <1>0, <1>6, <1>7, <1>9, <2>1 DEF ValuesSpare, SpareValue, SpareBlob
  <2>2. CASE stuck # {}
    <3>1. evicted' = evicted
      BY <1>3, <2>2
    <3>. QED  BY <2>1, <3>1
  <2>3. CASE stuck = {}
    <3>1. evicted' = evicted \cup cone /\ m \notin cone
      BY <1>3, <1>9, <2>3
    <3>2. m \in Downstream(program, evicted)
      BY <1>2, <3>1, ReachOfCone DEF Downstream
    <3>3. \A digest : IsSpare(program, evicted, m, digest) =>
                        IsSpare(program, evicted', m, digest)
      BY <1>2, <1>7, <3>1, SparesCone
    <3>. QED  BY <2>1, <3>2, <3>3
  <2>. QED  BY <2>2, <2>3
<1>. QED  BY <1>5, <1>7, <1>8, <1>9

\* A value a cache serves under a digest goes without the nodes evicted.
LEMMA HitIsSpare ==
    ASSUME Typed, ValuesSpare, NEW n \in Downstream(program, evicted), ~Invoking(n),
           NEW slot, HoldsValue(slot), slot.val = slots[n].val, NEW wanted,
           IsResidentHit(slot, wanted) \/ Covers(disk[n], slot.cur, wanted, program[n].outputs)
    PROVE  IsSpare(program, evicted, n, slot.cur)
<1>1. SpareValue(n) /\ SpareBlob(n)
  BY DEF ValuesSpare
<1>2. CASE IsResidentHit(slot, wanted)
  BY <1>1, <1>2 DEF IsResidentHit, IsCurrent, SpareValue
<1>3. CASE Covers(disk[n], slot.cur, wanted, program[n].outputs)
  BY <1>1, <1>3 DEF Covers, SpareBlob
<1>. QED  BY <1>2, <1>3

\* A node served in a run is served a value that goes without the nodes
\* evicted.
LEMMA ServedSpares ==
    ASSUME Typed, ValuesSpare, NEW n \in Nodes, n \in Downstream(program, evicted),
           ServeReuse(n) \/ LateServe(n), outcome'[n] = "Reused"
    PROVE  IsSpare(program, evicted, n, slots'[n].cur)
<1>0. /\ ProgramTyped /\ StoreTyped /\ TurnTyped /\ \A m \in Nodes : HoldsValue(slots[m])
  BY DEF Typed, StoreTyped, AreSlots
<1>1. /\ phase = "run" /\ n \in DOMAIN program /\ outcome = [m \in DOMAIN program |-> outcome[m]]
      /\ turn = NoTurn /\ ~Invoking(n)
  BY <1>0 DEF ServeReuse, LateServe, Unkeyed, Ready, TurnTyped, Invoking, NoTurn
<1>2. CASE ServeReuse(n)
  <2>1. PICK h \in Hydrated(n, slots[n]) : TRUE
    <3>1. ~Skip(n)
      BY <1>1 DEF Skip, Settle
    <3>. QED  BY <1>2, <3>1 DEF ServeReuse
  <2>2. \/ IsResidentHit(slots[n], demand[n])
        \/ Covers(disk[n], slots[n].cur, demand[n], program[n].outputs)
    BY <1>0, <2>1, HydratedReturns
  <2>3. IsSpare(program, evicted, n, slots[n].cur)
    BY <1>0, <1>1, <2>2, HitIsSpare
  <2>4. Turn(n) /\ ~Unkeyed(n)
    BY <1>2 DEF Turn, ServeReuse, Unkeyed
  <2>5. slots'[n].cur = slots[n].cur
    BY <2>4, TurnDigests
  <2>. QED  BY <2>3, <2>5
<1>3. CASE LateServe(n)
  <2>0. HoldsValue(Restamped(n)) /\ Restamped(n).val = slots[n].val
    BY <1>0, RekeyedSlot DEF Restamped
  <2>1. PICK h \in Hydrated(n, Restamped(n)) : TRUE
    BY <1>3 DEF LateServe
  <2>2. \/ IsResidentHit(Restamped(n), demand[n])
        \/ Covers(disk[n], Restamped(n).cur, demand[n], program[n].outputs)
    BY <2>0, <2>1, HydratedReturns
  <2>3. IsSpare(program, evicted, n, Restamped(n).cur)
    BY <1>1, <2>0, <2>2, HitIsSpare
  <2>4. slots'[n].cur = Restamped(n).cur
    BY <1>3, LateServes DEF ServedFrom
  <2>. QED  BY <2>3, <2>4
<1>. QED  BY <1>2, <1>3

\* Every step keeps what is held and stored downstream of the nodes evicted
\* free of them: what was there stays, or a lambda that returns brings its own.
LEMMA SpareStep ==
    ASSUME Typed, RunIsPlanned, OutcomesAreSettled, DigestsAreStamped, InvokedHaveAll,
           RunGoesWithout, ValuesSpare, [Next]_vars
    PROVE  ValuesSpare'
<1>0. /\ ProgramTyped /\ StoreTyped /\ TurnTyped /\ DOMAIN program \subseteq Nodes /\ 0 \notin Nodes
      /\ NoTurn.node = 0 /\ NoTurn.at = "none"
  BY ProgramIsProgram DEF Typed, NoTurn
<1>. DEFINE Blob(m) == disk'[m] # Nothing /\ disk'[m].digest # None =>
                IsSpare(program, evicted, m, disk'[m].digest)
            Value(m) == slots'[m].val # Nothing /\ ~Invoking(m)' /\ slots'[m].val.under # None =>
                IsSpare(program, evicted, m, slots'[m].val.under)
<1>a. ASSUME program' = program, evicted' \subseteq evicted,
             \A m \in Downstream(program, evicted) : Blob(m) /\ Value(m)
      PROVE  ValuesSpare'
  <2>1. /\ Downstream(program, evicted') \subseteq Downstream(program, evicted)
        /\ \A n, digest : IsSpare(program, evicted, n, digest) =>
                            IsSpare(program, evicted', n, digest)
    BY <1>a, DownstreamOf, FewerSpared
  <2>2. ASSUME NEW m \in Downstream(program, evicted') PROVE SpareValue(m)' /\ SpareBlob(m)'
    <3>1. Blob(m) /\ Value(m)
      BY <1>a, <2>1, <2>2
    <3>. QED  BY <1>a, <2>1, <3>1 DEF SpareValue, SpareBlob
  <2>. QED  BY <1>a, <2>2 DEF ValuesSpare
<1>1. ASSUME NEW m \in Downstream(program, evicted), slots[m].val # Nothing, ~Invoking(m),
             slots[m].val.under # None
      PROVE  IsSpare(program, evicted, m, slots[m].val.under)
  BY <1>1 DEF ValuesSpare, SpareValue
<1>2. ASSUME NEW m \in Downstream(program, evicted), disk[m] # Nothing, disk[m].digest # None
      PROVE  IsSpare(program, evicted, m, disk[m].digest)
  BY <1>2 DEF ValuesSpare, SpareBlob
<1>b. \A m \in Downstream(program, evicted) : m \in DOMAIN program /\ m \in Nodes
  BY <1>0, DownstreamOf
<1>3. ASSUME NEW m \in Downstream(program, evicted), CarriedBlob(m) PROVE Blob(m)
  <2>1. CASE disk'[m] = Nothing
    BY <2>1
  <2>2. CASE disk[m] # Nothing /\ disk'[m].digest = disk[m].digest
    BY <1>2, <2>2
  <2>3. CASE /\ slots[m].val # Nothing /\ slots[m].val.under # None /\ turn.node # m
             /\ disk'[m] = BlobOf(slots[m].val)
    <3>1. disk'[m].digest = slots[m].val.under /\ ~Invoking(m)
      BY <2>3 DEF BlobOf, Invoking
    <3>. QED  BY <1>1, <2>3, <3>1
  <2>. QED  BY <1>3, <2>1, <2>2, <2>3 DEF CarriedBlob
<1>4. ASSUME NEW m \in Downstream(program, evicted), CarriedValue(m),
             slots'[m].val = Nothing \/ ~Invoking(m)
      PROVE  Value(m)
  BY <1>1, <1>4 DEF CarriedValue
<1>5. ASSUME NEW n \in Nodes, Turn(n) PROVE ValuesSpare'
  <2>1. /\ turn = NoTurn \/ turn.node = n
        /\ program' = program /\ evicted' \subseteq evicted
    BY <1>0, <1>5, TurnFrame, RunEvictsNone
  <2>2. \A m \in Downstream(program, evicted) : m # n => Blob(m) /\ Value(m)
    <3>1. \A m \in Nodes : m # n => Carried(m) /\ ~Invoking(m)
      BY <1>0, <1>5, <2>1, TurnCarries DEF Invoking
    <3>. QED  BY <1>b, <1>3, <1>4, <3>1 DEF Carried
  <2>a. ASSUME n \in Downstream(program, evicted) => Blob(n) /\ Value(n) PROVE ValuesSpare'
    BY <1>a, <2>1, <2>2, <2>a
  <2>3. CASE Carried(n) /\ (slots'[n].val = Nothing \/ ~Invoking(n))
    BY <1>3, <1>4, <2>3, <2>a DEF Carried
  <2>4. CASE Loaded(n)
    <3>1. /\ disk'[n] = disk[n] /\ disk[n] # Nothing /\ slots'[n].val.under = disk[n].digest
      BY <2>4 DEF Loaded, Decoded, Covers
    <3>2. n \in Downstream(program, evicted) => Blob(n) /\ Value(n)
      BY <1>2, <3>1
    <3>. QED  BY <2>a, <3>2
  <2>5. CASE Returns(n)
    <3>1. PICK ports : ProducedBy(n, ports)
      BY <2>5 DEF Returns
    <3>2. Succeed(n) /\ evicted' = evicted \ {n}
      BY <2>5 DEF Returns, Succeed
    <3>3. PICK dig : /\ RunSpares(program, evicted \ {n}, slots, outcome', dig)
                     /\ dig[n] = slots[n].cur
      BY <3>2, ReturnsSpare
    <3>4. IsSpare(program, evicted', n, slots[n].cur)
      BY <3>2, <3>3 DEF RunSpares, IsSpare
    <3>5. /\ Downstream(program, evicted') \subseteq Downstream(program, evicted)
          /\ \A m, digest : IsSpare(program, evicted, m, digest) =>
                              IsSpare(program, evicted', m, digest)
      BY <3>2, DownstreamOf, FewerSpared
    <3>6. ASSUME n \in Downstream(program, evicted) PROVE SpareBlob(n)'
      <4>1. CASE disk'[n] = disk[n]
        BY <1>2, <2>1, <3>5, <3>6, <4>1 DEF SpareBlob
      <4>2. CASE disk'[n].digest = slots[n].cur
        BY <2>1, <3>4, <4>2 DEF SpareBlob
      <4>. QED  BY <3>1, <4>1, <4>2 DEF ProducedBy
    <3>7. SpareValue(n)'
      BY <2>1, <3>1, <3>4 DEF ProducedBy, Released, SpareValue
    <3>8. ASSUME NEW m \in Downstream(program, evicted'), m # n
          PROVE  SpareValue(m)' /\ SpareBlob(m)'
      <4>1. Blob(m) /\ Value(m)
        BY <2>2, <3>5, <3>8
      <4>. QED  BY <2>1, <3>5, <4>1 DEF SpareValue, SpareBlob
    <3>9. ASSUME NEW m \in Downstream(program, evicted')
          PROVE  SpareValue(m)' /\ SpareBlob(m)'
      <4>. HIDE DEF Blob, Value
      <4>. QED  BY <3>5, <3>6, <3>7, <3>8, <3>9
    <3>. QED  BY <2>1, <3>9 DEF ValuesSpare
  <2>6. CASE StartInvoke(n) /\ slots'[n] = InvokeBuffer(n) /\ disk' = disk
    <3>1. Invoking(n)'
      BY <2>6 DEF StartInvoke, Invoking
    <3>2. n \in Downstream(program, evicted) => Blob(n) /\ Value(n)
      BY <1>2, <2>6, <3>1
    <3>. QED  BY <2>a, <3>2
  <2>. QED  BY <1>5, <2>3, <2>4, <2>5, <2>6, TurnCarries
<1>6. CASE ~ \E n \in Nodes : Turn(n)
  <2>0. \A m \in Nodes : Carried(m)
    BY <1>6, OtherStepsCarry
  <2>1. CASE evicted' = {}
    <3>1. Downstream(program', evicted') = {}
      BY <2>1, NothingDownstream
    <3>. QED  BY <3>1 DEF ValuesSpare
  <2>2. ASSUME NEW x \in DOMAIN program, Evict({x}) PROVE ValuesSpare'
    BY <2>2, EvictSpares
  <2>3. CASE evicted' = evicted /\ program' = program
    <3>1. CASE turn = NoTurn
      <4>1. \A m \in Nodes : ~Invoking(m)
        BY <1>0, <3>1 DEF Invoking
      <4>2. \A m \in Downstream(program, evicted) : Blob(m) /\ Value(m)
        BY <1>b, <1>3, <1>4, <2>0, <4>1 DEF Carried
      <4>. QED  BY <1>a, <2>3, <4>2
    <3>2. CASE UNCHANGED <<slots, disk, turn>>
      <4>1. \A m \in Downstream(program, evicted) : Blob(m) /\ Value(m)
        BY <1>1, <1>2, <3>2 DEF Invoking
      <4>. QED  BY <1>a, <2>3, <4>1
    <3>3. CASE Crash
      <4>1. evicted' = {}
        BY <3>3 DEF Crash
      <4>. QED  BY <2>1, <4>1
    <3>4. phase = "rest" \/ EndRun => turn = NoTurn
      BY <1>0 DEF TurnTyped, MidTurn, EndRun
    <3>. QED  BY <1>6, <3>1, <3>2, <3>3, <3>4, OtherFrame
  <2>4. \A n \in Nodes : ~Succeed(n)
    BY <1>6 DEF Turn
  <2>. QED  BY <1>0, <2>1, <2>2, <2>3, <2>4, RunEvictsNone
<1>. QED  BY <1>5, <1>6

\* Every step keeps a run's digests free of the nodes evicted: one completed is
\* of a node still to settle, one served goes without them, and a lambda that
\* returns evicts its node no more.
LEMMA WithoutStep ==
    ASSUME Typed, RunIsPlanned, OutcomesAreSettled, DigestsAreStamped, InvokedHaveAll,
           RunGoesWithout, ValuesSpare, [Next]_vars, RunIsPlanned', DigestsAreStamped'
    PROVE  RunGoesWithout'
<1>0. /\ ProgramTyped /\ TurnTyped /\ IsProgram(program) /\ DOMAIN program \subseteq Nodes
  BY ProgramIsProgram DEF Typed
<1>b. \A m \in Downstream(program, evicted) : m \in DOMAIN program /\ m \in Nodes
  BY <1>0, DownstreamOf
<1>1. ASSUME NEW n \in Nodes, Turn(n) PROVE RunGoesWithout'
  <2>1. /\ phase = "run" /\ phase' = "run" /\ n \in DOMAIN program /\ outcome[n] = "Pending"
        /\ program' = program /\ state' = state /\ demand' = demand
        /\ outcome = [m \in DOMAIN program |-> outcome[m]]
    BY <1>0, <1>1, TurnFrame DEF TurnTyped
  <2>2. PICK dig : RunSpares(program, evicted, slots, outcome, dig)
    BY <2>1 DEF RunGoesWithout
  <2>3. /\ \A m \in Nodes : m # n => slots'[m].cur = slots[m].cur
        /\ slots'[n].cur = slots[n].cur \/ slots[n].cur = None
    BY <1>1, TurnDigests
  <2>4. RunSpares(program, evicted, slots', outcome, dig)
    <3>1. \A m \in Downstream(program, evicted) :
            \/ /\ slots'[m].cur = slots[m].cur
               /\ outcome[m] \in {"Ran", "Reused"} => outcome[m] \in {"Ran", "Reused"}
            \/ slots[m].cur = None /\ outcome[m] \notin {"Ran", "Reused"}
      BY <1>b, <2>1, <2>3
    <3>. QED  BY <2>2, <3>1, RunCarries
  <2>5. \A m \in DOMAIN program : m # n => outcome'[m] = outcome[m]
    BY <1>0, <1>1, <2>1, TurnFrame
  <2>6. CASE Succeed(n)
    <3>1. PICK d : RunSpares(program, evicted \ {n}, slots, outcome', d)
      BY <2>6, ReturnsSpare
    <3>2. slots'[n].cur = slots[n].cur /\ evicted' = evicted \ {n}
      <4>1. ~Unkeyed(n)
        BY <2>6 DEF Succeed, Unkeyed, Ready, NoTurn
      <4>. QED  BY <1>1, <2>6, <4>1, TurnDigests DEF Succeed
    <3>3. \A m \in Downstream(program, evicted \ {n}) : m \in Nodes
      BY <1>0, DownstreamOf
    <3>4. \A m \in Downstream(program, evicted \ {n}) :
            \/ /\ slots'[m].cur = slots[m].cur
               /\ outcome'[m] \in {"Ran", "Reused"} => outcome'[m] \in {"Ran", "Reused"}
            \/ slots[m].cur = None /\ outcome'[m] \notin {"Ran", "Reused"}
      BY <2>3, <3>2, <3>3
    <3>5. RunSpares(program, evicted \ {n}, slots', outcome', d)
      BY <3>1, <3>4, RunCarries
    <3>. QED  BY <2>1, <3>2, <3>5 DEF RunGoesWithout
  <2>7. CASE ~Succeed(n)
    <3>0. evicted' = evicted
      BY <1>0, <1>1, <2>7, RunEvictsNone
    <3>1. CASE outcome'[n] \notin {"Ran", "Reused"}
      <4>1. \A m \in Downstream(program, evicted) :
              \/ /\ slots'[m].cur = slots'[m].cur
                 /\ outcome'[m] \in {"Ran", "Reused"} => outcome[m] \in {"Ran", "Reused"}
              \/ slots'[m].cur = None /\ outcome'[m] \notin {"Ran", "Reused"}
        BY <1>b, <2>5, <3>1
      <4>2. RunSpares(program, evicted, slots', outcome', dig)
        BY <2>4, <4>1, RunCarries
      <4>. QED  BY <2>1, <3>0, <4>2 DEF RunGoesWithout
    <3>2. CASE n \notin Downstream(program, evicted)
      <4>1. \A m \in Downstream(program, evicted) :
              \/ /\ slots'[m].cur = slots'[m].cur
                 /\ outcome'[m] \in {"Ran", "Reused"} => outcome[m] \in {"Ran", "Reused"}
              \/ slots'[m].cur = None /\ outcome'[m] \notin {"Ran", "Reused"}
        BY <1>b, <2>5, <3>2
      <4>2. RunSpares(program, evicted, slots', outcome', dig)
        BY <2>4, <4>1, RunCarries
      <4>. QED  BY <2>1, <3>0, <4>2 DEF RunGoesWithout
    <3>3. CASE outcome'[n] \in {"Ran", "Reused"} /\ n \in Downstream(program, evicted)
      <4>1. ServeReuse(n) \/ LateServe(n)
        <5>1. PassCut(n) \/ IdentifyCancelled(n) \/ SkipUpstream(n) \/ Fail(n) =>
                \E how \in {"Cut", "Skipped", "Failed"} : outcome' = [outcome EXCEPT ![n] = how]
          BY DEF PassCut, IdentifyCancelled, SkipUpstream, Fail, Skip, Settle
        <5>2. IdentifyFails(n) \/ LateMiss(n) \/ StartInvoke(n) => outcome' = outcome
          BY DEF IdentifyFails, LateMiss, StartInvoke
        <5>. QED  BY <1>1, <2>1, <2>7, <3>3, <5>1, <5>2 DEF Turn
      <4>2. outcome'[n] = "Reused"
        <5>1. \E how \in {"Reused", "Skipped"} : outcome' = [outcome EXCEPT ![n] = how]
          BY <4>1 DEF ServeReuse, LateServe, Skip, Settle
        <5>. QED  BY <2>1, <3>3, <5>1
      <4>3. IsSpare(program, evicted, n, slots'[n].cur)
        BY <3>3, <4>1, <4>2, ServedSpares
      <4>4. AllSupplied(program, state, demand) /\ AllStamped(program, state, slots', memo')
        BY <2>1 DEF RunIsPlanned, DigestsAreStamped, AllSupplied, AllStamped
      <4>5. IsRunnable(state[n])
        BY <4>1 DEF ServeReuse, LateServe, Unkeyed, IsRunnable
      <4>6. IsProgram(program) /\ n \in DOMAIN program
        BY <1>0, <2>1
      <4>7. PICK d : RunSpares(program, evicted, slots', outcome', d)
        BY <2>4, <2>5, <4>3, <4>4, <4>5, <4>6, ServedJoins
      <4>. QED  BY <2>1, <3>0, <4>7 DEF RunGoesWithout
    <3>. QED  BY <3>1, <3>2, <3>3
  <2>. QED  BY <2>6, <2>7
<1>2. CASE ~ \E n \in Nodes : Turn(n)
  <2>1. CASE phase' = "rest"
    BY <2>1 DEF RunGoesWithout
  <2>2. ASSUME NEW asked \in Seeds, BeginRun(asked) PROVE RunGoesWithout'
    <3>1. program' = program /\ evicted' = evicted
          /\ outcome' = [n \in DOMAIN program |-> "Pending"]
      BY <2>2 DEF BeginRun
    <3>2. PICK dig : dig = [n \in DOMAIN program |-> None]
      OBVIOUS
    <3>3. \A m \in Downstream(program, evicted) :
            dig[m] = None /\ outcome'[m] \notin {"Ran", "Reused"}
      BY <1>b, <3>1, <3>2
    <3>4. RunSpares(program, evicted, slots', outcome', dig)
      BY <3>3 DEF RunSpares, Spares
    <3>. QED  BY <3>1, <3>4 DEF RunGoesWithout
  <2>3. CASE UNCHANGED <<program, slots, outcome, phase>>
    <3>1. CASE evicted' \subseteq evicted
      BY <2>3, <3>1, FewerSpared DEF RunGoesWithout
    <3>2. CASE phase = "rest"
      BY <2>3, <3>2 DEF RunGoesWithout
    <3>3. \A x : Evict(x) => phase = "rest"
      BY DEF Evict
    <3>. QED  BY <1>0, <3>1, <3>2, <3>3, RunEvictsNone
  <2>4. CASE phase = "rest" /\ phase' = phase
    BY <2>1, <2>4
  <2>. QED  BY <1>2, <2>1, <2>2, <2>3, <2>4, OtherFrame
<1>. QED  BY <1>1, <1>2

\* A run begins with every evicted node it is for set to run: no cache serves
\* a node downstream of it, as what the cache holds goes without it.
LEMMA BeginRunTakesHold ==
    ASSUME Typed, EvictedAreNodes, ValuesSpare, NEW asked, BeginRun(asked),
           RunIsPlanned', DigestsAreStamped', NEW n \in evicted,
           Wanted(program, asked, state')[n]
    PROVE  state'[n] = "Run"
<1>0. /\ ProgramTyped /\ StoreTyped /\ IsProgram(program) /\ DOMAIN program \subseteq Nodes
      /\ AreSlots(slots) /\ n \in DOMAIN program
  BY ProgramIsProgram DEF Typed, StoreTyped, EvictedAreNodes
<1>1. /\ program' = program /\ phase' = "run" /\ phase = "rest"
      /\ slots' = Stamps(program, Plan(program, asked), slots, memo')
  BY BeginRunPlans DEF Typed
<1>2. AllSupplied(program, state', demand') /\ AllStamped(program, state', slots', memo')
  BY <1>1 DEF RunIsPlanned, DigestsAreStamped, AllSupplied, AllStamped
<1>3. PICK serves : /\ serves = Served(program, slots')
                    /\ state' = Sweep(program, asked, Plan(program, asked), serves)
  <2>1. Plan(program, asked) = [m \in DOMAIN program |-> Plan(program, asked)[m]]
    BY <1>0, PlanAt
  <2>. QED  BY <2>1 DEF BeginRun
<1>4. ASSUME NEW m \in DOMAIN program, IsRunnable(state'[m])
      PROVE  Plan(program, asked)[m] = "Cut"
  <2>1. Plan(program, asked)[m] \in {"Unvisited", "Disabled", "MissingInputs", "Cut"}
    BY <1>0, PlanAt DEF Verdict
  <2>2. IsRunnable(Plan(program, asked)[m])
    BY <1>4, BeginRunPlans DEF Typed
  <2>. QED  BY <2>1, <2>2 DEF IsRunnable
<1>5. \A m \in DOMAIN program :
        state'[m] = Swept(program, asked, Plan(program, asked), serves, m, state')
  BY <1>0, <1>3, SweepAt
<1>6. \A m \in Roots(program, asked) \cap DOMAIN program :
        IsRunnable(state'[m]) => state'[m] \in {"Reuse", "Run"}
  BY <1>4, <1>5 DEF Swept
<1>7. PICK on : on = {m \in DOMAIN program : IsRunnable(state'[m])}
  OBVIOUS
<1>8. PICK R : R = Reach(program, evicted, on)
  OBVIOUS
<1>9. R \subseteq on /\ evicted \cap on \subseteq R /\ R \subseteq Downstream(program, evicted)
  <2>1. on \subseteq DOMAIN program /\ evicted \subseteq evicted
    BY <1>7
  <2>2. Reach(program, evicted, on) \subseteq Reach(program, evicted, DOMAIN program)
    BY <2>1, ReachIsMonotone
  <2>. QED  BY <1>8, <2>2, ReachIsLeast DEF Downstream
<1>10. ASSUME NEW m \in R, state'[m] = "Reuse" PROVE FALSE
  <2>1. m \in DOMAIN program /\ IsRunnable(state'[m]) /\ m \in Nodes
    BY <1>0, <1>7, <1>9, <1>10
  <2>2. PICK wanted : wanted \in serves[m]
    BY <1>4, <1>5, <1>10, <2>1 DEF Swept
  <2>3. Reusable(program, m, slots'[m], wanted)
    BY <1>3, <2>1, <2>2 DEF Served
  <2>4. HoldsValue(slots'[m]) /\ slots'[m].val = slots[m].val
    BY <1>0, <1>1, <2>1, StampsReturns DEF AreSlots
  <2>5. ~Invoking(m)
    BY <1>1 DEF Typed, TurnTyped, MidTurn, Invoking, NoTurn
  <2>6. IsSpare(program, evicted, m, slots'[m].cur)
    BY <1>9, <2>3, <2>4, <2>5, HitIsSpare DEF Reusable
  <2>7. slots'[m].cur # None
    BY <2>3 DEF Reusable, IsResidentHit, IsCurrent, Covers
  <2>. QED  BY <1>0, <1>2, <1>7, <1>8, <2>6, <2>7, EvictedIsKeyed
<1>11. PICK w : w = Wanted(program, asked, state')
  OBVIOUS
<1>12. \A x \in DOMAIN program : w[x] =>
         /\ IsRunnable(state'[x])
         /\ x \in Roots(program, asked)
              \/ \E c \in DOMAIN program : x \in Producers(program, c) /\ w[c]
  BY Zenon, <1>0, <1>11, WantedAt
<1>13. w[n]
  BY Zenon, <1>11
<1>14. n \in R
  BY <1>0, <1>7, <1>9, <1>12, <1>13
<1>15. \A m \in R : state'[m] # "Reuse"
  BY <1>10
<1>16. PICK st, need : st = state' /\ need = demand'
  OBVIOUS
<1>17. /\ IsProgram(program) /\ AllSupplied(program, st, need)
       /\ R = Reach(program, evicted, {m \in DOMAIN program : IsRunnable(st[m])})
  BY <1>0, <1>2, <1>7, <1>8, <1>16
<1>18. \A m \in Roots(program, asked) \cap DOMAIN program :
         IsRunnable(st[m]) => st[m] \in {"Reuse", "Run"}
  BY <1>6, <1>16
<1>19. \A m \in R : st[m] # "Reuse"
  BY <1>15, <1>16
<1>20. \A x \in DOMAIN program : w[x] =>
         /\ IsRunnable(st[x])
         /\ x \in Roots(program, asked)
              \/ \E c \in DOMAIN program : x \in Producers(program, c) /\ w[c]
  BY Zenon, <1>12, <1>16
<1>21. st[n] = "Run"
  BY <1>13, <1>14, <1>17, <1>18, <1>19, <1>20, UnservedRun
<1>. QED  BY <1>16, <1>21

\* Every step keeps the evicted nodes of a run set to run: a run begins with
\* them so, and no step of it changes its plan or evicts another.
LEMMA EvictionStep ==
    ASSUME Typed, EvictedAreNodes, ValuesSpare, EvictionTakesHold, [Next]_vars,
           RunIsPlanned', DigestsAreStamped'
    PROVE  EvictionTakesHold'
<1>0. ProgramTyped /\ TurnTyped
  BY DEF Typed
<1>1. ASSUME program' = program, state' = state, seeds' = seeds, phase' = phase,
             evicted' \subseteq evicted
      PROVE  EvictionTakesHold'
  BY <1>1 DEF EvictionTakesHold
<1>2. CASE phase' # "run"
  BY <1>2 DEF EvictionTakesHold
<1>3. ASSUME NEW n \in Nodes, Turn(n) PROVE EvictionTakesHold'
  <2>1. evicted' \subseteq evicted
    BY <1>0, <1>3, RunEvictsNone
  <2>. QED  BY <1>0, <1>1, <1>3, <2>1, TurnFrame
<1>4. ASSUME NEW asked \in Seeds, BeginRun(asked) PROVE EvictionTakesHold'
  <2>1. program' = program /\ evicted' = evicted /\ seeds' = asked
    BY <1>4 DEF BeginRun
  <2>2. \A n \in evicted : Wanted(program, asked, state')[n] => state'[n] = "Run"
    BY <1>4, BeginRunTakesHold
  <2>3. \A n \in evicted' : Wanted(program', seeds', state')[n] => state'[n] = "Run"
    BY <2>1, <2>2
  <2>. QED  BY Zenon, <2>3 DEF EvictionTakesHold, Wanted
<1>5. CASE UNCHANGED <<program, seeds, state, phase>> /\ phase = "run"
  <2>1. evicted' \subseteq evicted
    <3>1. \A x : ~Evict(x)
      BY <1>5 DEF Evict
    <3>. QED  BY <1>0, <3>1, RunEvictsNone
  <2>. QED  BY <1>1, <1>5, <2>1
<1>6. CASE UNCHANGED phase /\ phase # "run"
  BY <1>2, <1>6
<1>7. CASE ~ \E n \in Nodes : Turn(n)
  BY <1>2, <1>4, <1>5, <1>6, <1>7, OtherFrame
<1>. QED  BY <1>3, <1>7

\* The conjuncts of Evictions hold at first.
LEMMA EvictionsInit == Init => Evictions
<1>. SUFFICES ASSUME Init PROVE Evictions
  OBVIOUS
<1>1. EvictedAreNodes /\ InvokedHaveAll
  BY DEF Init, EvictedAreNodes, InvokedHaveAll, Invoking, NoTurn
<1>2. ValuesSpare
  <2>1. evicted = {}
    BY DEF Init
  <2>2. Downstream(program, evicted) = {}
    BY <2>1, NothingDownstream
  <2>. QED  BY <2>2 DEF ValuesSpare
<1>3. RunGoesWithout /\ EvictionTakesHold
  BY DEF Init, RunGoesWithout, EvictionTakesHold
<1>. QED  BY <1>1, <1>2, <1>3 DEF Evictions

\* Every step keeps the conjuncts of Evictions.
LEMMA EvictionsKept ==
    Typed /\ Planned /\ Honest /\ Evictions /\ [Next]_vars /\ Planned' /\ Honest' => Evictions'
<1>. SUFFICES ASSUME Typed, Planned, Honest, Evictions, [Next]_vars, Planned', Honest'
              PROVE  Evictions'
  OBVIOUS
<1>1. /\ ProgramTyped /\ TurnTyped /\ RunIsPlanned /\ OutcomesAreSettled /\ DigestsAreStamped
      /\ RunIsPlanned' /\ DigestsAreStamped'
  BY DEF Typed, Planned, Honest
<1>2. EvictedAreNodes /\ InvokedHaveAll /\ ValuesSpare /\ RunGoesWithout /\ EvictionTakesHold
  BY DEF Evictions
<1>. QED
  BY <1>1, <1>2, EvictedStep, InvokedStep, SpareStep, WithoutStep, EvictionStep DEF Evictions

\* Whatever the engine keeps downstream of a node evicted and not run since, in
\* RAM, on disk or in the run under way, was computed without it.
THEOREM EvictionsHold ==
    ASSUME PathsAreBound(Programs)
    PROVE  Spec => []Evictions
<1>1. Typed /\ Planned /\ Honest /\ Evictions /\ [Next]_vars /\ Planned' /\ Honest' => Evictions'
  BY EvictionsKept
<1>. QED
  BY <1>1, EvictionsInit, TypedHolds, PlannedHolds, HonestHolds, PTL DEF Spec

\* An evicted node that a run is for, through nodes the run schedules, runs: no
\* consumer of it is served a value whose reuse would prune it.
THEOREM EvictedNodesRun ==
    ASSUME PathsAreBound(Programs)
    PROVE  Spec => []EvictionTakesHold
<1>1. Evictions => EvictionTakesHold
  BY DEF Evictions
<1>. QED  BY <1>1, EvictionsHold, PTL
=============================================================================
