------------------------------ MODULE RunSchedule ------------------------------
(***************************************************************************)
(* The program as the engine reads it and the schedule of one run over it: *)
(* the roots a run's seeds name, the planner's structural verdicts and the *)
(* cache-aware sweep that refines them (scenarium/src/exec/schedule,       *)
(* exec/resolve).                                                          *)
(*                                                                         *)
(* A program is a function from the nodes it holds to their records.  The  *)
(* nodes are numbered so that every wire leads from a lower number to a    *)
(* higher one: a bound, since the code only asks that a program be acyclic.*)
(***************************************************************************)
EXTENDS Integers, FiniteSets, Sequences

CONSTANTS
    Nodes,      \* node identities, 1..n
    Programs    \* the compiled programs a host may install

Modes  == {"none", "ram", "disk", "both"}
States == {"Unvisited", "Disabled", "MissingInputs", "Cut", "Reuse", "Run"}

(* A node input: unbound, a constant naming a file, or a wire from a port of  *)
(* a producer.  Constants that name no file are part of the node's key.       *)
Inputs == [kind: {"unbound", "file", "wire"}, from: Nodes \cup {0}, port: Nat,
           required: BOOLEAN, path: BOOLEAN]

IsProgram(g) ==
    /\ DOMAIN g \subseteq Nodes
    /\ \A n \in DOMAIN g :
        /\ g[n].mode \in Modes /\ g[n].outputs \in Nat
        /\ {g[n].pure, g[n].disabled, g[n].sink, g[n].runSinks, g[n].opaque} \subseteq BOOLEAN
        /\ g[n].subscribers \subseteq {s \in DOMAIN g : ~g[s].disabled}
        /\ g[n].disabled => g[n].subscribers = {}
        /\ g[n].inputs \in Seq(Inputs)
        /\ \A k \in DOMAIN g[n].inputs :
            LET i == g[n].inputs[k] IN
                i.kind = "wire" =>
                    i.from \in DOMAIN g /\ i.from < n /\ i.port \in 1..g[i.from].outputs

ASSUME ScheduleAssumption ==
    /\ IsFiniteSet(Nodes) /\ Nodes = 1..Cardinality(Nodes)
    /\ \A g \in Programs : IsProgram(g)

Ports(g, n) == 1..g[n].outputs

(* The wired inputs of n, and the producers they are wired to.               *)
Wired(g, n)     == {k \in DOMAIN g[n].inputs : g[n].inputs[k].kind = "wire"}
Producers(g, n) == {g[n].inputs[k].from : k \in Wired(g, n)}

CachesInRam(g, n)    == g[n].mode \in {"ram", "both"}
PersistsToDisk(g, n) == g[n].mode \in {"disk", "both"}

(* ConsumerCone: the seeds and every node that reads them, however far.      *)
ConsumerCone(g, from) ==
    LET reached[n \in DOMAIN g] == n \in from \/ \E m \in Producers(g, n) : reached[m]
    IN  {n \in DOMAIN g : reached[n]}

-----------------------------------------------------------------------------
(* What a run is asked for: exact nodes, every sink, the nodes that own a    *)
(* subscribed event, and the events that fired, named by their emitters.     *)
Enabled(g) == {n \in DOMAIN g : ~g[n].disabled}

RunSinks(g, seeds) ==
    \/ seeds.sinks
    \/ \E e \in seeds.fired : \E s \in g[e].subscribers : g[s].runSinks

EventSources(g, seeds) ==
    IF seeds.sources THEN {n \in Enabled(g) : g[n].subscribers # {}} ELSE {}

Roots(g, seeds) ==
    seeds.nodes \cup EventSources(g, seeds)
    \cup UNION {{s \in g[e].subscribers : ~g[s].runSinks} : e \in seeds.fired}
    \cup (IF RunSinks(g, seeds) THEN {n \in Enabled(g) : g[n].sink} ELSE {})

-----------------------------------------------------------------------------
(* What an input hands its node this run.                                    *)
Delivery(input, state) ==
    IF input.kind # "wire" THEN input.kind
    ELSE CASE state[input.from] = "Disabled"      -> "unbound"
           [] state[input.from] = "MissingInputs" -> "blocked"
           [] OTHER                               -> "wire"

InputMissing(input, state) ==
    \/ Delivery(input, state) = "unbound" /\ input.required
    \/ Delivery(input, state) = "blocked"

IsRunnable(s) == s \in {"Cut", "Reuse", "Run"}

(* Planner::plan: the backward walk from the roots, which stops at a         *)
(* disabled node no seed names, and each node's structural verdict.          *)
Off(g, seeds, n) == g[n].disabled /\ n \notin seeds.nodes

Reached(g, seeds) ==
    LET reached[n \in DOMAIN g] ==
        \/ n \in Roots(g, seeds)
        \/ \E c \in DOMAIN g : c > n /\ n \in Producers(g, c) /\ ~Off(g, seeds, c) /\ reached[c]
    IN  reached

Verdict(g, seeds, n, state) ==
    CASE ~Reached(g, seeds)[n] -> "Unvisited"
      [] Reached(g, seeds)[n] /\ Off(g, seeds, n) -> "Disabled"
      [] OTHER -> IF \E k \in DOMAIN g[n].inputs : InputMissing(g[n].inputs[k], state)
                  THEN "MissingInputs" ELSE "Cut"

Plan(g, seeds) ==
    LET state[n \in DOMAIN g] == Verdict(g, seeds, n, state)
    IN  state

(* The reads a set of consumers takes of one output port.                    *)
ReadsOf(g, state, consumers, n, p) ==
    UNION {{<<c, k>> : k \in {k \in DOMAIN g[c].inputs :
                /\ g[c].inputs[k].from = n /\ g[c].inputs[k].port = p
                /\ Delivery(g[c].inputs[k], state) = "wire"}} :
           c \in {c \in consumers : c > n}}

(* ResolvedOutputs: a seeded node produces every port, any other the ports   *)
(* that a consumer which runs will read, and each read is counted.           *)
Demand(g, seeds, state, running, n) ==
    IF n \in seeds.nodes THEN Ports(g, n)
    ELSE {p \in Ports(g, n) : ReadsOf(g, state, running, n, p) # {}}

Running(g, state) == {n \in DOMAIN g : state[n] = "Run"}

Readers(g, state) ==
    [n \in DOMAIN g |-> [p \in Ports(g, n) |->
        Cardinality(ReadsOf(g, state, Running(g, state), n, p))]]

(* resolve::sweep: consumers before producers, a runnable node that is a     *)
(* root or is read by one that runs is itself served from a cache that       *)
(* covers the demand, or runs; the rest stay cut.  serves[n] holds the       *)
(* demands that n's caches cover.                                            *)
Swept(g, seeds, plan, serves, n, state) ==
    LET demand == Demand(g, seeds, plan, {c \in DOMAIN g : c > n /\ state[c] = "Run"}, n)
    IN  CASE plan[n] # "Cut" -> plan[n]
          [] plan[n] = "Cut" /\ n \notin Roots(g, seeds) /\ demand = {} -> "Cut"
          [] OTHER -> IF n \notin EventSources(g, seeds) /\ demand \in serves[n]
                      THEN "Reuse" ELSE "Run"

Sweep(g, seeds, plan, serves) ==
    LET state[n \in DOMAIN g] == Swept(g, seeds, plan, serves, n, state)
    IN  state
=============================================================================
