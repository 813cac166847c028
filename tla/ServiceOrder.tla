--------------------------- MODULE ServiceOrder ----------------------------
(***************************************************************************)
(* In which order a deploy takes the services: the checks depends_on has   *)
(* to pass, the search for a cycle, and Kahn's algorithm.                  *)
(***************************************************************************)
EXTENDS Naturals, SequencesExt

CONSTANTS
    Names,      \* names of services, in alphabetical order
    Graphs      \* what depends_on may say: service |-> its list

\* Services come from a finite list of names, and lists are lists.
ASSUME GraphsAssumption ==
    /\ Names \in Seq(ToSet(Names))
    /\ \A g \in Graphs :
        /\ DOMAIN g \subseteq ToSet(Names)
        /\ \A n \in DOMAIN g : g[n] \in Seq(ToSet(g[n]))

VARIABLES
    deps,       \* depends_on of this deploy
    stage,      \* "validate", "search", "sort", "sorted" or "rejected"
    color,      \* the search: white, gray or black
    path,       \* its stack: services with the next entry to look at
    inDegree,   \* the sort: entries not taken off yet
    ready,      \* services with none, not taken yet
    order       \* services taken so far

order_vars == <<deps, stage, color, path, inDegree, ready, order>>

Declared == DOMAIN deps

\* The names are sorted before each look at them: the first in the alphabet.
FirstOf(S) ==
    Names[CHOOSE i \in DOMAIN Names :
              Names[i] \in S /\ \A j \in 1..(i - 1) : Names[j] \notin S]

Entries(n, dep) == {i \in DOMAIN deps[n] : deps[n][i] = dep}

OrderInit ==
    /\ deps \in Graphs
    /\ stage = "validate"
    /\ color = [n \in Declared |-> "white"]
    /\ path = <<>> /\ order = <<>> /\ ready = {}
    /\ inDegree = [n \in Declared |-> 0]

----------------------------------------------------------------------------
\* No service depends on itself or on what is not a service.
Validate ==
    /\ stage = "validate"
    /\ stage' = IF \A n \in Declared : ToSet(deps[n]) \subseteq Declared \ {n}
                THEN "search" ELSE "rejected"
    /\ UNCHANGED <<deps, color, path, inDegree, ready, order>>

\* findDependencyCycle: a depth-first walk from every white service in turn.
Enter(n, below) ==
    /\ color' = [color EXCEPT ![n] = "gray"]
    /\ path' = Append(below, <<n, 1>>)
    /\ UNCHANGED <<deps, stage, inDegree, ready, order>>

White == {n \in Declared : color[n] = "white"}

StartWalk ==
    /\ stage = "search" /\ path = <<>> /\ White # {}
    /\ Enter(FirstOf(White), <<>>)

Here == Last(path)[1]
Looking == Last(path)[2]
Below == [path EXCEPT ![Len(path)] = <<Here, Looking + 1>>]

Descend ==
    /\ stage = "search" /\ path # <<>> /\ Looking <= Len(deps[Here])
    /\ color[deps[Here][Looking]] = "white"
    /\ Enter(deps[Here][Looking], Below)

CycleFound ==
    /\ stage = "search" /\ path # <<>> /\ Looking <= Len(deps[Here])
    /\ color[deps[Here][Looking]] = "gray"
    /\ stage' = "rejected"
    /\ UNCHANGED <<deps, color, path, inDegree, ready, order>>

PassBlack ==
    /\ stage = "search" /\ path # <<>> /\ Looking <= Len(deps[Here])
    /\ color[deps[Here][Looking]] = "black"
    /\ path' = Below
    /\ UNCHANGED <<deps, stage, color, inDegree, ready, order>>

Leave ==
    /\ stage = "search" /\ path # <<>> /\ Looking > Len(deps[Here])
    /\ color' = [color EXCEPT ![Here] = "black"]
    /\ path' = Front(path)
    /\ UNCHANGED <<deps, stage, inDegree, ready, order>>

\* topoSortServices: an entry listed twice counts twice.
StartSort ==
    /\ stage = "search" /\ path = <<>> /\ White = {}
    /\ stage' = "sort"
    /\ inDegree' = [n \in Declared |-> Len(deps[n])]
    /\ ready' = {n \in Declared : deps[n] = <<>>}
    /\ UNCHANGED <<deps, color, path, order>>

\* Mutant: a service listed twice is taken off once.
TakeOnce ==
    /\ stage = "sort" /\ ready # {}
    /\ LET taken == FirstOf(ready)
           left == [n \in Declared |->
                       inDegree[n] - (IF taken \in ToSet(deps[n]) THEN 1 ELSE 0)]
           unlocked == {n \in Declared : left[n] = 0 /\ inDegree[n] > 0}
       IN /\ order' = Append(order, taken)
          /\ inDegree' = left
          /\ ready' = (ready \ {taken}) \cup unlocked
    /\ UNCHANGED <<deps, stage, color, path>>

\* Mutant: a service is ready with the first of its dependencies.
TakeEarly ==
    /\ stage = "sort" /\ ready # {}
    /\ LET taken == FirstOf(ready)
           unlocked == {n \in Declared \ ToSet(order) : taken \in ToSet(deps[n])}
       IN /\ order' = Append(order, taken)
          /\ ready' = (ready \ {taken}) \cup unlocked
    /\ UNCHANGED <<deps, stage, color, path, inDegree>>

Take ==
    /\ stage = "sort" /\ ready # {}
    /\ LET taken == FirstOf(ready)
           left == [n \in Declared |->
                       inDegree[n] - Cardinality(Entries(n, taken))]
           unlocked == {n \in Declared : left[n] = 0 /\ inDegree[n] > 0}
       IN /\ order' = Append(order, taken)
          /\ inDegree' = left
          /\ ready' = (ready \ {taken}) \cup unlocked
    /\ UNCHANGED <<deps, stage, color, path>>

Sorted ==
    /\ stage = "sort" /\ ready = {}
    /\ stage' = "sorted"
    /\ UNCHANGED <<deps, color, path, inDegree, ready, order>>

OrderNext ==
    \/ Validate \/ StartWalk \/ Descend \/ CycleFound \/ PassBlack \/ Leave
    \/ StartSort \/ Take \/ Sorted

----------------------------------------------------------------------------
(***************************************************************************)
(* depends_on is rejected exactly when some services depend on each other  *)
(* in a circle, on themselves, or on what is not declared; the sort may    *)
(* rely on it and drops no service, however often an entry is listed.      *)
(***************************************************************************)
Sound ==
    /\ \A n \in Declared : ToSet(deps[n]) \subseteq Declared
    /\ \A S \in (SUBSET Declared) \ {{}} : \E n \in S : ToSet(deps[n]) \cap S = {}

OrderIsComplete ==
    /\ stage = "rejected" => ~ Sound
    /\ stage = "sorted" => Sound /\ ToSet(order) = Declared /\ IsInjective(order)

(***************************************************************************)
(* topsort.go:10: every service's depends_on entries come before it.       *)
(***************************************************************************)
DependenciesFirst ==
    \A j \in DOMAIN order : \A dep \in ToSet(deps[order[j]]) :
        \E i \in 1..(j - 1) : order[i] = dep
============================================================================
