---------------------------- MODULE RolloutProof ----------------------------
(***************************************************************************)
(* The order of the services and the roll-out along it, for any services,  *)
(* any depends_on and any pods: the two checks of depends_on accept what   *)
(* has an order and nothing else, and a service starts over dependencies   *)
(* that answer.                                                            *)
(***************************************************************************)
EXTENDS Rollout, TLAPS, FiniteSetTheorems, SequenceTheorems, WellFoundedInduction

----------------------------------------------------------------------------
(***************************************************************************)
(* Names and lists.                                                        *)
(***************************************************************************)
LEMMA Least ==
    ASSUME NEW T, T \subseteq Nat, T # {}
    PROVE  \E i \in T : \A j \in T : i <= j
  <1>1. PICK i \in T : \A j \in T : <<j, i>> \notin OpToRel(<, Nat)
    BY NatLessThanWellFounded, WFMin
  <1>2. \A j \in T : ~ (j < i)
    BY <1>1 DEF OpToRel
  <1>. QED
    BY <1>2

\* The first of some names is one of them.
LEMMA FirstOfIn ==
    ASSUME NEW S, S \subseteq ToSet(Names), S # {}
    PROVE  FirstOf(S) \in S
  <1>. DEFINE T == {i \in DOMAIN Names : Names[i] \in S}
  <1>1. T \subseteq Nat /\ T # {}
    BY GraphsAssumption DEF ToSet
  <1>2. PICK i \in T : \A j \in T : i <= j
    BY <1>1, Least
  <1>3. \A j \in 1..(i - 1) : j \in DOMAIN Names /\ Names[j] \notin S
    BY <1>2, <1>1, GraphsAssumption
  <1>. QED
    BY <1>2, <1>3 DEF FirstOf

\* There are finitely many services, each with a list.
LEMMA Lists ==
    ASSUME deps \in Graphs
    PROVE  /\ Declared \subseteq ToSet(Names)
           /\ IsFiniteSet(Declared)
           /\ \A n \in Declared : deps[n] \in Seq(ToSet(deps[n]))
  <1>1. Declared \subseteq ToSet(Names) /\ \A n \in Declared : deps[n] \in Seq(ToSet(deps[n]))
    BY GraphsAssumption DEF Declared
  <1>2. IsFiniteSet(DOMAIN Names)
    BY GraphsAssumption, FS_Interval
  <1>3. Names \in Surjection(DOMAIN Names, ToSet(Names))
    BY GraphsAssumption DEF Surjection, ToSet
  <1>4. IsFiniteSet(ToSet(Names))
    BY <1>2, <1>3, FS_Surjection
  <1>. QED
    BY <1>1, <1>4, FS_Subset

----------------------------------------------------------------------------
(***************************************************************************)
(* The stack of the search, and what a list says.                          *)
(***************************************************************************)
LEMMA Stack ==
    ASSUME NEW D, NEW s \in Seq(D \X (Nat \ {0}))
    PROVE  /\ Len(s) \in Nat /\ DOMAIN s = 1..Len(s)
           /\ \A i \in 1..Len(s) : /\ s[i] \in D \X (Nat \ {0})
                                  /\ s[i][1] \in D /\ s[i][2] \in Nat /\ s[i][2] > 0
           /\ s # <<>> <=> Len(s) > 0
  <1>1. Len(s) \in Nat /\ DOMAIN s = 1..Len(s)
    BY LenProperties
  <1>2. \A i \in 1..Len(s) : s[i] \in D \X (Nat \ {0})
    BY ElementOfSeq
  <1>3. \A p \in D \X (Nat \ {0}) : p[1] \in D /\ p[2] \in Nat /\ p[2] > 0
    OBVIOUS
  <1>4. s # <<>> <=> Len(s) > 0
    BY <1>1, EmptySeq
  <1>. QED
    BY <1>1, <1>2, <1>3, <1>4

LEMMA Listing ==
    ASSUME deps \in Graphs, NEW n \in Declared
    PROVE  /\ deps[n] \in Seq(ToSet(deps[n]))
           /\ Len(deps[n]) \in Nat /\ DOMAIN deps[n] = 1..Len(deps[n])
           /\ \A k \in 1..Len(deps[n]) : deps[n][k] \in ToSet(deps[n])
           /\ \A m \in ToSet(deps[n]) : \E k \in 1..Len(deps[n]) : deps[n][k] = m
  <1>1. deps[n] \in Seq(ToSet(deps[n]))
    BY Lists
  <1>2. Len(deps[n]) \in Nat /\ DOMAIN deps[n] = 1..Len(deps[n])
    BY <1>1, LenProperties
  <1>. QED
    BY <1>1, <1>2 DEF ToSet

----------------------------------------------------------------------------
(***************************************************************************)
(* The search for a cycle and the sort.                                    *)
(***************************************************************************)
Black == {n \in Declared : color[n] = "black"}
OnPath(n) == \E i \in DOMAIN path : path[i][1] = n
DependsOn(n) == ToSet(deps[n])

OrderTypes ==
    /\ deps \in Graphs
    /\ stage \in {"validate", "search", "sort", "sorted", "rejected"}
    /\ color \in [Declared -> {"white", "gray", "black"}]
    /\ path \in Seq(Declared \X (Nat \ {0}))
    /\ inDegree \in [Declared -> Nat]
    /\ ready \subseteq Declared
    /\ order \in Seq(Declared)

\* What Validate has let through.
Valid == \A n \in Declared : DependsOn(n) \subseteq Declared \ {n}

\* The gray services are those on the stack, each once.
GrayOnPath ==
    /\ \A n \in Declared : color[n] = "gray" <=> OnPath(n)
    /\ \A i, j \in DOMAIN path : path[i][1] = path[j][1] => i = j

\* Each stack entry depends on the one above it, which it has just looked at.
Edge(i) ==
    /\ path[i][2] - 1 \in DOMAIN deps[path[i][1]]
    /\ deps[path[i][1]][path[i][2] - 1] = path[i + 1][1]

\* What an entry has passed is black, but for the one above it.
Passed(i) ==
    \A k \in DOMAIN deps[path[i][1]] :
        k < path[i][2] => \/ color[deps[path[i][1]][k]] = "black"
                          \/ k = path[i][2] - 1 /\ i < Len(path)

\* Black services depend on black ones, and not in circles.
BlackIsSound ==
    /\ \A n \in Black : DependsOn(n) \subseteq Black
    /\ \A T \in (SUBSET Black) \ {{}} : \E n \in T : DependsOn(n) \cap T = {}

Search ==
    /\ stage = "validate" => path = <<>> /\ \A n \in Declared : color[n] = "white"
    /\ stage = "search" =>
        /\ Valid
        /\ GrayOnPath
        /\ \A i \in 1..(Len(path) - 1) : Edge(i)
        /\ \A i \in 1..Len(path) : Passed(i)
        /\ BlackIsSound

\* Entries of n whose service is not taken.
Waiting(n) == {i \in DOMAIN deps[n] : deps[n][i] \notin ToSet(order)}

Sort ==
    IF stage \in {"sort", "sorted"}
    THEN /\ Sound
         /\ \A i, j \in DOMAIN order : order[i] = order[j] => i = j
         /\ ready \cap ToSet(order) = {}
         /\ \A n \in Declared :
               /\ inDegree[n] = Cardinality(Waiting(n))
               /\ inDegree[n] = 0 <=> n \in ready \cup ToSet(order)
    ELSE order = <<>> /\ ready = {}

Ends ==
    /\ stage = "rejected" => ~ Sound
    /\ stage = "sorted" => ready = {}

OrderInv == OrderTypes /\ Search /\ Sort /\ Ends /\ DependenciesFirst

LEMMA OrderInitInv == OrderInit => OrderInv
  <1>. SUFFICES ASSUME OrderInit PROVE OrderInv
    OBVIOUS
  <1>. USE DEF OrderInit
  <1>1. OrderTypes
    BY DEF OrderTypes
  <1>2. Search /\ Sort /\ Ends /\ DependenciesFirst
    BY DEF Search, Sort, Ends, DependenciesFirst
  <1>. QED
    BY <1>1, <1>2 DEF OrderInv

LEMMA ValidateKeeps == OrderInv /\ Validate => OrderInv'
  <1>. SUFFICES ASSUME OrderInv, Validate PROVE OrderInv'
    OBVIOUS
  <1>. USE DEF OrderInv, Validate
  <1>0. Declared' = Declared
    BY DEF Declared
  <1>1. OrderTypes'
    BY <1>0 DEF OrderTypes
  <1>2. Search'
    <2>1. path' = <<>> /\ \A n \in Declared : color'[n] = "white"
      BY DEF Search
    <2>2. stage' = "search" => Valid'
      BY <1>0 DEF Valid, DependsOn
    <2>3. GrayOnPath'
      BY <1>0, <2>1 DEF GrayOnPath, OnPath
    <2>4. Black' = {}
      BY <1>0, <2>1 DEF Black
    <2>5. ASSUME NEW T \in (SUBSET Black') \ {{}}
          PROVE  FALSE
      <3>1. T \subseteq {} /\ T # {}
        BY <2>4
      <3>2. T = {}
        BY <3>1
      <3>. QED
        BY <3>1, <3>2
    <2>6. BlackIsSound'
      BY <2>4, <2>5 DEF BlackIsSound
    <2>. QED
      BY <2>1, <2>2, <2>3, <2>6 DEF Search
  <1>3. Sort'
    BY DEF Sort
  <1>4. Ends'
    <2>1. CASE stage' = "rejected"
      <3>1. PICK n \in Declared : ~ (ToSet(deps[n]) \subseteq Declared \ {n})
        BY <2>1
      <3>2. CASE ToSet(deps[n]) \subseteq Declared
        <4>1. n \in ToSet(deps[n])
          BY <3>1, <3>2
        <4>. DEFINE T == {n}
        <4>2. n \in T /\ T \subseteq Declared
          OBVIOUS
        <4>3. \A m \in T : ToSet(deps[m]) \cap T # {}
          BY <4>1
        <4>4. ~ Sound
          BY <4>2, <4>3 DEF Sound
        <4>. QED
          BY <2>1, <4>4 DEF Ends, Sound, Declared
      <3>3. CASE ~ (ToSet(deps[n]) \subseteq Declared)
        BY <2>1, <3>3, <1>0 DEF Ends, Sound
      <3>. QED
        BY <3>2, <3>3
    <2>2. CASE stage' = "search"
      BY <2>2 DEF Ends
    <2>. QED
      BY <2>1, <2>2
  <1>5. DependenciesFirst'
    BY DEF DependenciesFirst
  <1>. QED
    BY <1>1, <1>2, <1>3, <1>4, <1>5

LEMMA Gray ==
    ASSUME OrderInv, stage = "search", NEW n \in Declared
    PROVE  color[n] = "gray" <=> \E i \in 1..Len(path) : path[i][1] = n
  <1>1. color[n] = "gray" <=> OnPath(n)
    BY DEF OrderInv, Search, GrayOnPath
  <1>2. DOMAIN path = 1..Len(path)
    BY Stack DEF OrderInv, OrderTypes
  <1>. QED
    BY <1>1, <1>2 DEF OnPath

\* A step of the search down to a service that is still white.
LEMMA EnterKeeps ==
    ASSUME OrderInv, stage = "search", NEW n \in Declared, color[n] = "white",
           NEW below \in Seq(Declared \X (Nat \ {0})), Enter(n, below),
           Len(below) = Len(path),
           \A i \in 1..Len(path) : below[i][1] = path[i][1],
           \A i \in 1..Len(path) : i # Len(path) => below[i] = path[i],
           Len(path) > 0 =>
             LET k == path[Len(path)][2]
             IN  /\ below[Len(path)][2] = k + 1
                 /\ k \in DOMAIN deps[path[Len(path)][1]]
                 /\ deps[path[Len(path)][1]][k] = n
    PROVE  OrderInv'
  <1>1. /\ UNCHANGED <<deps, stage, inDegree, ready, order>>
        /\ color' = [color EXCEPT ![n] = "gray"]
        /\ path' = Append(below, <<n, 1>>)
    BY DEF Enter
  <1>2. OrderTypes /\ Search /\ Sort /\ Ends /\ DependenciesFirst
    BY DEF OrderInv
  <1>3. Declared' = Declared
    BY <1>1 DEF Declared
  <1>4. /\ DOMAIN path = 1..Len(path) /\ Len(path) \in Nat
        /\ \A i \in 1..Len(path) : path[i][1] \in Declared /\ path[i][2] \in Nat
    BY <1>2, Stack DEF OrderTypes
  <1>5. /\ path' \in Seq(Declared \X (Nat \ {0}))
        /\ Len(path') = Len(path) + 1 /\ DOMAIN path' = 1..(Len(path) + 1)
        /\ \A i \in 1..Len(path) : path'[i] = below[i]
        /\ path'[Len(path) + 1] = <<n, 1>>
    <2>1. <<n, 1>> \in Declared \X (Nat \ {0})
      OBVIOUS
    <2>. QED
      BY <1>1, <1>4, <2>1, AppendProperties, Stack
  <1>6. /\ \A m \in Declared : color'[m] = IF m = n THEN "gray" ELSE color[m]
        /\ \A m \in Declared : color[m] = "black" => color'[m] = "black"
        /\ color' \in [Declared -> {"white", "gray", "black"}]
    BY <1>1, <1>2 DEF OrderTypes
  <1>7. OrderTypes'
    BY <1>1, <1>2, <1>3, <1>5, <1>6 DEF OrderTypes
  <1>8. Valid /\ Valid'
    BY <1>1, <1>2, <1>3 DEF Valid, DependsOn, Search
  <1>9. \A i \in 1..Len(path) : path'[i][1] = path[i][1]
    BY <1>5
  <1>a. \A i \in 1..(Len(path) + 1) : i \in 1..Len(path) \/ i = Len(path) + 1
    BY <1>4
  <1>b. path'[Len(path) + 1][1] = n /\ path'[Len(path) + 1][2] = 1
    BY <1>5
  <1>c. 1..Len(path) \subseteq 1..(Len(path) + 1) /\ Len(path) + 1 \in 1..(Len(path) + 1)
    BY <1>4
  <1>10. GrayOnPath'
    <2>1. \A i \in 1..Len(path) : path[i][1] # n
      BY Gray
    <2>2. \A i, j \in 1..Len(path) : path[i][1] = path[j][1] => i = j
      BY <1>2, <1>4 DEF Search, GrayOnPath
    <2>3. ASSUME NEW i \in 1..(Len(path) + 1), NEW j \in 1..(Len(path) + 1),
                 path'[i][1] = path'[j][1]
          PROVE  i = j
      <3>1. CASE i \in 1..Len(path) /\ j \in 1..Len(path)
        BY <1>9, <2>2, <2>3, <3>1
      <3>2. CASE i \in 1..Len(path) /\ j = Len(path) + 1
        BY <1>9, <1>b, <2>1, <2>3, <3>2
      <3>3. CASE j \in 1..Len(path) /\ i = Len(path) + 1
        BY <1>9, <1>b, <2>1, <2>3, <3>3
      <3>. QED
        BY <1>a, <3>1, <3>2, <3>3
    <2>4. ASSUME NEW m \in Declared
          PROVE  color'[m] = "gray" <=> \E i \in 1..(Len(path) + 1) : path'[i][1] = m
      <3>1. CASE m = n
        BY <1>b, <1>c, <1>6, <3>1
      <3>2. CASE m # n
        <4>1. color'[m] = "gray" <=> \E i \in 1..Len(path) : path[i][1] = m
          BY <1>6, <3>2, Gray
        <4>. QED
          BY <1>9, <1>a, <1>b, <1>c, <3>2, <4>1
      <3>. QED
        BY <3>1, <3>2
    <2>. QED
      BY <1>3, <1>5, <2>3, <2>4 DEF GrayOnPath, OnPath
  <1>11. ASSUME NEW i \in 1..Len(path)
         PROVE  Edge(i)'
    <2>1. CASE i # Len(path)
      <3>1. i \in 1..(Len(path) - 1) /\ i + 1 \in 1..Len(path)
        BY <1>4, <2>1
      <3>2. path'[i] = path[i] /\ path'[i + 1][1] = path[i + 1][1] /\ Edge(i)
        BY <1>2, <1>5, <1>9, <2>1, <3>1 DEF Search
      <3>. QED
        BY <1>1, <3>2 DEF Edge
    <2>2. CASE i = Len(path)
      <3>1. Len(path) > 0
        BY <1>4, <2>2
      <3>2. path'[i][1] = path[i][1] /\ path'[i][2] = path[i][2] + 1 /\ path'[i + 1][1] = n
        BY <1>5, <1>9, <1>b, <2>2, <3>1
      <3>3. path'[i][2] - 1 = path[i][2]
        BY <1>4, <3>2
      <3>. QED
        BY <1>1, <2>2, <3>1, <3>2, <3>3 DEF Edge
    <2>. QED
      BY <2>1, <2>2
  <1>12. ASSUME NEW i \in 1..(Len(path) + 1)
         PROVE  Passed(i)'
    <2>0. ASSUME NEW m \in Declared, NEW k \in DOMAIN deps[m]
          PROVE  k \in Nat /\ k >= 1 /\ deps[m][k] \in Declared
      <3>1. k \in 1..Len(deps[m]) /\ deps[m][k] \in ToSet(deps[m]) /\ Len(deps[m]) \in Nat
        BY <1>2, Listing DEF OrderTypes
      <3>. QED
        BY <1>8, <3>1 DEF Valid, DependsOn
    <2>1. CASE i \in 1..Len(path)
      <3>1. Passed(i) /\ path'[i][1] = path[i][1] /\ path[i][1] \in Declared /\ i < Len(path')
        BY <1>2, <1>4, <1>5, <1>9, <2>1 DEF Search
      <3>2. CASE i # Len(path)
        <4>1. path'[i] = path[i]
          BY <1>5, <2>1, <3>2
        <4>. QED
          BY <1>1, <1>6, <2>0, <3>1, <4>1 DEF Passed
      <3>3. CASE i = Len(path)
        <4>1. path'[i][2] = path[i][2] + 1 /\ path[i][2] \in Nat
          BY <1>4, <1>5, <2>1, <3>3
        <4>2. ASSUME NEW k \in DOMAIN deps[path[i][1]], k < path[i][2] + 1
              PROVE  color'[deps[path[i][1]][k]] = "black" \/ k = path'[i][2] - 1
          <5>1. k \in Nat /\ deps[path[i][1]][k] \in Declared
            BY <2>0, <3>1
          <5>2. CASE k < path[i][2]
            <6>1. ~ (i < Len(path))
              BY <1>4, <3>3
            <6>2. color[deps[path[i][1]][k]] = "black"
              BY <3>1, <5>2, <6>1 DEF Passed
            <6>. QED
              BY <1>6, <5>1, <6>2
          <5>3. CASE k = path[i][2]
            BY <4>1, <5>3
          <5>. QED
            BY <4>1, <4>2, <5>1, <5>2, <5>3
        <4>. QED
          BY <1>1, <3>1, <4>1, <4>2 DEF Passed
      <3>. QED
        BY <3>2, <3>3
    <2>2. CASE i = Len(path) + 1
      <3>1. \A k \in DOMAIN deps[n] : ~ (k < 1)
        BY <2>0
      <3>. QED
        BY <1>1, <1>b, <2>2, <3>1 DEF Passed
    <2>. QED
      BY <1>a, <2>1, <2>2
  <1>13. BlackIsSound'
    <2>1. Black' = Black
      BY <1>3, <1>6 DEF Black
    <2>. QED
      BY <1>1, <1>2, <2>1 DEF Search, BlackIsSound, DependsOn
  <1>14. Search'
    <2>1. Len(path') - 1 = Len(path) /\ stage' = "search"
      BY <1>1, <1>4, <1>5
    <2>. QED
      BY <1>5, <1>8, <1>10, <1>11, <1>12, <1>13, <2>1 DEF Search
  <1>15. Sort' /\ Ends' /\ DependenciesFirst'
    BY <1>1, <1>2 DEF Sort, Ends, DependenciesFirst, Sound, Declared, Waiting
  <1>. QED
    BY <1>7, <1>14, <1>15 DEF OrderInv

LEMMA StartWalkKeeps == OrderInv /\ StartWalk => OrderInv'
  <1>. SUFFICES ASSUME OrderInv, StartWalk PROVE OrderInv'
    OBVIOUS
  <1>1. White # {} /\ White \subseteq ToSet(Names)
    BY Lists DEF StartWalk, OrderInv, OrderTypes, White
  <1>2. FirstOf(White) \in White
    BY <1>1, FirstOfIn
  <1>. DEFINE below == <<>>
  <1>3. /\ below \in Seq(Declared \X (Nat \ {0})) /\ path = <<>>
        /\ Enter(FirstOf(White), below)
    BY DEF StartWalk
  <1>4. FirstOf(White) \in Declared /\ color[FirstOf(White)] = "white" /\ stage = "search"
    BY <1>2 DEF White, StartWalk
  <1>. QED
    <2>1. Len(path) = 0 /\ Len(below) = 0 /\ 1..0 = {} /\ ~ (0 > 0)
      BY <1>3, EmptySeq
    <2>. HIDE DEF below
    <2>. QED
      BY <1>3, <1>4, <2>1, EnterKeeps

LEMMA LookedAt ==
    ASSUME OrderInv, path # <<>>
    PROVE  /\ Len(path) \in Nat /\ Len(path) > 0
           /\ Here \in Declared /\ Looking \in Nat /\ Looking > 0
           /\ path[Len(path)][1] = Here /\ path[Len(path)][2] = Looking
           /\ Below \in Seq(Declared \X (Nat \ {0})) /\ Len(Below) = Len(path)
           /\ \A i \in 1..Len(path) : Below[i][1] = path[i][1]
           /\ \A i \in 1..Len(path) : i # Len(path) => Below[i] = path[i]
           /\ Below[Len(path)][2] = Looking + 1
  <1>1. path \in Seq(Declared \X (Nat \ {0}))
    BY DEF OrderInv, OrderTypes
  <1>2. Len(path) \in Nat /\ Len(path) > 0 /\ Len(path) \in 1..Len(path)
    BY <1>1, Stack
  <1>3. path[Len(path)][1] = Here /\ path[Len(path)][2] = Looking
    BY DEF Here, Looking, Last
  <1>4. Here \in Declared /\ Looking \in Nat /\ Looking > 0
    BY <1>1, <1>2, <1>3, Stack
  <1>5. <<Here, Looking + 1>> \in Declared \X (Nat \ {0})
    BY <1>4
  <1>6. /\ Below \in Seq(Declared \X (Nat \ {0})) /\ Len(Below) = Len(path)
        /\ \A i \in 1..Len(path) :
              Below[i] = IF i = Len(path) THEN <<Here, Looking + 1>> ELSE path[i]
    BY <1>1, <1>2, <1>5, ExceptSeq DEF Below
  <1>7. ASSUME NEW i \in 1..Len(path)
        PROVE  Below[i][1] = path[i][1]
    <2>1. CASE i = Len(path)
      BY <1>3, <1>6, <2>1
    <2>2. CASE i # Len(path)
      BY <1>6, <2>2
    <2>. QED
      BY <2>1, <2>2
  <1>. QED
    BY <1>2, <1>3, <1>4, <1>6, <1>7

LEMMA LooksAt ==
    ASSUME OrderInv, stage = "search", path # <<>>, Looking <= Len(deps[Here])
    PROVE  /\ Looking \in DOMAIN deps[Here]
           /\ deps[Here][Looking] \in DependsOn(Here)
           /\ deps[Here][Looking] \in Declared
  <1>1. Here \in Declared /\ Looking \in Nat /\ Looking > 0
    BY LookedAt
  <1>2. deps \in Graphs /\ Valid
    BY DEF OrderInv, OrderTypes, Search
  <1>3. /\ Len(deps[Here]) \in Nat /\ DOMAIN deps[Here] = 1..Len(deps[Here])
        /\ \A k \in 1..Len(deps[Here]) : deps[Here][k] \in ToSet(deps[Here])
    BY <1>1, <1>2, Listing
  <1>4. Looking \in 1..Len(deps[Here])
    BY <1>1, <1>3
  <1>. QED
    BY <1>1, <1>2, <1>3, <1>4 DEF Valid, DependsOn

LEMMA DescendKeeps == OrderInv /\ Descend => OrderInv'
  <1>. SUFFICES ASSUME OrderInv, Descend PROVE OrderInv'
    OBVIOUS
  <1>. DEFINE n == deps[Here][Looking]
  <1>0. /\ stage = "search" /\ path # <<>> /\ Looking <= Len(deps[Here])
        /\ color[n] = "white" /\ Enter(n, Below)
    BY DEF Descend
  <1>1. Looking \in DOMAIN deps[Here] /\ n \in Declared
    BY <1>0, LooksAt
  <1>3. deps[Here][Looking] = n
    OBVIOUS
  <1>. HIDE DEF n
  <1>. QED
    BY <1>0, <1>1, <1>3, LookedAt, EnterKeeps

LEMMA CycleFoundKeeps == OrderInv /\ CycleFound => OrderInv'
  <1>. SUFFICES ASSUME OrderInv, CycleFound PROVE OrderInv'
    OBVIOUS
  <1>0. /\ stage = "search" /\ path # <<>> /\ Looking <= Len(deps[Here])
        /\ color[deps[Here][Looking]] = "gray"
        /\ stage' = "rejected"
        /\ UNCHANGED <<deps, color, path, inDegree, ready, order>>
    BY DEF CycleFound
  <1>1. OrderTypes /\ Search /\ Sort /\ Ends /\ DependenciesFirst /\ Declared' = Declared
    BY <1>0 DEF OrderInv, Declared
  <1>2. deps[Here][Looking] \in DependsOn(Here) /\ deps[Here][Looking] \in Declared
    BY <1>0, LooksAt
  <1>4. PICK j \in 1..Len(path) : path[j][1] = deps[Here][Looking]
    BY <1>0, <1>2, Gray
  <1>5. /\ DOMAIN path = 1..Len(path) /\ Len(path) \in Nat
        /\ \A i \in 1..Len(path) : path[i][1] \in Declared
    BY <1>1, Stack DEF OrderTypes
  <1>. DEFINE Circle == {path[i][1] : i \in j..Len(path)}
  <1>6. Circle \subseteq Declared /\ path[j][1] \in Circle
    <2>1. j..Len(path) \subseteq 1..Len(path) /\ j \in j..Len(path)
      BY <1>5
    <2>. QED
      BY <1>5, <2>1
  <1>7. ASSUME NEW n \in Circle
        PROVE  DependsOn(n) \cap Circle # {}
    <2>1. PICK i \in j..Len(path) : path[i][1] = n
      OBVIOUS
    <2>2. CASE i = Len(path)
      <3>1. n = Here
        BY <1>0, <2>1, <2>2, LookedAt
      <3>. QED
        BY <3>1, <1>2, <1>4, <1>6
    <2>3. CASE i # Len(path)
      <3>0. j \in Nat /\ 1 <= j /\ Len(path) \in Nat /\ i \in Nat /\ j <= i /\ i <= Len(path)
        BY <1>5
      <3>1. i \in 1..(Len(path) - 1) /\ i + 1 \in j..Len(path) /\ i \in 1..Len(path)
        BY <2>3, <3>0
      <3>2. Edge(i) /\ path[i + 1][1] \in Circle
        BY <1>0, <1>1, <3>1 DEF Search
      <3>3. path[i + 1][1] \in DependsOn(n)
        BY <2>1, <3>2 DEF Edge, DependsOn, ToSet
      <3>. QED
        BY <3>2, <3>3
    <2>. QED
      BY <2>2, <2>3
  <1>8. ~ Sound
    <2>1. Circle # {}
      BY <1>6
    <2>. QED
      BY <1>6, <1>7, <2>1 DEF Sound, DependsOn
  <1>9. OrderTypes'
    BY <1>0, <1>1 DEF OrderTypes
  <1>10. (~ Sound)' /\ (stage = "rejected")'
    BY <1>0, <1>1, <1>8 DEF Sound
  <1>11. Search' /\ Sort' /\ Ends' /\ DependenciesFirst'
    BY <1>0, <1>1, <1>10 DEF Search, Sort, Ends, DependenciesFirst
  <1>. QED
    BY <1>9, <1>11 DEF OrderInv

LEMMA PassBlackKeeps == OrderInv /\ PassBlack => OrderInv'
  <1>. SUFFICES ASSUME OrderInv, PassBlack PROVE OrderInv'
    OBVIOUS
  <1>0. /\ stage = "search" /\ path # <<>> /\ Looking <= Len(deps[Here])
        /\ color[deps[Here][Looking]] = "black"
        /\ path' = Below
        /\ UNCHANGED <<deps, stage, color, inDegree, ready, order>>
    BY DEF PassBlack
  <1>1. OrderTypes /\ Search /\ Sort /\ Ends /\ DependenciesFirst /\ Declared' = Declared
    BY <1>0 DEF OrderInv, Declared
  <1>2. OrderTypes'
    BY <1>0, <1>1, LookedAt DEF OrderTypes
  <1>3. /\ Len(path') = Len(path) /\ DOMAIN path' = 1..Len(path) /\ DOMAIN path = 1..Len(path)
        /\ Len(path) \in Nat
        /\ \A i \in 1..Len(path) : path'[i][1] = path[i][1] /\ path[i][1] \in Declared
        /\ \A i \in 1..Len(path) : i # Len(path) => path'[i] = path[i]
        /\ path'[Len(path)][2] = path[Len(path)][2] + 1
    <2>1. /\ DOMAIN path' = 1..Len(path') /\ DOMAIN path = 1..Len(path)
          /\ \A i \in 1..Len(path) : path[i][1] \in Declared
      BY <1>1, <1>2, Stack DEF OrderTypes
    <2>. QED
      BY <1>0, <2>1, LookedAt
  <1>4. Valid' /\ BlackIsSound'
    BY <1>0, <1>1 DEF Search, Valid, BlackIsSound, Black, DependsOn
  <1>5. GrayOnPath'
    <2>1. ASSUME NEW n \in Declared
          PROVE  color'[n] = "gray" <=> OnPath(n)'
      <3>1. color'[n] = "gray" <=> \E i \in 1..Len(path) : path[i][1] = n
        BY <1>0, Gray
      <3>2. DOMAIN path' = 1..Len(path) /\ \A i \in 1..Len(path) : path'[i][1] = path[i][1]
        BY <1>3
      <3>. QED
        BY <3>1, <3>2 DEF OnPath
    <2>2. \A i, j \in DOMAIN path : path[i][1] = path[j][1] => i = j
      BY <1>0, <1>1 DEF Search, GrayOnPath
    <2>3. \A i, j \in DOMAIN path' : path'[i][1] = path'[j][1] => i = j
      BY <1>3, <2>2
    <2>. QED
      BY <1>1, <2>1, <2>3 DEF GrayOnPath
  <1>6. ASSUME NEW i \in 1..(Len(path) - 1)
        PROVE  Edge(i)'
    <2>0. Len(path) \in Nat
      BY <1>3
    <2>1. i \in 1..Len(path) /\ i + 1 \in 1..Len(path) /\ i # Len(path)
      BY <2>0
    <2>2. Edge(i) /\ path'[i] = path[i] /\ path'[i + 1][1] = path[i + 1][1]
      BY <1>0, <1>1, <1>3, <2>1 DEF Search
    <2>. QED
      BY <1>0, <2>2 DEF Edge
  <1>7. ASSUME NEW i \in 1..Len(path)
        PROVE  Passed(i)'
    <2>1. Passed(i)
      BY <1>0, <1>1 DEF Search
    <2>2. CASE i # Len(path)
      <3>1. path'[i] = path[i] /\ Len(path') = Len(path)
        BY <1>3, <2>2
      <3>. QED
        BY <1>0, <2>1, <3>1 DEF Passed
    <2>3. CASE i = Len(path)
      <3>1. /\ path[i][1] = Here /\ path'[i][1] = Here
            /\ path[i][2] = Looking /\ path'[i][2] = Looking + 1
        BY <1>0, <1>3, <2>3, LookedAt
      <3>2. ASSUME NEW k \in DOMAIN deps[Here], k < Looking + 1
            PROVE  color[deps[Here][k]] = "black"
        <4>1. k \in Nat /\ Looking \in Nat
          <5>1. Here \in Declared /\ Looking \in Nat
            BY <1>0, LookedAt
          <5>2. Len(deps[Here]) \in Nat /\ DOMAIN deps[Here] = 1..Len(deps[Here])
            BY <1>1, <5>1, Listing DEF OrderTypes
          <5>. QED
            BY <5>1, <5>2
        <4>2. CASE k < Looking
          <5>0. Len(path) \in Nat
            BY <1>3
          <5>1. ~ (i < Len(path))
            BY <5>0, <2>3
          <5>. QED
            BY <2>1, <3>1, <4>2, <5>1 DEF Passed
        <4>3. CASE k = Looking
          BY <1>0, <4>3
        <4>. QED
          BY <3>2, <4>1, <4>2, <4>3
      <3>. QED
        BY <1>0, <3>1, <3>2 DEF Passed
    <2>. QED
      BY <2>2, <2>3
  <1>8. Search'
    BY <1>0, <1>3, <1>4, <1>5, <1>6, <1>7 DEF Search
  <1>9. Sort' /\ Ends' /\ DependenciesFirst'
    BY <1>0, <1>1 DEF Sort, Ends, DependenciesFirst, Sound, Waiting
  <1>. QED
    BY <1>2, <1>8, <1>9 DEF OrderInv

\* A service whose list is done: what it depends on is black, so it ends no
\* circle.
LEMMA LeaveKeeps == OrderInv /\ Leave => OrderInv'
  <1>. SUFFICES ASSUME OrderInv, Leave PROVE OrderInv'
    OBVIOUS
  <1>0. /\ stage = "search" /\ path # <<>> /\ Looking > Len(deps[Here])
        /\ color' = [color EXCEPT ![Here] = "black"]
        /\ path' = Front(path)
        /\ UNCHANGED <<deps, stage, inDegree, ready, order>>
    BY DEF Leave
  <1>1. OrderTypes /\ Search /\ Sort /\ Ends /\ DependenciesFirst /\ Declared' = Declared
    BY <1>0 DEF OrderInv, Declared
  <1>2. /\ Here \in Declared /\ Looking \in Nat /\ Len(path) \in Nat /\ Len(path) > 0
        /\ path[Len(path)][1] = Here /\ path[Len(path)][2] = Looking
    BY <1>0, LookedAt
  <1>3. /\ path' \in Seq(Declared \X (Nat \ {0})) /\ Len(path') = Len(path) - 1
        /\ \A i \in 1..(Len(path) - 1) : path'[i] = path[i]
    <2>1. /\ path \in Seq(Declared \X (Nat \ {0}))
          /\ \A i \in 1..Len(path) : path[i] \in Declared \X (Nat \ {0})
      BY <1>1, Stack DEF OrderTypes
    <2>. DEFINE top == Len(path) - 1
    <2>2. /\ 1 \in Int /\ top \in Int /\ 1..top \subseteq 1..Len(path)
          /\ top - 1 + 1 = top /\ \A i \in 1..top : 1 + i - 1 = i
          /\ (IF 1 <= top THEN top - 1 + 1 ELSE 0) = top
      <3>1. Len(path) \in Nat /\ Len(path) > 0 /\ top \in Nat /\ top < Len(path)
        BY <1>2
      <3>2. 1..top \subseteq 1..Len(path)
        BY <3>1
      <3>. HIDE DEF top
      <3>. QED
        BY <3>1, <3>2
    <2>3. \A i \in 1..(Len(path) - 1) : path[i] \in Declared \X (Nat \ {0})
      BY <2>1, <2>2
    <2>4. /\ path' = SubSeq(path, 1, Len(path) - 1)
      BY <1>0 DEF Front
    <2>. QED
      BY <2>2, <2>3, <2>4, SubSeqProperties
  <1>4. DOMAIN path' = 1..(Len(path) - 1) /\ DOMAIN path = 1..Len(path)
    BY <1>1, <1>3, Stack DEF OrderTypes
  <1>5. /\ \A m \in Declared : color'[m] = IF m = Here THEN "black" ELSE color[m]
        /\ color' \in [Declared -> {"white", "gray", "black"}]
    BY <1>0, <1>1 DEF OrderTypes
  <1>6. OrderTypes'
    BY <1>0, <1>1, <1>3, <1>5 DEF OrderTypes
  <1>7. Valid /\ Valid'
    BY <1>0, <1>1 DEF Search, Valid, DependsOn
  <1>8. GrayOnPath'
    <2>1. \A i, j \in 1..Len(path) : path[i][1] = path[j][1] => i = j
      BY <1>0, <1>1, <1>4 DEF Search, GrayOnPath
    <2>2. 1..(Len(path) - 1) \subseteq 1..Len(path) /\ Len(path) \in 1..Len(path)
      BY <1>2
    <2>3. \A i \in 1..Len(path) : i \in 1..(Len(path) - 1) \/ i = Len(path)
      BY <1>2
    <2>4. ~ (Len(path) \in 1..(Len(path) - 1))
      BY <1>2
    <2>5. ASSUME NEW n \in Declared
          PROVE  color'[n] = "gray" <=> OnPath(n)'
      <3>1. OnPath(n)' <=> \E i \in 1..(Len(path) - 1) : path[i][1] = n
        BY <1>3, <1>4 DEF OnPath
      <3>2. CASE n = Here
        <4>1. ~ \E i \in 1..(Len(path) - 1) : path[i][1] = n
          BY <1>2, <2>1, <2>2, <2>4, <3>2
        <4>. QED
          BY <1>5, <3>1, <3>2, <4>1
      <3>3. CASE n # Here
        <4>1. color[n] = "gray" <=> \E i \in 1..Len(path) : path[i][1] = n
          BY <1>0, Gray
        <4>2. color'[n] = color[n]
          BY <1>5, <3>3
        <4>. QED
          BY <1>2, <2>2, <2>3, <3>1, <3>3, <4>1, <4>2
      <3>. QED
        BY <3>2, <3>3
    <2>6. \A i, j \in DOMAIN path' : path'[i][1] = path'[j][1] => i = j
      BY <1>3, <1>4, <2>1, <2>2
    <2>. QED
      BY <1>1, <2>5, <2>6 DEF GrayOnPath
  <1>9. ASSUME NEW i \in 1..(Len(path') - 1)
        PROVE  Edge(i)'
    <2>1. i \in 1..(Len(path) - 1) /\ i + 1 \in 1..(Len(path) - 1)
      <3>1. Len(path') = Len(path) - 1 /\ Len(path) \in Nat
        BY <1>2, <1>3
      <3>. QED
        BY <3>1
    <2>2. Edge(i) /\ path'[i] = path[i] /\ path'[i + 1] = path[i + 1]
      BY <1>0, <1>1, <1>3, <2>1 DEF Search
    <2>. QED
      BY <1>0, <2>2 DEF Edge
  <1>10. DependsOn(Here) \subseteq Black
    <2>1. Passed(Len(path))
      BY <1>0, <1>1, <1>2 DEF Search
    <2>2. Len(deps[Here]) \in Nat /\ DOMAIN deps[Here] = 1..Len(deps[Here])
      BY <1>1, <1>2, Listing DEF OrderTypes
    <2>3. \A m \in ToSet(deps[Here]) : \E k \in 1..Len(deps[Here]) : deps[Here][k] = m
      BY <1>1, <1>2, Listing DEF OrderTypes
    <2>4. ASSUME NEW k \in 1..Len(deps[Here])
          PROVE  color[deps[Here][k]] = "black"
      <3>1. k < Looking /\ k \in DOMAIN deps[Here] /\ ~ (Len(path) < Len(path))
        BY <1>0, <1>2, <2>2
      <3>. QED
        BY <1>2, <2>1, <3>1 DEF Passed
    <2>. QED
      BY <1>2, <1>7, <2>3, <2>4 DEF DependsOn, Black, Valid
  <1>11. Black' = Black \cup {Here}
    BY <1>1, <1>2, <1>5 DEF Black
  <1>12. ASSUME NEW i \in 1..Len(path')
         PROVE  Passed(i)'
    <2>0. i \in 1..(Len(path) - 1) /\ i \in 1..Len(path) /\ i + 1 \in 1..Len(path) /\ i < Len(path)
      <3>1. Len(path') = Len(path) - 1 /\ Len(path) \in Nat
        BY <1>2, <1>3
      <3>. QED
        BY <3>1
    <2>1. Passed(i) /\ path'[i] = path[i] /\ Edge(i)
      BY <1>0, <1>1, <1>3, <2>0 DEF Search
    <2>2. path[i][1] \in Declared
      BY <1>1, <2>0, Stack DEF OrderTypes
    <2>3. \A k \in DOMAIN deps[path[i][1]] : deps[path[i][1]][k] \in Declared
      BY <1>1, <1>7, <2>2, Listing DEF OrderTypes, Valid, DependsOn
    <2>4. ASSUME NEW k \in DOMAIN deps[path[i][1]], k < path[i][2]
          PROVE  \/ color'[deps[path[i][1]][k]] = "black"
                 \/ k = path[i][2] - 1 /\ i < Len(path')
      <3>1. CASE color[deps[path[i][1]][k]] = "black"
        BY <1>5, <2>3, <3>1
      <3>2. CASE color[deps[path[i][1]][k]] # "black"
        <4>1. k = path[i][2] - 1
          BY <2>1, <2>4, <3>2 DEF Passed
        <4>2. CASE i + 1 = Len(path)
          <5>1. deps[path[i][1]][k] = Here
            BY <1>2, <2>1, <4>1, <4>2 DEF Edge
          <5>. QED
            BY <1>2, <1>5, <5>1
        <4>3. CASE i + 1 # Len(path)
          <5>1. Len(path') = Len(path) - 1 /\ Len(path) \in Nat
            BY <1>2, <1>3
          <5>2. i < Len(path')
            BY <2>0, <4>3, <5>1
          <5>. QED
            BY <4>1, <5>2
        <4>. QED
          BY <4>2, <4>3
      <3>. QED
        BY <3>1, <3>2
    <2>. QED
      BY <1>0, <2>1, <2>4 DEF Passed
  <1>13. BlackIsSound'
    <2>1. /\ \A n \in Black : DependsOn(n) \subseteq Black
          /\ \A T \in (SUBSET Black) \ {{}} : \E n \in T : DependsOn(n) \cap T = {}
      BY <1>0, <1>1 DEF Search, BlackIsSound
    <2>2. \A n \in Black \cup {Here} : DependsOn(n) \subseteq Black
      BY <1>10, <2>1
    <2>3. ASSUME NEW T \in (SUBSET (Black \cup {Here})) \ {{}}
          PROVE  \E n \in T : DependsOn(n) \cap T = {}
      <3>. DEFINE U == T \ {Here}
      <3>1. CASE U = {}
        <4>1. T = {Here}
          BY <3>1
        <4>2. Here \notin DependsOn(Here)
          BY <1>2, <1>7 DEF Valid
        <4>. QED
          BY <4>1, <4>2
      <3>2. CASE U # {}
        <4>0. color[Here] # "black"
          <5>1. Len(path) \in 1..Len(path)
            BY <1>2
          <5>2. color[Here] = "gray"
            BY <1>0, <1>2, <5>1, Gray
          <5>. QED
            BY <5>2
        <4>1. U \in (SUBSET Black) \ {{}}
          BY <3>2
        <4>2. PICK n \in U : DependsOn(n) \cap U = {}
          BY <2>1, <4>1
        <4>3. n \in Black
          BY <4>1
        <4>4. DependsOn(n) \subseteq Black
          BY <2>1, <4>3
        <4>5. Here \notin Black
          BY <4>0 DEF Black
        <4>. QED
          BY <4>2, <4>4, <4>5
      <3>. QED
        BY <3>1, <3>2
    <2>4. \A n : DependsOn(n)' = DependsOn(n)
      BY <1>0 DEF DependsOn
    <2>. QED
      BY <1>11, <2>2, <2>3, <2>4 DEF BlackIsSound
  <1>14. Search'
    BY <1>0, <1>7, <1>8, <1>9, <1>12, <1>13 DEF Search
  <1>15. Sort' /\ Ends' /\ DependenciesFirst'
    BY <1>0, <1>1 DEF Sort, Ends, DependenciesFirst, Sound, Waiting
  <1>. QED
    BY <1>6, <1>14, <1>15 DEF OrderInv

\* When no service is white all are black: depends_on has no circle.
LEMMA StartSortKeeps == OrderInv /\ StartSort => OrderInv'
  <1>. SUFFICES ASSUME OrderInv, StartSort PROVE OrderInv'
    OBVIOUS
  <1>0. /\ stage = "search" /\ path = <<>> /\ White = {} /\ stage' = "sort"
        /\ inDegree' = [n \in Declared |-> Len(deps[n])]
        /\ ready' = {n \in Declared : deps[n] = <<>>}
        /\ UNCHANGED <<deps, color, path, order>>
    BY DEF StartSort
  <1>1. OrderTypes /\ Search /\ Sort /\ Ends /\ DependenciesFirst /\ Declared' = Declared
    BY <1>0 DEF OrderInv, Declared
  <1>2. \A n \in Declared : Len(deps[n]) \in Nat /\ DOMAIN deps[n] = 1..Len(deps[n])
    BY <1>1, Listing DEF OrderTypes
  <1>3. OrderTypes'
    BY <1>0, <1>1, <1>2 DEF OrderTypes
  <1>4. order = <<>>
    BY <1>0, <1>1 DEF Sort
  <1>5. Black = Declared
    <2>1. ASSUME NEW n \in Declared
          PROVE  color[n] = "black"
      <3>1. color[n] # "white"
        BY <1>0 DEF White
      <3>2. color[n] # "gray"
        <4>1. Len(path) = 0 /\ 1..0 = {}
          BY <1>0, EmptySeq
        <4>. QED
          BY <1>0, <4>1, Gray
      <3>. QED
        BY <1>1, <3>1, <3>2 DEF OrderTypes
    <2>. QED
      BY <2>1 DEF Black
  <1>6. Sound
    BY <1>0, <1>1, <1>5 DEF Search, BlackIsSound, Sound, DependsOn
  <1>7. ASSUME NEW n \in Declared
        PROVE  /\ Len(deps[n]) = Cardinality(Waiting(n))
               /\ Len(deps[n]) = 0 <=> deps[n] = <<>>
    <2>1. ToSet(order) = {}
      BY <1>4 DEF ToSet
    <2>2. Waiting(n) = 1..Len(deps[n])
      BY <1>2, <2>1 DEF Waiting
    <2>3. Cardinality(1..Len(deps[n])) = Len(deps[n])
      BY <1>2, FS_Interval
    <2>4. Len(deps[n]) = 0 <=> deps[n] = <<>>
      BY <1>1, Listing, EmptySeq DEF OrderTypes
    <2>. QED
      BY <2>2, <2>3, <2>4
  <1>8. Sort'
    <2>1. ToSet(order) = {} /\ DOMAIN order = {}
      BY <1>4 DEF ToSet
    <2>2. \A n \in Declared : Waiting(n)' = Waiting(n)
      BY <1>0 DEF Waiting
    <2>3. \A n \in Declared :
             /\ inDegree'[n] = Cardinality(Waiting(n))
             /\ inDegree'[n] = 0 <=> n \in ready'
      BY <1>0, <1>7
    <2>4. Sound'
      BY <1>0, <1>6 DEF Sound, Declared
    <2>. QED
      BY <1>0, <1>1, <2>1, <2>2, <2>3, <2>4 DEF Sort
  <1>9. Search' /\ Ends' /\ DependenciesFirst'
    BY <1>0, <1>1 DEF Search, Ends, DependenciesFirst
  <1>. QED
    BY <1>3, <1>8, <1>9 DEF OrderInv

LEMMA Appended ==
    ASSUME NEW D, NEW s \in Seq(D), NEW x \in D
    PROVE  /\ Append(s, x) \in Seq(D) /\ Len(s) \in Nat /\ DOMAIN s = 1..Len(s)
           /\ DOMAIN Append(s, x) = 1..(Len(s) + 1)
           /\ \A i \in 1..Len(s) : Append(s, x)[i] = s[i]
           /\ Append(s, x)[Len(s) + 1] = x
           /\ ToSet(Append(s, x)) = ToSet(s) \cup {x}
  <1>1. /\ Append(s, x) \in Seq(D) /\ Len(Append(s, x)) = Len(s) + 1
        /\ \A i \in 1..Len(s) : Append(s, x)[i] = s[i]
        /\ Append(s, x)[Len(s) + 1] = x
    BY AppendProperties
  <1>2. Len(s) \in Nat /\ DOMAIN s = 1..Len(s) /\ DOMAIN Append(s, x) = 1..(Len(s) + 1)
    BY <1>1, LenProperties
  <1>3. 1..(Len(s) + 1) = 1..Len(s) \cup {Len(s) + 1}
    BY <1>2
  <1>4. ToSet(Append(s, x)) = ToSet(s) \cup {x}
    BY <1>1, <1>2, <1>3 DEF ToSet
  <1>. QED
    BY <1>1, <1>2, <1>4

\* Taking a ready service: the entries that name it are no longer waited for.
LEMMA TakeKeeps == OrderInv /\ Take => OrderInv'
  <1>. SUFFICES ASSUME OrderInv, Take PROVE OrderInv'
    OBVIOUS
  <1>. DEFINE taken == FirstOf(ready)
              left == [n \in Declared |-> inDegree[n] - Cardinality(Entries(n, taken))]
              unlocked == {n \in Declared : left[n] = 0 /\ inDegree[n] > 0}
  <1>0. /\ stage = "sort" /\ ready # {}
        /\ order' = Append(order, taken) /\ inDegree' = left
        /\ ready' = (ready \ {taken}) \cup unlocked
        /\ UNCHANGED <<deps, stage, color, path>>
    BY DEF Take
  <1>1. OrderTypes /\ Search /\ Sort /\ Ends /\ DependenciesFirst /\ Declared' = Declared
    BY <1>0 DEF OrderInv, Declared
  <1>2. taken \in ready /\ taken \in Declared
    <2>1. ready \subseteq Declared /\ Declared \subseteq ToSet(Names)
      BY <1>1, Lists DEF OrderTypes
    <2>. QED
      BY <1>0, <2>1, FirstOfIn
  <1>. HIDE DEF taken
  <1>3. /\ Sound
        /\ \A i, j \in DOMAIN order : order[i] = order[j] => i = j
        /\ ready \cap ToSet(order) = {}
        /\ \A n \in Declared : inDegree[n] = Cardinality(Waiting(n))
        /\ \A n \in Declared : inDegree[n] = 0 <=> n \in ready \cup ToSet(order)
    BY <1>0, <1>1 DEF Sort
  <1>4. inDegree[taken] = 0 /\ taken \notin ToSet(order)
    BY <1>2, <1>3
  <1>5. /\ order' \in Seq(Declared) /\ Len(order) \in Nat /\ DOMAIN order = 1..Len(order)
        /\ DOMAIN order' = 1..(Len(order) + 1)
        /\ \A i \in 1..Len(order) : order'[i] = order[i]
        /\ order'[Len(order) + 1] = taken
        /\ ToSet(order') = ToSet(order) \cup {taken}
    BY <1>0, <1>1, <1>2, Appended DEF OrderTypes
  <1>6. ASSUME NEW n \in Declared
        PROVE  /\ IsFiniteSet(Waiting(n)) /\ Entries(n, taken) \subseteq Waiting(n)
               /\ Waiting(n)' = Waiting(n) \ Entries(n, taken)
    <2>1. IsFiniteSet(DOMAIN deps[n])
      <3>1. Len(deps[n]) \in Int /\ 1 \in Int /\ DOMAIN deps[n] = 1..Len(deps[n])
        BY <1>1, Listing DEF OrderTypes
      <3>. QED
        BY <3>1, FS_Interval
    <2>2. IsFiniteSet(Waiting(n))
      BY <2>1, FS_Subset DEF Waiting
    <2>3. Entries(n, taken) \subseteq Waiting(n)
      BY <1>4 DEF Entries, Waiting
    <2>4. Waiting(n)' = Waiting(n) \ Entries(n, taken)
      BY <1>0, <1>5 DEF Entries, Waiting
    <2>. QED
      BY <2>2, <2>3, <2>4
  <1>7. ASSUME NEW n \in Declared
        PROVE  /\ left[n] \in Nat /\ left[n] <= inDegree[n]
               /\ left[n] = Cardinality(Waiting(n)')
    <2>1. /\ Cardinality(Waiting(n)') = Cardinality(Waiting(n)) - Cardinality(Entries(n, taken))
          /\ IsFiniteSet(Waiting(n)') /\ IsFiniteSet(Entries(n, taken))
      <3>. DEFINE W == Waiting(n)
                  E == Entries(n, taken)
      <3>1. IsFiniteSet(W) /\ E \in SUBSET W /\ W \cap E = E /\ Waiting(n)' = W \ E
        BY <1>6
      <3>. HIDE DEF W, E
      <3>2. IsFiniteSet(W \ E) /\ Cardinality(W \ E) = Cardinality(W) - Cardinality(E)
        BY <3>1, FS_Difference
      <3>3. IsFiniteSet(E)
        BY <3>1, FS_Subset
      <3>. QED
        BY <3>1, <3>2, <3>3 DEF W, E
    <2>2. /\ Cardinality(Waiting(n)') \in Nat /\ Cardinality(Entries(n, taken)) \in Nat
          /\ inDegree[n] \in Nat
      BY <1>1, <2>1, FS_CardinalityType DEF OrderTypes
    <2>3. left[n] = inDegree[n] - Cardinality(Entries(n, taken))
      OBVIOUS
    <2>. HIDE DEF left
    <2>. QED
      BY <1>3, <2>1, <2>2, <2>3
  <1>8. inDegree' \in [Declared -> Nat]
    BY <1>0, <1>7
  <1>9. OrderTypes'
    <2>1. ready' \subseteq Declared
      BY <1>0, <1>1 DEF OrderTypes
    <2>. QED
      BY <1>0, <1>1, <1>5, <1>8, <2>1 DEF OrderTypes
  <1>10. \A n \in Declared : n \in unlocked <=> left[n] = 0 /\ inDegree[n] > 0
    OBVIOUS
  <1>. HIDE DEF left, unlocked
  <1>11. ASSUME NEW n \in Declared
         PROVE  /\ inDegree'[n] = Cardinality(Waiting(n)')
                /\ inDegree'[n] = 0 <=> n \in ready' \cup ToSet(order')
    <2>1. inDegree[n] \in Nat
      BY <1>1 DEF OrderTypes
    <2>2. n \in ready' \cup ToSet(order') <=> n \in ready \cup ToSet(order) \/ n \in unlocked
      BY <1>0, <1>2, <1>5
    <2>3. left[n] = 0 <=> inDegree[n] = 0 \/ (left[n] = 0 /\ inDegree[n] > 0)
      BY <1>7, <2>1
    <2>. QED
      BY <1>0, <1>3, <1>7, <1>10, <2>2, <2>3
  <1>12. ready' \cap ToSet(order') = {}
    <2>1. ASSUME NEW n \in unlocked
          PROVE  n \notin ToSet(order) \cup {taken}
      <3>1. n \in Declared
        BY <1>0, <1>9 DEF OrderTypes, Declared
      <3>2. inDegree[n] \in Nat /\ inDegree[n] > 0
        BY <1>1, <1>10, <3>1 DEF OrderTypes
      <3>. QED
        BY <1>3, <1>4, <3>1, <3>2
    <2>. QED
      BY <1>0, <1>3, <1>5, <2>1
  <1>13. \A i, j \in DOMAIN order' : order'[i] = order'[j] => i = j
    <2>1. \A i \in 1..(Len(order) + 1) : i \in 1..Len(order) \/ i = Len(order) + 1
      BY <1>5
    <2>2. \A i \in 1..Len(order) : order[i] # taken
      BY <1>4, <1>5 DEF ToSet
    <2>. QED
      BY <1>3, <1>5, <2>1, <2>2
  <1>14. Sort'
    <2>1. Sound'
      BY <1>0, <1>1, <1>3 DEF Sound
    <2>. QED
      BY <1>0, <1>1, <1>11, <1>12, <1>13, <2>1 DEF Sort
  <1>15. DependenciesFirst'
    <2>1. ASSUME NEW j \in 1..(Len(order) + 1), NEW dep \in ToSet(deps[order'[j]])
          PROVE  \E i \in 1..(j - 1) : order'[i] = dep
      <3>1. CASE j \in 1..Len(order)
        <4>1. PICK i \in 1..(j - 1) : order[i] = dep
          BY <1>1, <1>5, <2>1, <3>1 DEF DependenciesFirst
        <4>2. i \in 1..Len(order)
          BY <1>5, <3>1
        <4>. QED
          BY <1>5, <4>1, <4>2
      <3>2. CASE j = Len(order) + 1
        <4>1. order'[j] = taken /\ j - 1 = Len(order)
          BY <1>5, <3>2
        <4>2. Waiting(taken) = {}
          BY <1>2, <1>3, <1>4, <1>6, FS_EmptySet
        <4>3. dep \in ToSet(order)
          BY <2>1, <4>1, <4>2 DEF Waiting, ToSet
        <4>4. PICK i \in 1..Len(order) : order[i] = dep
          BY <1>5, <4>3 DEF ToSet
        <4>. QED
          BY <1>5, <4>1, <4>4
      <3>3. j \in 1..Len(order) \/ j = Len(order) + 1
        BY <1>5
      <3>. QED
        BY <3>1, <3>2, <3>3
    <2>. QED
      BY <1>0, <1>5, <2>1 DEF DependenciesFirst
  <1>16. Search' /\ Ends'
    BY <1>0, <1>1 DEF Search, Ends
  <1>. QED
    BY <1>9, <1>14, <1>15, <1>16 DEF OrderInv

LEMMA SortedKeeps == OrderInv /\ Sorted => OrderInv'
  <1>. SUFFICES ASSUME OrderInv, Sorted PROVE OrderInv'
    OBVIOUS
  <1>0. /\ stage = "sort" /\ ready = {} /\ stage' = "sorted"
        /\ UNCHANGED <<deps, color, path, inDegree, ready, order>>
    BY DEF Sorted
  <1>1. OrderTypes /\ Search /\ Sort /\ Ends /\ DependenciesFirst /\ Declared' = Declared
    BY <1>0 DEF OrderInv, Declared
  <1>2. OrderTypes' /\ Search' /\ Ends' /\ DependenciesFirst'
    BY <1>0, <1>1 DEF OrderTypes, Search, Ends, DependenciesFirst
  <1>3. Sort'
    BY <1>0, <1>1 DEF Sort, Sound, Waiting
  <1>. QED
    BY <1>2, <1>3 DEF OrderInv

LEMMA OrderStutters ==
    ASSUME OrderInv, UNCHANGED order_vars
    PROVE  OrderInv'
  <1>1. UNCHANGED <<deps, stage, color, path, inDegree, ready, order>>
    BY DEF order_vars
  <1>2. OrderTypes /\ Search /\ Sort /\ Ends /\ DependenciesFirst
    BY DEF OrderInv
  <1>3. OrderTypes'
    BY <1>1, <1>2 DEF OrderTypes, Declared
  <1>4. Search'
    <2>1. Declared' = Declared /\ Valid' = Valid /\ GrayOnPath' = GrayOnPath
      BY <1>1 DEF Declared, Valid, GrayOnPath, OnPath, DependsOn
    <2>2. \A i : Edge(i)' = Edge(i)
      BY <1>1 DEF Edge
    <2>3. \A i : Passed(i)' = Passed(i)
      BY <1>1 DEF Passed
    <2>4. BlackIsSound' = BlackIsSound
      BY <1>1 DEF BlackIsSound, Black, DependsOn, Declared
    <2>. QED
      BY <1>1, <1>2, <2>1, <2>2, <2>3, <2>4 DEF Search
  <1>5. Declared' = Declared /\ Sound' = Sound /\ \A n : Waiting(n)' = Waiting(n)
    BY <1>1 DEF Declared, Sound, Waiting
  <1>6. Sort' /\ Ends' /\ DependenciesFirst'
    BY <1>1, <1>2, <1>5 DEF Sort, Ends, DependenciesFirst
  <1>. QED
    BY <1>3, <1>4, <1>6 DEF OrderInv

LEMMA OrderKeeps == OrderInv /\ OrderNext => OrderInv'
  BY ValidateKeeps, StartWalkKeeps, DescendKeeps, CycleFoundKeeps, PassBlackKeeps,
     LeaveKeeps, StartSortKeeps, TakeKeeps, SortedKeeps DEF OrderNext

\* At the end nothing is left out: the services left out would depend on each
\* other in a circle.
LEMMA Complete ==
    ASSUME OrderInv
    PROVE  OrderIsComplete
  <1>1. OrderTypes /\ Sort /\ Ends
    BY DEF OrderInv
  <1>2. ASSUME stage = "sorted"
        PROVE  Sound /\ ToSet(order) = Declared /\ IsInjective(order)
    <2>1. /\ Sound /\ ready = {}
          /\ \A i, j \in DOMAIN order : order[i] = order[j] => i = j
          /\ \A n \in Declared : inDegree[n] = Cardinality(Waiting(n))
          /\ \A n \in Declared : inDegree[n] = 0 <=> n \in ready \cup ToSet(order)
      BY <1>1, <1>2 DEF Sort, Ends
    <2>2. ToSet(order) \subseteq Declared
      BY <1>1, ElementOfSeq, LenProperties DEF OrderTypes, ToSet
    <2>. DEFINE S == Declared \ ToSet(order)
    <2>3. ASSUME S # {}
          PROVE  FALSE
      <3>1. PICK n \in S : ToSet(deps[n]) \cap S = {}
        BY <2>1, <2>3 DEF Sound
      <3>2. ToSet(deps[n]) \subseteq ToSet(order)
        BY <2>1, <3>1 DEF Sound
      <3>3. Waiting(n) = {}
        BY <3>2 DEF Waiting, ToSet
      <3>. QED
        BY <2>1, <3>1, <3>3, FS_EmptySet
    <2>. QED
      BY <2>1, <2>2, <2>3 DEF IsInjective
  <1>. QED
    BY <1>1, <1>2 DEF OrderIsComplete, Ends

----------------------------------------------------------------------------
(***************************************************************************)
(* The deploy along the order, and the cluster underneath.                 *)
(***************************************************************************)
PodType == [rev: {"old", "new"}, state: {"starting", "ready", "down", "stuck"},
            restarts: 0..MaxRestarts]
PodsType == UNION {[D -> PodType] : D \in SUBSET (1..4)}

\* A service that was not there and whose image cannot be fetched.
Hopeless(n) == setup[n].image = "missing" /\ setup[n].old = "none"
Lasting(n) == Steady(n) /\ ~ InPlace(n)

RolloutTypes ==
    /\ setup \in [Declared -> SetupType]
    /\ template \in [Declared -> {"old", "new"}]
    /\ pods \in [Declared -> PodsType]
    /\ phase \in {"order", "apply", "wait", "settle", "passed", "failed"}
    /\ at \in Nat \ {0}
    /\ why \in {"none", "unreachable", "hard", "timeout", "crashed"}
    /\ phase = "failed" <=> why # "none"

Progress ==
    /\ phase = "order" => at = 1 /\ \A n \in Declared : template[n] = "old"
    /\ phase # "order" => stage = "sorted"
    /\ at <= Len(order) + 1
    /\ phase \in {"wait", "settle"} => at <= Len(order)

Applied ==
    \A n \in Declared : template[n] = "new" =>
        \E i \in 1..Len(order) : order[i] = n /\ i <= at

GoodPod(n, p) ==
    /\ p.rev = "new" => template[n] = "new"
    /\ setup[n].old = "none" => p.rev = "new"
    /\ Hopeless(n) => p.state \in {"starting", "stuck"}

PodsFit == \A n \in Declared : \A p \in DOMAIN pods[n] : GoodPod(n, pods[n][p])

\* What the deploy has seen ready still answers, and could be ready at all.
Behind(i) == i < at \/ (i = at /\ phase = "settle")
Fine(n) == ~ Hopeless(n) /\ (Lasting(n) => Serves(n))
Outcome == \A i \in 1..Len(order) : Behind(i) => Fine(order[i])

RolloutInv == OrderInv /\ RolloutTypes /\ Progress /\ Applied /\ PodsFit /\ Outcome

LEMMA PodsOfService ==
    ASSUME RolloutTypes, NEW n \in Declared
    PROVE  /\ pods[n] \in [DOMAIN pods[n] -> PodType] /\ DOMAIN pods[n] \subseteq 1..4
           /\ IsFiniteSet(DOMAIN pods[n])
  <1>1. pods[n] \in PodsType
    BY DEF RolloutTypes
  <1>2. pods[n] \in [DOMAIN pods[n] -> PodType] /\ DOMAIN pods[n] \subseteq 1..4
    BY <1>1 DEF PodsType
  <1>3. IsFiniteSet(1..4)
    <2>1. 1 \in Int /\ 4 \in Int
      OBVIOUS
    <2>. QED
      BY <2>1, FS_Interval
  <1>. QED
    BY <1>2, <1>3, FS_Subset

LEMMA RolloutInitInv == RolloutInit => RolloutInv
  <1>. SUFFICES ASSUME RolloutInit PROVE RolloutInv
    OBVIOUS
  <1>1. OrderInv
    BY OrderInitInv DEF RolloutInit
  <1>2. /\ deps \in Graphs /\ order = <<>> /\ Declared \subseteq ToSet(Names)
        /\ template = [n \in Declared |-> "old"]
        /\ pods = [n \in Declared |-> OldPods(setup[n])]
        /\ phase = "order" /\ at = 1 /\ seen = <<>> /\ why = "none"
    BY Lists DEF RolloutInit, OrderInit
  <1>3. setup \in [Declared -> SetupType]
    <2>1. \A n \in Declared : Setups[n] # {} /\ Setups[n] \subseteq SetupType
      BY <1>2, SetupsAssumption
    <2>2. CASE deps \in Deployed
      BY <2>1, <2>2 DEF RolloutInit
    <2>3. CASE deps \notin Deployed
      <3>1. setup = [n \in Declared |-> CHOOSE s \in Setups[n] : TRUE]
        BY <2>3 DEF RolloutInit
      <3>2. \A n \in Declared : (CHOOSE s \in Setups[n] : TRUE) \in SetupType
        BY <2>1
      <3>. QED
        BY <3>1, <3>2
    <2>. QED
      BY <2>2, <2>3
  <1>4. ASSUME NEW n \in Declared
        PROVE  /\ OldPods(setup[n]) \in PodsType
               /\ \A p \in DOMAIN OldPods(setup[n]) :
                     OldPods(setup[n])[p].rev = "old" /\ setup[n].old # "none"
    <2>1. setup[n].replicas \in 1..2
      BY <1>3 DEF SetupType
    <2>2. CASE setup[n].old = "none"
      <3>1. <<>> \in [{} -> PodType] /\ DOMAIN <<>> = {} /\ {} \in SUBSET (1..4)
        BY EmptySeq, LenProperties
      <3>. QED
        BY <2>2, <3>1 DEF OldPods, PodsType
    <2>3. CASE setup[n].old # "none"
      <3>. DEFINE state == IF setup[n].old = "missing" THEN "stuck" ELSE "ready"
                  D == 1..setup[n].replicas
      <3>1. OldPods(setup[n]) = [i \in D |-> Pod("old", state)]
        BY <2>3 DEF OldPods
      <3>2. Pod("old", state) \in PodType /\ Pod("old", state).rev = "old"
        BY SetupsAssumption DEF Pod, PodType
      <3>3. D \in SUBSET (1..4)
        BY <2>1
      <3>. HIDE DEF state, D
      <3>. QED
        BY <2>3, <3>1, <3>2, <3>3 DEF PodsType
    <2>. QED
      BY <2>2, <2>3
  <1>5. RolloutTypes
    BY <1>2, <1>3, <1>4 DEF RolloutTypes
  <1>6. Progress /\ Applied
    BY <1>2, EmptySeq DEF Progress, Applied
  <1>7. PodsFit
    <2>1. ASSUME NEW n \in Declared, NEW p \in DOMAIN pods[n]
          PROVE  GoodPod(n, pods[n][p])
      <3>1. pods[n] = OldPods(setup[n])
        BY <1>2
      <3>2. pods[n][p].rev = "old" /\ setup[n].old # "none"
        BY <1>4, <3>1
      <3>. QED
        BY <3>2 DEF GoodPod, Hopeless
    <2>. QED
      BY <2>1 DEF PodsFit
  <1>8. Outcome
    <2>1. 1..Len(order) = {}
      BY <1>2, EmptySeq
    <2>. QED
      BY <2>1 DEF Outcome
  <1>. QED
    BY <1>1, <1>5, <1>6, <1>7, <1>8 DEF RolloutInv

\* The order is made before the deploy begins.
LEMMA OrdersKeeps == RolloutInv /\ Orders => RolloutInv'
  <1>. SUFFICES ASSUME RolloutInv, Orders PROVE RolloutInv'
    OBVIOUS
  <1>0. OrderNext /\ UNCHANGED <<setup, template, pods, phase, at, seen, why>>
    BY DEF Orders, cluster_vars, wait_vars
  <1>1. OrderInv /\ RolloutTypes /\ Progress /\ PodsFit
    BY DEF RolloutInv
  <1>2. OrderInv'
    BY <1>0, <1>1, OrderKeeps
  <1>3. deps' = deps /\ stage # "sorted"
    BY <1>0 DEF OrderNext, Validate, StartWalk, Descend, CycleFound, PassBlack, Leave,
                StartSort, Take, Sorted, Enter
  <1>4. Declared' = Declared
    BY <1>3 DEF Declared
  <1>5. phase = "order" /\ at = 1 /\ \A n \in Declared : template[n] = "old"
    BY <1>1, <1>3 DEF Progress
  <1>6. RolloutTypes'
    BY <1>0, <1>1, <1>4 DEF RolloutTypes
  <1>7. Progress' /\ Applied'
    <2>1. Len(order') \in Nat
      BY <1>2, LenProperties DEF OrderInv, OrderTypes
    <2>. QED
      BY <1>0, <1>4, <1>5, <2>1 DEF Progress, Applied
  <1>8. PodsFit'
    BY <1>0, <1>1, <1>4 DEF PodsFit, GoodPod, Hopeless
  <1>9. Outcome'
    <2>1. \A i \in 1..Len(order') : ~ Behind(i)'
      BY <1>0, <1>5 DEF Behind
    <2>. QED
      BY <2>1 DEF Outcome
  <1>. QED
    BY <1>2, <1>6, <1>7, <1>8, <1>9 DEF RolloutInv

\* A step of the deploy that stays at its service.
LEMMA PhaseStep ==
    ASSUME RolloutInv, UNCHANGED <<order_vars, setup, template, pods, at>>,
           stage = "sorted",
           phase' \in {"apply", "wait", "settle", "passed", "failed"},
           why' \in {"none", "unreachable", "hard", "timeout", "crashed"},
           phase' = "failed" <=> why' # "none",
           phase' \in {"wait", "settle"} => at <= Len(order),
           phase' = "settle" => Fine(order[at])
    PROVE  RolloutInv'
  <1>1. OrderInv /\ RolloutTypes /\ Progress /\ Applied /\ PodsFit /\ Outcome
    BY DEF RolloutInv
  <1>2. OrderInv' /\ UNCHANGED <<deps, stage, order>>
    BY <1>1, OrderStutters DEF order_vars
  <1>3. Declared' = Declared
    BY <1>2 DEF Declared
  <1>4. RolloutTypes'
    BY <1>1, <1>3 DEF RolloutTypes
  <1>5. Progress' /\ Applied'
    BY <1>1, <1>2, <1>3 DEF Progress, Applied
  <1>6. PodsFit'
    BY <1>1, <1>3 DEF PodsFit, GoodPod, Hopeless
  <1>7. Outcome'
    <2>1. ASSUME NEW i \in 1..Len(order), Behind(i)'
          PROVE  Fine(order[i])
      <3>1. i < at \/ (i = at /\ phase' = "settle")
        BY <2>1 DEF Behind
      <3>. QED
        BY <1>1, <3>1 DEF Outcome, Behind
    <2>2. \A n : Fine(n)' = Fine(n)
      BY DEF Fine, Hopeless, Lasting, Steady, InPlace, Serves, PodsIn
    <2>. QED
      BY <1>2, <2>1, <2>2 DEF Outcome
  <1>. QED
    BY <1>2, <1>4, <1>5, <1>6, <1>7 DEF RolloutInv

\* A step past a service that is fine.
LEMMA PassStep ==
    ASSUME RolloutInv, Passes, at <= Len(order), stage = "sorted", phase # "failed",
           Fine(order[at])
    PROVE  RolloutInv'
  <1>0. /\ phase' = "apply" /\ at' = at + 1
        /\ UNCHANGED <<order_vars, setup, template, pods, why>>
    BY DEF Passes, cluster_vars
  <1>1. OrderInv /\ RolloutTypes /\ Progress /\ Applied /\ PodsFit /\ Outcome
    BY DEF RolloutInv
  <1>2. OrderInv' /\ UNCHANGED <<deps, stage, order>>
    BY <1>0, <1>1, OrderStutters DEF order_vars
  <1>3. Declared' = Declared
    BY <1>2 DEF Declared
  <1>4. at \in Nat /\ Len(order) \in Nat
    BY <1>1, LenProperties DEF RolloutTypes, OrderInv, OrderTypes
  <1>5. RolloutTypes'
    BY <1>0, <1>1, <1>3 DEF RolloutTypes
  <1>6. Progress' /\ Applied'
    BY <1>0, <1>1, <1>2, <1>3, <1>4 DEF Progress, Applied
  <1>7. PodsFit'
    BY <1>0, <1>1, <1>3 DEF PodsFit, GoodPod, Hopeless
  <1>8. Outcome'
    <2>1. ASSUME NEW i \in 1..Len(order), Behind(i)'
          PROVE  Fine(order[i])
      <3>1. i < at \/ i = at
        BY <1>0, <1>4, <2>1 DEF Behind
      <3>. QED
        BY <1>1, <3>1 DEF Outcome, Behind
    <2>2. \A n : Fine(n)' = Fine(n)
      BY <1>0 DEF Fine, Hopeless, Lasting, Steady, InPlace, Serves, PodsIn
    <2>. QED
      BY <1>2, <2>1, <2>2 DEF Outcome
  <1>. QED
    BY <1>2, <1>5, <1>6, <1>7, <1>8 DEF RolloutInv

\* A step of the cluster at one service.
LEMMA PodStep ==
    ASSUME RolloutInv, NEW n \in Declared, NEW f \in PodsType, SetPods(n, f),
           \A p \in DOMAIN f : GoodPod(n, f[p]),
           Lasting(n) /\ Serves(n) => \E p \in DOMAIN f : f[p].state = "ready"
    PROVE  RolloutInv'
  <1>0. /\ pods' = [pods EXCEPT ![n] = f]
        /\ UNCHANGED <<order_vars, setup, template, phase, at, seen, why>>
    BY DEF SetPods, wait_vars
  <1>1. OrderInv /\ RolloutTypes /\ Progress /\ Applied /\ PodsFit /\ Outcome
    BY DEF RolloutInv
  <1>2. OrderInv' /\ UNCHANGED <<deps, stage, order>>
    BY <1>0, <1>1, OrderStutters DEF order_vars
  <1>3. Declared' = Declared
    BY <1>2 DEF Declared
  <1>4. \A m \in Declared : pods'[m] = IF m = n THEN f ELSE pods[m]
    BY <1>0, <1>1 DEF RolloutTypes
  <1>5. RolloutTypes'
    BY <1>0, <1>1, <1>3 DEF RolloutTypes
  <1>6. Progress' /\ Applied'
    BY <1>0, <1>1, <1>2, <1>3 DEF Progress, Applied
  <1>7. PodsFit'
    <2>1. ASSUME NEW m \in Declared, NEW p \in DOMAIN pods'[m]
          PROVE  GoodPod(m, pods'[m][p])
      BY <1>1, <1>4 DEF PodsFit
    <2>. QED
      BY <1>0, <1>3, <2>1 DEF PodsFit, GoodPod, Hopeless
  <1>8. Outcome'
    <2>1. ASSUME NEW i \in 1..Len(order), Behind(i)'
          PROVE  Fine(order[i])'
      <3>1. Fine(order[i]) /\ order[i] \in Declared
        BY <1>0, <1>1, <2>1, ElementOfSeq DEF Outcome, Behind, OrderInv, OrderTypes
      <3>2. Hopeless(order[i])' = Hopeless(order[i]) /\ Lasting(order[i])' = Lasting(order[i])
        BY <1>0, <1>2 DEF Hopeless, Lasting, Steady, InPlace
      <3>3. CASE order[i] = n
        <4>1. Lasting(n) => Serves(n)'
          BY <1>4, <3>1, <3>3 DEF Fine, Serves, PodsIn
        <4>. QED
          BY <1>2, <3>1, <3>2, <3>3, <4>1 DEF Fine
      <3>4. CASE order[i] # n
        <4>1. Serves(order[i])' = Serves(order[i])
          BY <1>2, <1>4, <3>1, <3>4 DEF Serves, PodsIn
        <4>. QED
          BY <1>2, <3>1, <3>2, <4>1 DEF Fine
      <3>. QED
        BY <3>3, <3>4
    <2>. QED
      BY <1>2, <2>1 DEF Outcome
  <1>. QED
    BY <1>2, <1>5, <1>6, <1>7, <1>8 DEF RolloutInv

LEMMA ApplyKeeps == RolloutInv /\ Apply => RolloutInv'
  <1>. SUFFICES ASSUME RolloutInv, Apply PROVE RolloutInv'
    OBVIOUS
  <1>0. /\ phase = "apply" /\ at <= Len(order)
        /\ template' = IF setup[Service].image = "same" THEN template
                       ELSE [template EXCEPT ![Service] = "new"]
        /\ phase' = "wait"
        /\ UNCHANGED <<order_vars, setup, pods, at, why>>
    BY DEF Apply
  <1>1. OrderInv /\ RolloutTypes /\ Progress /\ Applied /\ PodsFit /\ Outcome
    BY DEF RolloutInv
  <1>2. OrderInv' /\ UNCHANGED <<deps, stage, order>>
    BY <1>0, <1>1, OrderStutters DEF order_vars
  <1>3. Declared' = Declared
    BY <1>2 DEF Declared
  <1>4. at \in Nat /\ Len(order) \in Nat /\ at \in 1..Len(order)
    BY <1>0, <1>1, LenProperties DEF RolloutTypes, OrderInv, OrderTypes
  <1>5. /\ template' \in [Declared -> {"old", "new"}]
        /\ \A n \in Declared : template'[n] = template[n] \/ (template'[n] = "new" /\ n = Service)
    BY <1>0, <1>1 DEF RolloutTypes
  <1>6. RolloutTypes'
    BY <1>0, <1>1, <1>3, <1>5 DEF RolloutTypes
  <1>7. Progress'
    BY <1>0, <1>1, <1>2 DEF Progress
  <1>8. Applied'
    BY <1>0, <1>1, <1>2, <1>3, <1>4, <1>5 DEF Applied, Service
  <1>9. PodsFit'
    <2>1. \A n \in Declared : template[n] = "new" => template'[n] = "new"
      BY <1>5
    <2>. QED
      BY <1>0, <1>1, <1>3, <2>1 DEF PodsFit, GoodPod, Hopeless
  <1>10. Outcome'
    <2>1. ASSUME NEW i \in 1..Len(order), Behind(i)'
          PROVE  Fine(order[i])
      <3>1. i < at
        BY <1>0, <2>1 DEF Behind
      <3>. QED
        BY <1>1, <3>1 DEF Outcome, Behind
    <2>2. \A n : Fine(n)' = Fine(n)
      BY <1>0 DEF Fine, Hopeless, Lasting, Steady, InPlace, Serves, PodsIn
    <2>. QED
      BY <1>2, <2>1, <2>2 DEF Outcome
  <1>. QED
    BY <1>2, <1>6, <1>7, <1>8, <1>9, <1>10 DEF RolloutInv

\* All pods ready, and some there: the service is fine.
LEMMA ReadyIsFine ==
    ASSUME RolloutInv, Listed, AllReady(Service)
    PROVE  Fine(Service) /\ at <= Len(order) /\ stage = "sorted" /\ phase = "wait"
  <1>1. phase = "wait" /\ DOMAIN pods[Service] # {}
    BY DEF Listed
  <1>2. at <= Len(order) /\ stage = "sorted" /\ PodsFit /\ at \in Nat \ {0}
    BY <1>1 DEF RolloutInv, Progress, RolloutTypes
  <1>3. order \in Seq(Declared) /\ Len(order) \in Nat
    BY LenProperties DEF RolloutInv, OrderInv, OrderTypes
  <1>4. Service \in Declared
    BY <1>2, <1>3, ElementOfSeq DEF Service
  <1>5. PICK p \in DOMAIN pods[Service] : pods[Service][p].state = "ready"
    BY <1>1 DEF AllReady, PodsIn
  <1>6. ~ Hopeless(Service)
    BY <1>2, <1>4, <1>5 DEF PodsFit, GoodPod
  <1>7. Serves(Service)
    BY <1>5 DEF Serves, PodsIn
  <1>. QED
    BY <1>1, <1>2, <1>6, <1>7 DEF Fine

LEMMA SettledIsFine ==
    ASSUME RolloutInv, phase = "settle"
    PROVE  Fine(Service) /\ at <= Len(order) /\ stage = "sorted"
  <1>1. at <= Len(order) /\ stage = "sorted" /\ Outcome /\ at \in Nat \ {0}
    BY DEF RolloutInv, Progress, RolloutTypes
  <1>2. Len(order) \in Nat
    BY LenProperties DEF RolloutInv, OrderInv, OrderTypes
  <1>3. at \in 1..Len(order) /\ Behind(at)
    BY <1>1, <1>2 DEF Behind
  <1>. QED
    BY <1>1, <1>3 DEF Outcome, Service

\* The steps of the deploy after the order is made.
DeploySteps ==
    \/ Begin \/ Apply \/ Unreachable \/ AllPassed
    \/ PollFails \/ PollWaits \/ PollReady \/ TimesOut
    \/ StabilityFails \/ StabilityHolds

LEMMA DeployKeeps == RolloutInv /\ DeploySteps => RolloutInv'
  <1>. SUFFICES ASSUME RolloutInv, DeploySteps PROVE RolloutInv'
    OBVIOUS
  <1>1. /\ phase \in {"order", "apply", "wait", "settle", "passed", "failed"}
        /\ why \in {"none", "unreachable", "hard", "timeout", "crashed"}
        /\ phase = "failed" <=> why # "none"
        /\ phase # "order" => stage = "sorted"
        /\ phase \in {"wait", "settle"} => at <= Len(order)
    BY DEF RolloutInv, RolloutTypes, Progress
  <1>2. CASE Begin
    <2>1. /\ phase = "order" /\ stage = "sorted" /\ phase' = "apply"
          /\ UNCHANGED <<order_vars, setup, template, pods, at, why>>
      BY <1>2 DEF Begin, cluster_vars
    <2>. QED
      BY <1>1, <2>1, PhaseStep
  <1>3. CASE Apply
    BY <1>3, ApplyKeeps
  <1>4. CASE \E reason \in {"unreachable", "hard", "timeout", "crashed"} :
               phase \in {"apply", "wait", "settle"} /\ Fails(reason)
    <2>1. /\ stage = "sorted" /\ phase' = "failed"
          /\ why' \in {"unreachable", "hard", "timeout", "crashed"}
          /\ UNCHANGED <<order_vars, setup, template, pods, at>>
      BY <1>1, <1>4 DEF Fails, cluster_vars
    <2>. QED
      BY <2>1, PhaseStep
  <1>5. CASE AllPassed
    <2>1. /\ phase = "apply" /\ phase' = "passed"
          /\ UNCHANGED <<order_vars, setup, template, pods, at, why>>
      BY <1>5 DEF AllPassed, cluster_vars
    <2>. QED
      BY <1>1, <2>1, PhaseStep
  <1>6. CASE PollWaits
    <2>1. /\ phase = "wait" /\ phase' = "wait"
          /\ UNCHANGED <<order_vars, setup, template, pods, at, why>>
      BY <1>6 DEF PollWaits, Listed, cluster_vars
    <2>. QED
      BY <1>1, <2>1, PhaseStep
  <1>7. CASE PollReady
    <2>1. Fine(Service) /\ at <= Len(order) /\ stage = "sorted" /\ phase = "wait"
      BY <1>7, ReadyIsFine DEF PollReady
    <2>2. CASE Passes
      BY <2>1, <2>2, PassStep DEF Service
    <2>3. CASE phase' = "settle" /\ UNCHANGED <<order_vars, setup, cluster_vars, at, why>>
      <3>1. UNCHANGED <<order_vars, setup, template, pods, at, why>>
        BY <2>3 DEF cluster_vars
      <3>. QED
        BY <1>1, <2>1, <2>3, <3>1, PhaseStep DEF Service
    <2>. QED
      BY <1>7, <2>2, <2>3 DEF PollReady
  <1>8. CASE StabilityHolds
    <2>1. phase = "settle" /\ Passes
      BY <1>8 DEF StabilityHolds
    <2>. QED
      BY <2>1, SettledIsFine, PassStep DEF Service
  <1>9. Unreachable \/ PollFails \/ TimesOut \/ StabilityFails =>
          \E reason \in {"unreachable", "hard", "timeout", "crashed"} :
              phase \in {"apply", "wait", "settle"} /\ Fails(reason)
    BY DEF Unreachable, PollFails, TimesOut, StabilityFails, Listed
  <1>. QED
    BY <1>2, <1>3, <1>4, <1>5, <1>6, <1>7, <1>8, <1>9 DEF DeploySteps

LEMMA CreateKeeps == RolloutInv /\ (\E n \in Declared : CreatePod(n)) => RolloutInv'
  <1>. SUFFICES ASSUME RolloutInv, NEW n \in Declared, CreatePod(n) PROVE RolloutInv'
    OBVIOUS
  <1>1. template[n] = "new"
    BY DEF CreatePod
  <1>2. PICK name \in 1..(2 * setup[n].replicas) \ DOMAIN pods[n] :
          SetPods(n, [p \in DOMAIN pods[n] \cup {name} |->
                         IF p = name THEN Pod("new", "starting") ELSE pods[n][p]])
    BY DEF CreatePod
  <1>3. RolloutTypes /\ PodsFit
    BY DEF RolloutInv
  <1>4. /\ pods[n] \in [DOMAIN pods[n] -> PodType] /\ DOMAIN pods[n] \subseteq 1..4
    BY <1>3, PodsOfService
  <1>5. name \in 1..4
    <2>1. setup[n].replicas \in 1..2
      BY <1>3 DEF RolloutTypes, SetupType
    <2>. QED
      BY <1>2, <2>1
  <1>6. /\ Pod("new", "starting") \in PodType
        /\ Pod("new", "starting").rev = "new" /\ Pod("new", "starting").state = "starting"
    BY SetupsAssumption DEF Pod, PodType
  <1>. DEFINE D == DOMAIN pods[n] \cup {name}
              f == [p \in D |-> IF p = name THEN Pod("new", "starting") ELSE pods[n][p]]
  <1>7. f \in PodsType
    <2>1. D \in SUBSET (1..4) /\ f \in [D -> PodType]
      BY <1>4, <1>5, <1>6
    <2>. QED
      BY <2>1 DEF PodsType
  <1>8. \A p \in DOMAIN f : GoodPod(n, f[p])
    <2>1. GoodPod(n, Pod("new", "starting"))
      BY <1>1, <1>6 DEF GoodPod
    <2>. QED
      BY <1>3, <2>1 DEF PodsFit
  <1>9. Serves(n) => \E p \in DOMAIN f : f[p].state = "ready"
    BY <1>2 DEF Serves, PodsIn
  <1>10. SetPods(n, f)
    BY <1>2
  <1>. HIDE DEF f
  <1>. QED
    BY <1>7, <1>8, <1>9, <1>10, PodStep

LEMMA RemoveKeeps == RolloutInv /\ (\E n \in Declared : RemovePod(n)) => RolloutInv'
  <1>. SUFFICES ASSUME RolloutInv, NEW n \in Declared, RemovePod(n) PROVE RolloutInv'
    OBVIOUS
  <1>1. PICK p \in PodsOf(n, "old") :
          Removable(n, p) /\ SetPods(n, [q \in DOMAIN pods[n] \ {p} |-> pods[n][q]])
    BY DEF RemovePod
  <1>2. RolloutTypes /\ PodsFit
    BY DEF RolloutInv
  <1>3. /\ pods[n] \in [DOMAIN pods[n] -> PodType] /\ DOMAIN pods[n] \subseteq 1..4
        /\ IsFiniteSet(DOMAIN pods[n])
    BY <1>2, PodsOfService
  <1>4. p \in DOMAIN pods[n] /\ pods[n][p].rev = "old"
    BY <1>1 DEF PodsOf
  <1>. DEFINE f == [q \in DOMAIN pods[n] \ {p} |-> pods[n][q]]
  <1>5. f \in PodsType
    <2>1. DOMAIN pods[n] \ {p} \in SUBSET (1..4) /\ f \in [DOMAIN pods[n] \ {p} -> PodType]
      BY <1>3
    <2>. QED
      BY <2>1 DEF PodsType
  <1>6. \A q \in DOMAIN f : GoodPod(n, f[q])
    BY <1>2 DEF PodsFit
  <1>7. ASSUME Lasting(n), Serves(n)
        PROVE  \E q \in DOMAIN f : f[q].state = "ready"
    <2>1. setup[n].old # "none"
      BY <1>2, <1>4 DEF PodsFit, GoodPod
    <2>2. setup[n].kind # "statefulset" /\ setup[n].replicas \in Nat /\ setup[n].replicas >= 1
      BY <1>2, <1>7, <2>1 DEF Lasting, InPlace, RolloutTypes, SetupType
    <2>3. CASE pods[n][p].state = "ready"
      <3>. DEFINE R == PodsIn(n, {"ready"})
      <3>1. Cardinality(R) > setup[n].replicas
        BY <1>1, <2>2, <2>3 DEF Removable, Ready
      <3>2. R \subseteq DOMAIN pods[n] /\ p \in R
        BY <1>4, <2>3 DEF PodsIn
      <3>3. IsFiniteSet(R)
        BY <1>3, <3>2, FS_Subset
      <3>4. Cardinality(R \ {p}) = Cardinality(R) - 1 /\ IsFiniteSet(R \ {p})
        BY <3>2, <3>3, FS_RemoveElement
      <3>5. Cardinality(R) \in Nat
        BY <3>3, FS_CardinalityType
      <3>6. Cardinality(R \ {p}) # 0
        BY <2>2, <3>1, <3>4, <3>5
      <3>7. PICK q \in R : q # p
        BY <3>6, FS_EmptySet
      <3>. QED
        BY <3>7 DEF PodsIn
    <2>4. CASE pods[n][p].state # "ready"
      BY <1>7, <2>4 DEF Serves, PodsIn
    <2>. QED
      BY <2>3, <2>4
  <1>8. SetPods(n, f)
    BY <1>1
  <1>. HIDE DEF f
  <1>. QED
    BY <1>5, <1>6, <1>7, <1>8, PodStep

LEMMA StartKeeps == RolloutInv /\ (\E n \in Declared : StartPod(n)) => RolloutInv'
  <1>. SUFFICES ASSUME RolloutInv, NEW n \in Declared, StartPod(n) PROVE RolloutInv'
    OBVIOUS
  <1>. DEFINE s(p) == IF Image(n, pods[n][p].rev) = "missing" THEN "stuck" ELSE "ready"
  <1>1. PICK p \in PodsIn(n, {"starting", "down"}) :
          SetPods(n, [pods[n] EXCEPT ![p].state = s(p)])
    BY DEF StartPod
  <1>. DEFINE old == pods[n][p]
              f == [pods[n] EXCEPT ![p].state = s(p)]
  <1>2. RolloutTypes /\ PodsFit
    BY DEF RolloutInv
  <1>3. pods[n] \in [DOMAIN pods[n] -> PodType] /\ DOMAIN pods[n] \subseteq 1..4
    BY <1>2, PodsOfService
  <1>4. p \in DOMAIN pods[n] /\ old.state # "ready" /\ old \in PodType
    BY <1>1, <1>3 DEF PodsIn
  <1>5. s(p) \in {"ready", "stuck"}
    OBVIOUS
  <1>6. /\ DOMAIN f = DOMAIN pods[n]
        /\ \A q \in DOMAIN pods[n] : q # p => f[q] = pods[n][q]
        /\ f[p] = [old EXCEPT !.state = s(p)]
    BY <1>3, <1>4
  <1>7. /\ f[p] \in PodType /\ f[p].rev = old.rev /\ f[p].state = s(p)
    BY <1>4, <1>5, <1>6 DEF PodType
  <1>8. f \in PodsType
    <2>1. f \in [DOMAIN pods[n] -> PodType]
      BY <1>3, <1>6, <1>7
    <2>. QED
      BY <1>3, <2>1 DEF PodsType
  <1>9. ASSUME NEW q \in DOMAIN f
        PROVE  GoodPod(n, f[q])
    <2>1. CASE q # p
      BY <1>2, <1>6, <2>1 DEF PodsFit
    <2>2. CASE q = p
      <3>1. GoodPod(n, old)
        BY <1>2, <1>4 DEF PodsFit
      <3>2. Hopeless(n) => s(p) = "stuck"
        <4>1. ASSUME Hopeless(n)
              PROVE  Image(n, old.rev) = "missing"
          <5>1. old.rev = "new" /\ setup[n].image = "missing"
            BY <3>1, <4>1 DEF GoodPod, Hopeless
          <5>. QED
            BY <5>1 DEF Image
        <4>. QED
          BY <4>1
      <3>. QED
        BY <1>7, <2>2, <3>1, <3>2 DEF GoodPod
    <2>. QED
      BY <2>1, <2>2
  <1>10. Serves(n) => \E q \in DOMAIN f : f[q].state = "ready"
    BY <1>4, <1>6 DEF Serves, PodsIn
  <1>11. SetPods(n, f)
    BY <1>1
  <1>. HIDE DEF f
  <1>. QED
    BY <1>8, <1>9, <1>10, <1>11, PodStep

LEMMA CrashKeeps == RolloutInv /\ (\E n \in Declared : CrashPod(n)) => RolloutInv'
  <1>. SUFFICES ASSUME RolloutInv, NEW n \in Declared, CrashPod(n) PROVE RolloutInv'
    OBVIOUS
  <1>1. PICK p \in PodsIn(n, {"ready"}) :
          /\ Image(n, pods[n][p].rev) = "crashing"
          /\ pods[n][p].restarts < MaxRestarts
          /\ SetPods(n, [pods[n] EXCEPT ![p].state = "down", ![p].restarts = @ + 1])
    BY DEF CrashPod
  <1>. DEFINE old == pods[n][p]
              f == [pods[n] EXCEPT ![p].state = "down", ![p].restarts = @ + 1]
  <1>2. RolloutTypes /\ PodsFit
    BY DEF RolloutInv
  <1>3. pods[n] \in [DOMAIN pods[n] -> PodType] /\ DOMAIN pods[n] \subseteq 1..4
    BY <1>2, PodsOfService
  <1>4. p \in DOMAIN pods[n] /\ old.state = "ready" /\ old \in PodType
    BY <1>1, <1>3 DEF PodsIn
  <1>5. /\ DOMAIN f = DOMAIN pods[n]
        /\ \A q \in DOMAIN pods[n] : q # p => f[q] = pods[n][q]
        /\ f[p] = [rev |-> old.rev, state |-> "down", restarts |-> old.restarts + 1]
    BY <1>3, <1>4 DEF PodType
  <1>6. f[p] \in PodType /\ f[p].rev = old.rev
    BY <1>1, <1>4, <1>5, SetupsAssumption DEF PodType
  <1>7. f \in PodsType
    <2>1. f \in [DOMAIN pods[n] -> PodType]
      BY <1>3, <1>5, <1>6
    <2>. QED
      BY <1>3, <2>1 DEF PodsType
  <1>8. GoodPod(n, old) /\ ~ Hopeless(n)
    BY <1>2, <1>4 DEF PodsFit, GoodPod
  <1>9. \A q \in DOMAIN f : GoodPod(n, f[q])
    BY <1>2, <1>5, <1>6, <1>8 DEF PodsFit, GoodPod
  <1>10. ~ Lasting(n)
    <2>1. setup[n].old = "none" => old.rev = "new"
      BY <1>8 DEF GoodPod
    <2>2. old.rev \in {"old", "new"}
      BY <1>4 DEF PodType
    <2>. QED
      BY <1>1, <2>1, <2>2 DEF Lasting, Steady, Image
  <1>11. SetPods(n, f)
    BY <1>1
  <1>. HIDE DEF f
  <1>. QED
    BY <1>7, <1>9, <1>10, <1>11, PodStep

LEMMA RolloutKeeps == RolloutInv /\ [RolloutNext]_rollout_vars => RolloutInv'
  <1>. SUFFICES ASSUME RolloutInv, [RolloutNext]_rollout_vars PROVE RolloutInv'
    OBVIOUS
  <1>1. CASE RolloutNext
    BY <1>1, OrdersKeeps, DeployKeeps, CreateKeeps, RemoveKeeps, StartKeeps, CrashKeeps
    DEF RolloutNext, DeploySteps
  <1>2. CASE UNCHANGED rollout_vars
    <2>1. UNCHANGED <<order_vars, setup, template, pods, phase, at, why>>
      BY <1>2 DEF rollout_vars, cluster_vars, wait_vars
    <2>2. OrderInv /\ RolloutTypes /\ Progress /\ Applied /\ PodsFit /\ Outcome
      BY DEF RolloutInv
    <2>3. OrderInv' /\ UNCHANGED <<deps, stage, order>>
      BY <2>1, <2>2, OrderStutters DEF order_vars
    <2>4. Declared' = Declared
      BY <2>3 DEF Declared
    <2>5. RolloutTypes' /\ Progress' /\ Applied'
      BY <2>1, <2>2, <2>3, <2>4 DEF RolloutTypes, Progress, Applied
    <2>6. PodsFit'
      BY <2>1, <2>2, <2>4 DEF PodsFit, GoodPod, Hopeless
    <2>7. \A n : Fine(n)' = Fine(n)
      BY <2>1 DEF Fine, Hopeless, Lasting, Steady, InPlace, Serves, PodsIn
    <2>8. Outcome'
      BY <2>1, <2>2, <2>3, <2>7 DEF Outcome, Behind
    <2>. QED
      BY <2>3, <2>5, <2>6, <2>8 DEF RolloutInv
  <1>. QED
    BY <1>1, <1>2

LEMMA RolloutAlways == RolloutSpec => []RolloutInv
  BY RolloutInitInv, RolloutKeeps, PTL DEF RolloutSpec

----------------------------------------------------------------------------
(***************************************************************************)
(* What follows from the invariant.                                        *)
(***************************************************************************)
LEMMA OrderOnce ==
    ASSUME OrderInv
    PROVE  /\ Len(order) \in Nat /\ DOMAIN order = 1..Len(order)
           /\ \A i \in 1..Len(order) : order[i] \in Declared
           /\ \A i, j \in 1..Len(order) : order[i] = order[j] => i = j
           /\ Len(order) <= Cardinality(Declared) /\ Cardinality(Declared) \in Nat
  <1>1. order \in Seq(Declared) /\ IsFiniteSet(Declared)
    BY Lists DEF OrderInv, OrderTypes
  <1>2. /\ Len(order) \in Nat /\ DOMAIN order = 1..Len(order)
        /\ order \in [1..Len(order) -> Declared]
    BY <1>1, LenProperties
  <1>3. \A i, j \in 1..Len(order) : order[i] = order[j] => i = j
    <2>1. CASE stage \in {"sort", "sorted"}
      BY <1>2, <2>1 DEF OrderInv, Sort
    <2>2. CASE stage \notin {"sort", "sorted"}
      <3>1. order = <<>>
        BY <2>2 DEF OrderInv, Sort
      <3>2. Len(order) = 0
        BY <3>1, EmptySeq
      <3>. QED
        BY <3>2
    <2>. QED
      BY <2>1, <2>2
  <1>4. order \in Injection(1..Len(order), Declared)
    BY <1>2, <1>3 DEF Injection, IsInjective
  <1>5. Cardinality(1..Len(order)) = Len(order)
    <2>1. 1 \in Int /\ Len(order) \in Int
      BY <1>2
    <2>. QED
      BY <1>2, <2>1, FS_Interval
  <1>6. Cardinality(1..Len(order)) <= Cardinality(Declared)
    BY <1>1, <1>4, FS_Injection
  <1>. QED
    BY <1>1, <1>2, <1>3, <1>5, <1>6, FS_CardinalityType

\* A dependency of a service whose template is new comes before it.
LEMMA DependencyIsBehind ==
    ASSUME RolloutInv, NEW n \in Declared, template[n] = "new", NEW dep \in ToSet(deps[n])
    PROVE  \E i \in 1..Len(order) : order[i] = dep /\ i < at
  <1>1. PICK k \in 1..Len(order) : order[k] = n /\ k <= at
    BY DEF RolloutInv, Applied
  <1>2. Len(order) \in Nat /\ DOMAIN order = 1..Len(order) /\ at \in Nat
    BY OrderOnce DEF RolloutInv, RolloutTypes
  <1>3. PICK i \in 1..(k - 1) : order[i] = dep
    BY <1>1, <1>2 DEF RolloutInv, OrderInv, DependenciesFirst
  <1>4. i \in 1..Len(order) /\ i < at
    BY <1>1, <1>2
  <1>. QED
    BY <1>3, <1>4

LEMMA TypesFollow ==
    ASSUME RolloutInv
    PROVE  TypeOK
  <1>1. OrderTypes /\ RolloutTypes /\ Progress
    BY DEF RolloutInv, OrderInv
  <1>2. ToSet(order) \cup ready \subseteq Declared
    BY <1>1, OrderOnce DEF RolloutInv, OrderTypes, ToSet
  <1>3. at \in 1..(Cardinality(Declared) + 1)
    <2>1. /\ at \in Nat /\ at # 0 /\ at <= Len(order) + 1
          /\ Len(order) \in Nat /\ Len(order) <= Cardinality(Declared)
          /\ Cardinality(Declared) \in Nat
      BY <1>1, OrderOnce DEF RolloutInv, RolloutTypes, Progress
    <2>. QED
      BY <2>1
  <1>4. ASSUME NEW n \in Declared, NEW p \in DOMAIN pods[n]
        PROVE  pods[n][p] \in [rev: {"old", "new"}, restarts: 0..MaxRestarts,
                               state: {"starting", "ready", "down", "stuck"}]
    <2>1. pods[n][p] \in PodType
      BY <1>1, PodsOfService
    <2>. QED
      BY <2>1 DEF PodType
  <1>. QED
    BY <1>1, <1>2, <1>3, <1>4 DEF TypeOK, OrderTypes, RolloutTypes

LEMMA MissingFollows ==
    ASSUME RolloutInv
    PROVE  MissingImagesStop
  <1>1. SUFFICES ASSUME NEW i \in 1..Len(order), Hopeless(order[i])
                 PROVE  /\ at <= i
                        /\ \A n \in Declared : order[i] \in ToSet(deps[n]) => template[n] = "old"
    BY DEF MissingImagesStop, Hopeless
  <1>2. /\ Len(order) \in Nat /\ at \in Nat
        /\ \A k, j \in 1..Len(order) : order[k] = order[j] => k = j
    BY OrderOnce DEF RolloutInv, RolloutTypes
  <1>3. ~ (i < at)
    BY <1>1 DEF RolloutInv, Outcome, Behind, Fine
  <1>4. ASSUME NEW n \in Declared, order[i] \in ToSet(deps[n]), template[n] = "new"
        PROVE  FALSE
    <2>1. PICK k \in 1..Len(order) : order[k] = order[i] /\ k < at
      BY <1>4, DependencyIsBehind
    <2>. QED
      BY <1>2, <1>3, <2>1
  <1>5. \A n \in Declared : template[n] \in {"old", "new"}
    BY DEF RolloutInv, RolloutTypes
  <1>. QED
    BY <1>2, <1>3, <1>4, <1>5

LEMMA ServeFollows ==
    ASSUME RolloutInv
    PROVE  DependenciesServe
  <1>1. SUFFICES ASSUME NEW n \in Declared, Starting(n),
                        NEW dep \in ToSet(deps[n]), Lasting(dep)
                 PROVE  Serves(dep)
    BY DEF DependenciesServe, Lasting
  <1>2. template[n] = "new"
    BY <1>1 DEF RolloutInv, PodsFit, GoodPod, Starting, PodsOf
  <1>3. PICK i \in 1..Len(order) : order[i] = dep /\ i < at
    BY <1>2, DependencyIsBehind
  <1>. QED
    BY <1>1, <1>3 DEF RolloutInv, Outcome, Behind, Fine

----------------------------------------------------------------------------
(***************************************************************************)
(* Every variable of the order and of the roll-out keeps its shape: no     *)
(* service outside the file is taken, the deploy never runs past its last  *)
(* service, and it has failed exactly when it has an error to return.      *)
(***************************************************************************)
THEOREM TypesAlways == RolloutSpec => []TypeOK
  <1>. QED
    BY RolloutAlways, TypesFollow, PTL

(***************************************************************************)
(* ValidateConfig and findDependencyCycle (validate.go) reject depends_on  *)
(* exactly when it has no order, and topoSortServices leaves no service    *)
(* out: for any services and any lists, entries listed twice included.     *)
(***************************************************************************)
THEOREM AlwaysComplete == RolloutSpec => []OrderIsComplete
  <1>1. RolloutInv => OrderIsComplete
    BY Complete DEF RolloutInv
  <1>. QED
    BY <1>1, RolloutAlways, PTL

(***************************************************************************)
(* topsort.go:10: every service comes after all it depends on.             *)
(***************************************************************************)
THEOREM AlwaysDependenciesFirst == RolloutSpec => []DependenciesFirst
  <1>1. RolloutInv => DependenciesFirst
    BY DEF RolloutInv, OrderInv
  <1>. QED
    BY <1>1, RolloutAlways, PTL

(***************************************************************************)
(* rollout.go:66: no service whose image cannot be fetched is passed, and  *)
(* nothing that depends on it is touched.                                  *)
(***************************************************************************)
THEOREM AlwaysMissingImagesStop == RolloutSpec => []MissingImagesStop
  <1>. QED
    BY RolloutAlways, MissingFollows, PTL

(***************************************************************************)
(* services.go:25: a pod of this deploy starts over dependencies that      *)
(* answer, whatever controllers and the kubelet do meanwhile.              *)
(***************************************************************************)
THEOREM AlwaysDependenciesServe == RolloutSpec => []DependenciesServe
  <1>. QED
    BY RolloutAlways, ServeFollows, PTL
=============================================================================
