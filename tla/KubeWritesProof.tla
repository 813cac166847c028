-------------------------- MODULE KubeWritesProof --------------------------
(***************************************************************************)
(* The helpers implement an atomic store, for any number of clients and    *)
(* objects: types, what a version tells a client, and the refinement.      *)
(***************************************************************************)
EXTENDS KubeWrites, TLAPS

USE DEF Calls, Op, Target, Arg, InFlight

\* Every call is for some object, and turns what it holds into such again.
LEMMA CallTypes ==
    ASSUME NEW x \in Calls
    PROVE  Target(x) \in Objects
  BY DEF Atomic!Calls, Atomic!Target

LEMMA EffectTypes ==
    ASSUME NEW x \in Calls, NEW d \in Atomic!States
    PROVE  Atomic!Effect(x, d) \in Atomic!States
  <1>1. CASE x \in {"ensure", "apply", "create"} \X Objects \X Atomic!Data
    <2>1. Atomic!Arg(x) \in Atomic!Data
      BY <1>1 DEF Atomic!Arg
    <2>2. ASSUME d \in Atomic!Data
          PROVE  Atomic!Merge(d, Atomic!Arg(x)) \in Atomic!Data
      <3>1. PICK K \in SUBSET Keys : d \in [K -> Values]
        BY <2>2 DEF Atomic!Data
      <3>2. PICK L \in SUBSET Keys : Atomic!Arg(x) \in [L -> Values]
        BY <2>1 DEF Atomic!Data
      <3>3. Atomic!Merge(d, Atomic!Arg(x)) \in [K \cup L -> Values]
        BY <3>1, <3>2 DEF Atomic!Merge
      <3>. QED
        BY <3>3 DEF Atomic!Data
    <2>. QED
      BY <1>1, <2>1, <2>2 DEF Atomic!Effect, Atomic!States, Atomic!Op
  <1>2. CASE x \in {"prune"} \X Objects \X Keys
    <2>1. ASSUME d \in Atomic!Data
          PROVE  Atomic!Without(d, Atomic!Arg(x)) \in Atomic!Data
      <3>1. PICK K \in SUBSET Keys : d \in [K -> Values]
        BY <2>1 DEF Atomic!Data
      <3>2. Atomic!Without(d, Atomic!Arg(x)) \in [K \ {Atomic!Arg(x)} -> Values]
        BY <3>1 DEF Atomic!Without
      <3>. QED
        BY <3>2 DEF Atomic!Data
    <2>. QED
      BY <1>2, <2>1 DEF Atomic!Effect, Atomic!States, Atomic!Op
  <1>3. CASE x \in {"delete"} \X Objects \X {"-"}
    BY <1>3 DEF Atomic!Effect, Atomic!States, Atomic!Op
  <1>. QED
    BY <1>1, <1>2, <1>3 DEF Atomic!Calls

----------------------------------------------------------------------------
(***************************************************************************)
(* TypeOK of KubeWrites: what every variable may hold, and that a call in  *)
(* flight has an attempt left.                                             *)
(***************************************************************************)
LEMMA InitTypes == Init => TypeOK
  BY DEF Init, TypeOK, Atomic!States

LEMMA StepTypes == TypeOK /\ [Next]_vars => TypeOK'
  <1>. SUFFICES ASSUME TypeOK, [Next]_vars
                PROVE  TypeOK'
    OBVIOUS
  <1>. USE DEF TypeOK
  <1>1. ASSUME NEW c \in Clients, NEW x \in Calls, Start(c, x)
        PROVE  TypeOK'
    BY <1>1, StepsAssumption DEF Start
  <1>2. ASSUME NEW c \in Clients, Read(c)
        PROVE  TypeOK'
    <2>1. Target(call[c]) \in Objects
      BY CallTypes
    <2>. QED
      BY <1>2, <2>1 DEF Read
  <1>3. ASSUME NEW c \in Clients, Rejected(c)
        PROVE  TypeOK'
    BY <1>3 DEF Rejected, Retried
  <1>4. ASSUME NEW c \in Clients, RequestFails(c)
        PROVE  TypeOK'
    BY <1>4 DEF RequestFails
  <1>5. ASSUME NEW c \in Clients, NEW answer \in {"done", "failed"}, Write(c, answer)
        PROVE  TypeOK'
    <2>1. Target(call[c]) \in Objects
      BY CallTypes
    <2>2. Atomic!Effect(call[c], seen[c]) \in Atomic!States
      BY EffectTypes
    <2>3. Absent \in Atomic!States
      BY DEF Atomic!States
    <2>. QED
      BY <1>5, <2>1, <2>2, <2>3 DEF Write
  <1>6. ASSUME NEW o \in Objects, StatusWritten(o)
        PROVE  TypeOK'
    BY <1>6 DEF StatusWritten
  <1>7. CASE UNCHANGED vars
    BY <1>7 DEF vars
  <1>. QED
    BY <1>1, <1>2, <1>3, <1>4, <1>5, <1>6, <1>7 DEF Next

THEOREM TypeCorrect == Spec => []TypeOK
  BY InitTypes, StepTypes, PTL DEF Spec

----------------------------------------------------------------------------
(***************************************************************************)
(* SeenIsCurrent: an Update that the server would accept is of the object  *)
(* as the client has seen it, and still has something to write.            *)
(***************************************************************************)
LEMMA InitSeen == Init => SeenIsCurrent
  BY DEF Init, SeenIsCurrent

LEMMA StepSeen == TypeOK /\ SeenIsCurrent /\ [Next]_vars => SeenIsCurrent'
  <1>. SUFFICES ASSUME TypeOK, SeenIsCurrent, [Next]_vars
                PROVE  SeenIsCurrent'
    OBVIOUS
  <1>. USE DEF TypeOK, SeenIsCurrent
  <1>0. \A d \in Clients : Target(call[d]) \in Objects
    BY CallTypes
  <1>1. ASSUME NEW c \in Clients, NEW x \in Calls, Start(c, x)
        PROVE  SeenIsCurrent'
    BY <1>0, <1>1 DEF Start
  <1>2. ASSUME NEW c \in Clients, Read(c)
        PROVE  SeenIsCurrent'
    BY <1>0, <1>2 DEF Read, NothingToWrite
  <1>3. ASSUME NEW c \in Clients, Rejected(c)
        PROVE  SeenIsCurrent'
    BY <1>0, <1>3 DEF Rejected
  <1>4. ASSUME NEW c \in Clients, RequestFails(c)
        PROVE  SeenIsCurrent'
    BY <1>0, <1>4 DEF RequestFails
  <1>5. ASSUME NEW c \in Clients, NEW answer \in {"done", "failed"}, Write(c, answer)
        PROVE  SeenIsCurrent'
    BY <1>0, <1>5 DEF Write, NothingToWrite
  <1>6. ASSUME NEW o \in Objects, StatusWritten(o)
        PROVE  SeenIsCurrent'
    BY <1>0, <1>6 DEF StatusWritten
  <1>7. CASE UNCHANGED vars
    BY <1>7 DEF vars, NothingToWrite
  <1>. QED
    BY <1>1, <1>2, <1>3, <1>4, <1>5, <1>6, <1>7 DEF Next

THEOREM SeenCorrect == Spec => []SeenIsCurrent
  BY InitTypes, StepTypes, InitSeen, StepSeen, PTL DEF Spec

----------------------------------------------------------------------------
(***************************************************************************)
(* StoreIsAtomic: the requests implement the abstract store. A call takes  *)
(* effect with its accepted write, or with the Get that finds nothing to   *)
(* write.                                                                  *)
(***************************************************************************)
LEMMA InitRefines == Init => Atomic!Init
  BY DEF Init, Atomic!Init, AbstractPhase

LEMMA NothingWritten ==
    ASSUME NEW x \in Calls, NEW d \in Atomic!States, NothingToWrite(x, d)
    PROVE  Atomic!Effect(x, d) = d
  <1>1. CASE Op(x) = "create"
    BY <1>1 DEF NothingToWrite, Atomic!Effect, Atomic!Op
  <1>2. CASE Op(x) = "prune" /\ d = Absent
    BY <1>2 DEF Atomic!Effect, Atomic!Op
  <1>3. CASE Op(x) = "prune" /\ d # Absent
    <2>1. d \in Atomic!Data
      BY <1>3 DEF Atomic!States
    <2>2. PICK K \in SUBSET Keys : d \in [K -> Values]
      BY <2>1 DEF Atomic!Data
    <2>3. Atomic!Without(d, Atomic!Arg(x)) = d
      BY <1>3, <2>2 DEF NothingToWrite, Atomic!Without, Atomic!Op
    <2>. QED
      BY <1>3, <2>3 DEF Atomic!Effect, Atomic!Op
  <1>. QED
    BY <1>1, <1>2, <1>3 DEF NothingToWrite

LEMMA StepRefines == TypeOK /\ SeenIsCurrent /\ [Next]_vars => [Atomic!Next]_(Atomic!vars)
  <1>. SUFFICES ASSUME TypeOK, SeenIsCurrent, [Next]_vars
                PROVE  [Atomic!Next]_(Atomic!vars)
    OBVIOUS
  <1>. USE DEF TypeOK
  <1>0. \A d \in Clients : Target(call[d]) \in Objects
    BY CallTypes
  <1>1. ASSUME NEW c \in Clients, NEW x \in Calls, Start(c, x)
        PROVE  Atomic!Next
    <2>1. Atomic!Start(c)
      BY <1>1 DEF Start, Atomic!Start, AbstractPhase
    <2>. QED
      BY <2>1 DEF Atomic!Next
  <1>2. ASSUME NEW c \in Clients, Read(c)
        PROVE  [Atomic!Next]_(Atomic!vars)
    <2>1. CASE NothingToWrite(call[c], store[Target(call[c])])
      <3>1. Atomic!Effect(call[c], store[Target(call[c])]) = store[Target(call[c])]
        BY <1>0, <2>1, NothingWritten
      <3>2. AbstractPhase[c] = "pending" /\ AbstractPhase' = [AbstractPhase EXCEPT ![c] = "done"]
        BY <1>2, <2>1 DEF Read, AbstractPhase
      <3>3. store' = [store EXCEPT ![Target(call[c])] =
                         Atomic!Effect(call[c], store[Target(call[c])])]
        BY <1>0, <1>2, <3>1 DEF Read
      <3>4. Atomic!TakeEffect(c)
        BY <1>2, <3>2, <3>3 DEF Read, Atomic!TakeEffect
      <3>. QED
        BY <3>4 DEF Atomic!Next
    <2>2. CASE ~ NothingToWrite(call[c], store[Target(call[c])])
      <3>1. AbstractPhase' = AbstractPhase
        BY <1>2, <2>2 DEF Read, AbstractPhase
      <3>. QED
        BY <1>2, <3>1 DEF Read, Atomic!vars
    <2>. QED
      BY <2>1, <2>2
  <1>3. ASSUME NEW c \in Clients, Rejected(c)
        PROVE  [Atomic!Next]_(Atomic!vars)
    <2>1. CASE Retried(c)
      <3>1. AbstractPhase' = AbstractPhase
        BY <1>3, <2>1 DEF Rejected, AbstractPhase
      <3>. QED
        BY <1>3, <3>1 DEF Rejected, Atomic!vars
    <2>2. CASE ~ Retried(c)
      <3>1. AbstractPhase[c] = "pending" /\ AbstractPhase' = [AbstractPhase EXCEPT ![c] = "failed"]
        BY <1>3, <2>2 DEF Rejected, AbstractPhase
      <3>2. Atomic!GiveUp(c)
        BY <1>3, <3>1 DEF Rejected, Atomic!GiveUp
      <3>. QED
        BY <3>2 DEF Atomic!Next
    <2>. QED
      BY <2>1, <2>2
  <1>4. ASSUME NEW c \in Clients, RequestFails(c)
        PROVE  Atomic!Next
    <2>1. AbstractPhase[c] = "pending" /\ AbstractPhase' = [AbstractPhase EXCEPT ![c] = "failed"]
      BY <1>4 DEF RequestFails, AbstractPhase
    <2>2. Atomic!GiveUp(c)
      BY <1>4, <2>1 DEF RequestFails, Atomic!GiveUp
    <2>. QED
      BY <2>2 DEF Atomic!Next
  <1>5. ASSUME NEW c \in Clients, NEW answer \in {"done", "failed"}, Write(c, answer)
        PROVE  Atomic!Next
    <2>1. AbstractPhase[c] = "pending" /\ AbstractPhase' = [AbstractPhase EXCEPT ![c] = answer]
      BY <1>5 DEF Write, AbstractPhase
    <2>2. store' = [store EXCEPT ![Target(call[c])] =
                       Atomic!Effect(call[c], store[Target(call[c])])]
      <3>1. CASE Op(call[c]) = "delete"
        BY <1>5, <3>1 DEF Write, Atomic!Effect, Atomic!Op
      <3>2. CASE Op(call[c]) # "delete"
        <4>1. seen[c] = store[Target(call[c])]
          BY <1>5, <3>2 DEF Write, Accepted, Carries, SeenIsCurrent
        <4>. QED
          BY <1>5, <3>2, <4>1 DEF Write
      <3>. QED
        BY <3>1, <3>2
    <2>3. Atomic!TakeEffect(c)
      BY <1>5, <2>1, <2>2 DEF Write, Atomic!TakeEffect
    <2>. QED
      BY <2>3 DEF Atomic!Next
  <1>6. ASSUME NEW o \in Objects, StatusWritten(o)
        PROVE  UNCHANGED Atomic!vars
    BY <1>6 DEF StatusWritten, Atomic!vars, AbstractPhase
  <1>7. CASE UNCHANGED vars
    BY <1>7 DEF vars, Atomic!vars, AbstractPhase
  <1>. QED
    BY <1>1, <1>2, <1>3, <1>4, <1>5, <1>6, <1>7 DEF Next

THEOREM Refinement == Spec => StoreIsAtomic
  <1>1. Init => Atomic!Init
    BY InitRefines
  <1>2. TypeOK /\ SeenIsCurrent /\ [Next]_vars => [Atomic!Next]_(Atomic!vars)
    BY StepRefines
  <1>. QED
    BY <1>1, <1>2, TypeCorrect, SeenCorrect, PTL DEF Spec, StoreIsAtomic, Atomic!Spec
============================================================================
