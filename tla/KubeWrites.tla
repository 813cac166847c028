----------------------------- MODULE KubeWrites ----------------------------
(***************************************************************************)
(* pkg/kube's helpers as the requests they send: a Get, then a Create or   *)
(* an Update that carries the resourceVersion it read, with controllers    *)
(* and other deploys writing in between.                                   *)
(***************************************************************************)
EXTENDS Naturals

CONSTANTS Clients, Objects, Keys, Values, Absent,
    Steps       \* attempts RetryOnConflict makes: retry.DefaultRetry

ASSUME StepsAssumption == Steps \in Nat \ {0}

VARIABLES
    store,      \* object |-> its entries, or Absent
    version,    \* object |-> its resourceVersion, higher with every write
    call,       \* client |-> the last call it made
    phase,      \* client |-> "idle", "reading", "writing", "done", "failed"
    seen,       \* client |-> what its Get answered
    seenAt,     \* client |-> the resourceVersion of that answer
    tries       \* client |-> attempts left

vars == <<store, version, call, phase, seen, seenAt, tries>>

\* The abstract store these requests implement.
AbstractPhase ==
    [c \in Clients |-> IF phase[c] \in {"reading", "writing"} THEN "pending" ELSE phase[c]]

Atomic == INSTANCE ObjectStore WITH phase <- AbstractPhase

Calls == Atomic!Calls
Op(x) == Atomic!Op(x)
Target(x) == Atomic!Target(x)
Arg(x) == Atomic!Arg(x)

TypeOK ==
    /\ store \in [Objects -> Atomic!States]
    /\ version \in [Objects -> Nat]
    /\ call \in [Clients -> Calls]
    /\ phase \in [Clients -> {"idle", "reading", "writing", "done", "failed"}]
    /\ seen \in [Clients -> Atomic!States]
    /\ seenAt \in [Clients -> Nat]
    /\ tries \in [Clients -> Nat]
    /\ \A c \in Clients : phase[c] \in {"reading", "writing"} => tries[c] > 0

Init ==
    /\ store \in [Objects -> Atomic!States]
    /\ version = [o \in Objects |-> 0]
    /\ call \in [Clients -> Calls]
    /\ phase = [c \in Clients |-> "idle"]
    /\ seen = [c \in Clients |-> Absent]
    /\ seenAt = [c \in Clients |-> 0]
    /\ tries = [c \in Clients |-> 0]

----------------------------------------------------------------------------
InFlight(c) == phase[c] \in {"reading", "writing"}

\* Mutant: the attempts are not counted anew.
StartGoesOn(c, x) ==
    /\ ~ InFlight(c)
    /\ call' = [call EXCEPT ![c] = x]
    /\ phase' = [phase EXCEPT ![c] = IF Op(x) = "delete" THEN "writing" ELSE "reading"]
    /\ UNCHANGED <<store, version, seen, seenAt, tries>>

\* A deletion is one request, everything else begins with a Get.
Start(c, x) ==
    /\ ~ InFlight(c)
    /\ call' = [call EXCEPT ![c] = x]
    /\ phase' = [phase EXCEPT ![c] = IF Op(x) = "delete" THEN "writing" ELSE "reading"]
    /\ tries' = [tries EXCEPT ![c] = Steps]
    /\ UNCHANGED <<store, version, seen, seenAt>>

\* Nothing to prune, or a volume claim that is there already.
NothingToWrite(x, d) ==
    \/ Op(x) = "prune" /\ (d = Absent \/ Arg(x) \notin DOMAIN d)
    \/ Op(x) = "create" /\ d # Absent

Read(c) ==
    /\ phase[c] = "reading"
    /\ LET d == store[Target(call[c])]
       IN /\ seen' = [seen EXCEPT ![c] = d]
          /\ phase' = [phase EXCEPT ![c] =
                          IF NothingToWrite(call[c], d) THEN "done" ELSE "writing"]
    /\ seenAt' = [seenAt EXCEPT ![c] = version[Target(call[c])]]
    /\ UNCHANGED <<store, version, call, tries>>

\* Mutant: an Update does not carry the version that was read, and so is
\* taken for the present one.
CarriesNothing(c) == version[Target(call[c])]

\* The resourceVersion an Update carries is the one its Get answered with.
Carries(c) == seenAt[c]

\* The API server takes a Create of what is absent, and an Update of what is
\* as it was read; a deletion carries no precondition.
Accepted(c) ==
    \/ Op(call[c]) = "delete"
    \/ seen[c] = Absent /\ store[Target(call[c])] = Absent
    \/ seen[c] # Absent /\ store[Target(call[c])] # Absent
       /\ Carries(c) = version[Target(call[c])]

Write(c, answer) ==
    /\ phase[c] = "writing" /\ Accepted(c)
    /\ store' = [store EXCEPT ![Target(call[c])] =
                    IF Op(call[c]) = "delete" THEN Absent
                    ELSE Atomic!Effect(call[c], seen[c])]
    /\ version' = [version EXCEPT ![Target(call[c])] = @ + 1]
    /\ phase' = [phase EXCEPT ![c] = answer]
    /\ UNCHANGED <<call, seen, seenAt, tries>>

\* A conflict, and not what is missing or there already, is tried again, and
\* by Apply alone.
Retried(c) ==
    /\ Op(call[c]) = "apply"
    /\ seen[c] # Absent /\ store[Target(call[c])] # Absent
    /\ tries[c] > 1

Rejected(c) ==
    /\ phase[c] = "writing" /\ ~ Accepted(c)
    /\ phase' = [phase EXCEPT ![c] = IF Retried(c) THEN "reading" ELSE "failed"]
    /\ tries' = [tries EXCEPT ![c] = @ - 1]
    /\ UNCHANGED <<store, version, call, seen, seenAt>>

\* A request that never arrived, or the process stopped before it was sent.
RequestFails(c) ==
    /\ InFlight(c)
    /\ phase' = [phase EXCEPT ![c] = "failed"]
    /\ UNCHANGED <<store, version, call, seen, seenAt, tries>>

\* A controller writes the status.
StatusWritten(o) ==
    /\ store[o] # Absent
    /\ version' = [version EXCEPT ![o] = @ + 1]
    /\ UNCHANGED <<store, call, phase, seen, seenAt, tries>>

Next ==
    \/ \E c \in Clients :
          \/ \E x \in Calls : Start(c, x)
          \/ Read(c) \/ Rejected(c) \/ RequestFails(c)
          \/ \E answer \in {"done", "failed"} : Write(c, answer)
    \/ \E o \in Objects : StatusWritten(o)

Spec == Init /\ [][Next]_vars

(***************************************************************************)
(* Two deploys at once, and controllers beside them, leave every object as *)
(* if the helpers' calls had run one after the other: no merge or removal  *)
(* of a key writes back what somebody else has changed since it looked.    *)
(***************************************************************************)
StoreIsAtomic == Atomic!Spec

\* Why: what a client has seen is what the object holds, as long as the
\* version is the one it has seen.
SeenIsCurrent ==
    \A c \in Clients :
        (phase[c] = "writing" /\ Op(call[c]) # "delete")
            => /\ seenAt[c] <= version[Target(call[c])]
               /\ seenAt[c] = version[Target(call[c])] => seen[c] = store[Target(call[c])]
               /\ ~ NothingToWrite(call[c], seen[c])
============================================================================
