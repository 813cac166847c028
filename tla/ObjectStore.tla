---------------------------- MODULE ObjectStore ----------------------------
(***************************************************************************)
(* What nvoi's helpers for Kubernetes objects promise to callers that run  *)
(* beside each other: a call that reports success has taken effect once,   *)
(* in one step, on what the object held at that moment; a call that        *)
(* reports an error has taken effect at most once.                         *)
(***************************************************************************)
CONSTANTS
    Clients,    \* processes that deploy
    Objects,    \* objects of the namespace
    Keys,       \* keys an object has entries for
    Values,     \* what is stored under a key
    Absent      \* in place of the object when there is none

VARIABLES
    store,      \* object |-> its entries, or Absent
    call,       \* client |-> the last call it made
    phase       \* client |-> "idle", "pending", "done" or "failed"

vars == <<store, call, phase>>

Data == UNION {[K -> Values] : K \in SUBSET Keys}
States == Data \cup {Absent}

\* EnsureSecret, Apply, Apply of a volume claim, DeleteSecretKey, and the
\* deletions, as <<operation, object, argument>>.
Calls ==
    ({"ensure", "apply", "create"} \X Objects \X Data)
    \cup ({"prune"} \X Objects \X Keys)
    \cup ({"delete"} \X Objects \X {"-"})

Op(x) == x[1]
Target(x) == x[2]
Arg(x) == x[3]

Merge(old, new) ==
    [k \in DOMAIN old \cup DOMAIN new |-> IF k \in DOMAIN new THEN new[k] ELSE old[k]]

Without(old, key) == [k \in DOMAIN old \ {key} |-> old[k]]

\* What a call makes of an object that holds d.
Effect(x, d) ==
    CASE Op(x) = "ensure" -> IF d = Absent THEN Arg(x) ELSE Merge(d, Arg(x))
      [] Op(x) = "apply" -> Arg(x)
      [] Op(x) = "create" -> IF d = Absent THEN Arg(x) ELSE d
      [] Op(x) = "prune" -> IF d = Absent THEN d ELSE Without(d, Arg(x))
      [] OTHER -> Absent

----------------------------------------------------------------------------
Init ==
    /\ store \in [Objects -> States]
    /\ call \in [Clients -> Calls]
    /\ phase = [c \in Clients |-> "idle"]

Start(c) ==
    /\ phase[c] # "pending"
    /\ \E x \in Calls : call' = [call EXCEPT ![c] = x]
    /\ phase' = [phase EXCEPT ![c] = "pending"]
    /\ UNCHANGED store

\* The one step in which a call takes effect; its answer may get lost.
TakeEffect(c) ==
    /\ phase[c] = "pending"
    /\ store' = [store EXCEPT ![Target(call[c])] = Effect(call[c], @)]
    /\ \E answer \in {"done", "failed"} : phase' = [phase EXCEPT ![c] = answer]
    /\ UNCHANGED call

GiveUp(c) ==
    /\ phase[c] = "pending"
    /\ phase' = [phase EXCEPT ![c] = "failed"]
    /\ UNCHANGED <<store, call>>

Next == \E c \in Clients : Start(c) \/ TakeEffect(c) \/ GiveUp(c)

Spec == Init /\ [][Next]_vars
============================================================================
