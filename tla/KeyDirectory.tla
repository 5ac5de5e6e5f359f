---------------------------- MODULE KeyDirectory ----------------------------
(***************************************************************************)
(* What the manager promises of keys, whatever stores them: every caller   *)
(* that is told an actor for a key is told the same actor, and no actor    *)
(* answers to two keys.  A key may fall into dispute; from then on nothing *)
(* is promised of it, and no actor of a key in dispute is told for a key   *)
(* that is not.  How the drivers keep this is in ActorDirectory.           *)
(***************************************************************************)
CONSTANTS
    Requests,   \* callers, each asking once
    Keys,       \* the keys of a name
    Actors,     \* actor ids
    None        \* what a caller has been told before its answer

VARIABLES
    told,       \* the answer of each caller: None, or a key and an actor
    disputed    \* the keys in dispute

Answers == [key : Keys, id : Actors]

Agree(a, b) ==
    /\ a.key = b.key => a.id = b.id \/ a.key \in disputed'
    /\ a.id = b.id => a.key = b.key \/ {a.key, b.key} \subseteq disputed'

Init ==
    /\ told = [r \in Requests |-> None]
    /\ disputed = {}

Tell(r) ==
    /\ told[r] = None /\ told'[r] \in Answers
    /\ told' = [told EXCEPT ![r] = told'[r]]
    /\ \A s \in Requests : told[s] # None => Agree(told[s], told'[r])

Dispute == disputed \subseteq disputed' /\ disputed' \subseteq Keys

Next ==
    /\ Dispute
    /\ UNCHANGED told \/ \E r \in Requests : Tell(r)

Spec == Init /\ [][Next]_<<told, disputed>>
=============================================================================
