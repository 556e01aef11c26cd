---------------------------- MODULE PolicyArbiter ----------------------------
(***************************************************************************)
(* What the policy manager promises to the resource manager, whatever its  *)
(* arrays look like: whoever is granted policy fits into one combination   *)
(* of the table with all who were granted before, or these are told that   *)
(* they are preempted, each one once and before the grant is told.  The    *)
(* arbiter may lose sight of those it has admitted (mistaken); then it may *)
(* admit somebody beside whom they have no room, and nothing else changes. *)
(***************************************************************************)
EXTENDS Integers, Sequences

CONSTANTS
    Instances,      \* the component instances
    Allowed         \* the instances each combination has room for, the most
                    \* important combination first

VARIABLES
    combination,    \* the combination in force
    admitted,       \* granted once and not freed since
    holders,        \* those of them who may run
    told,           \* what the resource manager has been told and not yet read
    mistaken        \* it no longer knows whom it has admitted

arbVars == <<combination, admitted, holders, told, mistaken>>

Tell(cmd, inst) == [PM_Cmd |-> cmd, inst |-> inst]

\* The ways to take the members of S one after the other, in n steps.
Orders(S, n) == {s \in [1..n -> S] : /\ \A i, j \in 1..n : s[i] = s[j] => i = j
                                    /\ \A x \in S : \E i \in 1..n : s[i] = x}

ArbInit ==
    /\ combination = 1
    /\ admitted = {}
    /\ holders = {}
    /\ told = <<>>
    /\ mistaken = FALSE

\* There is room for inst.  The combination changes only to one that has room for
\* everybody admitted, also for those who do not run, as far as it knows them.
Admit(inst, k) ==
    /\ told' = Append(told, Tell("PM_GRANTPOLICY", inst))
    /\ combination' = k
    /\ inst \in Allowed[k]
    /\ k = combination \/ admitted \subseteq Allowed[k] \/ mistaken
    /\ admitted' = admitted \cup {inst}
    /\ holders' = holders \cup {inst}
    /\ UNCHANGED mistaken

\* A more important combination displaces everybody.
Displace(inst, k) ==
    /\ k < combination
    /\ combination' = k
    /\ holders' = {inst}
    /\ admitted' = admitted \cup {inst}
    /\ inst \in Allowed[k]
    /\ LET n == Len(told') - Len(told) - 1
       IN  \E order \in Orders(admitted, n) :
              told' = told \o [i \in 1..n |-> Tell("PM_PREEMPTED", order[i])]
                           \o <<Tell("PM_GRANTPOLICY", inst)>>
    /\ UNCHANGED mistaken

\* Within the combination in force one of the others has to stop for inst.
MakeRoom(inst, other) ==
    /\ told' = Append(Append(told, Tell("PM_PREEMPTED", other)), Tell("PM_GRANTPOLICY", inst))
    /\ inst \in Allowed[combination]
    /\ other # inst
    /\ admitted' = admitted \cup {inst}
    /\ holders' = (holders \ {other}) \cup {inst}
    /\ UNCHANGED <<combination, mistaken>>

Refuse(inst) ==
    /\ told' = Append(told, Tell("PM_DENYPOLICY", inst))
    /\ UNCHANGED <<combination, admitted, holders, mistaken>>

\* When the last one leaves there is nobody left to be mistaken about.
Leave(inst) ==
    /\ admitted' = admitted \ {inst}
    /\ holders' = holders \ {inst}
    /\ mistaken' = (mistaken /\ admitted' # {})
    /\ UNCHANGED <<combination, told>>

Mistake ==
    /\ admitted # {}
    /\ mistaken' = TRUE
    /\ UNCHANGED <<combination, admitted, holders, told>>

Read ==
    /\ told # <<>>
    /\ told' = Tail(told)
    /\ UNCHANGED <<combination, admitted, holders, mistaken>>

ArbNext ==
    \/ \E k \in DOMAIN Allowed, inst \in Instances : Admit(inst, k) \/ Displace(inst, k)
    \/ \E inst \in Instances, other \in admitted : MakeRoom(inst, other)
    \/ \E inst \in Instances : Refuse(inst)
    \/ \E inst \in admitted : Leave(inst)
    \/ Mistake
    \/ Read

ArbSpec == ArbInit /\ [][ArbNext]_arbVars
=============================================================================
