------------------------------ MODULE Rollout -------------------------------
(***************************************************************************)
(* What runs of scripts promise about the chain, without client, node,     *)
(* sequence numbers or answers.  Every run has a plan, a sequence of       *)
(* transactions; it carries out some prefix of the plan, each transaction  *)
(* once and in order, and may stop anywhere.  Everyone else may store code *)
(* at any time.                                                            *)
(***************************************************************************)
EXTENDS Integers, Sequences

CONSTANTS
    Parties, Nobody,    \* those whose plans are followed, and everyone else
    Artifacts,          \* what can be stored
    Endowments          \* tokens an instance may begin with

VARIABLES
    plan,       \* plan of each party; never changes
    careful,    \* the ids of stored codes reach the parties; never changes
    done,       \* number of transactions of the plan carried out
    code,       \* codes, each with its owner
    instance    \* instances, each with its code, owner and tokens

rolloutVars == <<plan, careful, done, code, instance>>

RolloutInit ==
    /\ done = [p \in Parties |-> 0]
    /\ instance = <<>>

NextIs(p, type) ==
    /\ done[p] < Len(plan[p])
    /\ plan[p][done[p] + 1] = type
    /\ done' = [done EXCEPT ![p] = @ + 1]

Publish(p) ==
    /\ NextIs(p, "store")
    /\ \E a \in Artifacts : code' = Append(code, [kind |-> a, by |-> p])
    /\ UNCHANGED instance

\* A party that began by publishing a code launches that code.
Launch(p) ==
    /\ NextIs(p, "instantiate")
    /\ \E c \in DOMAIN code, tokens \in Endowments :
        /\ plan[p][1] = "store" /\ careful => code[c].by = p
        /\ instance' = Append(instance, [code |-> c, by |-> p, left |-> tokens])
    /\ UNCHANGED code

\* A party that launched an instance pays from that one only.
Pay(p) ==
    /\ NextIs(p, "transfer")
    /\ \E i \in DOMAIN instance :
        /\ plan[p][1] # "transfer" => instance[i].by = p
        /\ \E n \in 1..instance[i].left :
            instance' = [instance EXCEPT ![i].left = @ - n]
    /\ UNCHANGED code

PublishElsewhere ==
    /\ \E a \in Artifacts : code' = Append(code, [kind |-> a, by |-> Nobody])
    /\ UNCHANGED <<done, instance>>

RolloutNext ==
    /\ (\E p \in Parties : Publish(p) \/ Launch(p) \/ Pay(p)) \/ PublishElsewhere
    /\ UNCHANGED <<plan, careful>>

RolloutSpec == RolloutInit /\ [][RolloutNext]_rolloutVars

=============================================================================
