---------------------------- MODULE TransferPlan ----------------------------
(***************************************************************************)
(* Who sends what to whom when weights are written into the engines        *)
(* (RemoteTransferPlan.plan_p2p): every rank of every engine is a target,  *)
(* each is given to one of the trainers that hold all of the weights.      *)
(***************************************************************************)
EXTENDS Integers, Sequences, FiniteSets, FiniteSetsExt, SequencesExt

\* The targets <<engine, rank>>, engine by engine.
AllTargets(engines, gpus) ==
    [i \in 1..(engines * gpus) |-> <<((i - 1) \div gpus) + 1, ((i - 1) % gpus) + 1>>]

\* How many engines source s has been given rank k of.
Load(given, s, k) == Cardinality({t \in given[s] : t[2] = k})

\* Of the sources that hold rank k already the one with the least of it, and
\* the first of those; without one, the next in turn.
Select(plan, sources, k) ==
    LET holders == {s \in 1..sources : Load(plan.given, s, k) > 0}
        least == Min({Load(plan.given, s, k) : s \in holders})
    IN  IF holders # {}
        THEN [source |-> Min({s \in holders : Load(plan.given, s, k) = least}), next |-> plan.next]
        ELSE [source |-> (plan.next % sources) + 1, next |-> plan.next + 1]

Assign(plan, sources, target) ==
    LET s == Select(plan, sources, target[2])
    IN  [given |-> [plan.given EXCEPT ![s.source] = @ \cup {target}], next |-> s.next]

\* plan_p2p: one target for each source in turn, then the rest.
plan_p2p(sources, engines, gpus) ==
    LET all == AllTargets(engines, gpus)
        first == IF sources < Len(all) THEN sources ELSE Len(all)
        start == [given |-> [s \in 1..sources |-> IF s <= first THEN {all[s]} ELSE {}], next |-> 0]
        plan == FoldLeft(LAMBDA p, t : Assign(p, sources, t), start,
                         SubSeq(all, first + 1, Len(all)))
    IN  plan.given

\* The ranks a source writes to, in the order of its dictionary: the rank of its
\* first target, and the others as the rest of the targets came to them.
RanksOf(given, s, gpus) ==
    LET ranks == {t[2] : t \in given[s]}
        first == ((s - 1) % gpus) + 1
        behind(k) == IF k = first THEN 0 ELSE 1 + ((k - 1 - Len(given)) % gpus)
        before(k) == {j \in ranks : behind(j) < behind(k)}
    IN  [i \in 1..Cardinality(ranks) |-> CHOOSE k \in ranks : Cardinality(before(k)) = i - 1]
=============================================================================
