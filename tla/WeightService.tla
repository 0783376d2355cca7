---------------------------- MODULE WeightService ----------------------------
(***************************************************************************)
(* What an update of the weights promises to those who sample from the     *)
(* engines: an engine that serves serves one version, whole; a version     *)
(* replaces another one only while the engine does not serve; and no       *)
(* engine serves a version before the trainer has got to it.               *)
(***************************************************************************)
EXTENDS Integers

VARIABLES
    latest,    \* the version the trainer has got to
    serving    \* per engine: the version it samples with, or Suspended

Suspended == -1

ServiceInit ==
    /\ latest = 0
    /\ \A e \in DOMAIN serving : serving[e] = 0

\* The next version is there once the trainer has got to it.
Advance == latest' = latest + 1 /\ UNCHANGED serving

\* Some engines stop serving.
Suspend ==
    /\ UNCHANGED latest
    /\ DOMAIN serving' = DOMAIN serving
    /\ \A e \in DOMAIN serving : serving'[e] \in {serving[e], Suspended}

\* Engines serve again: the latest version, or, started anew, the checkpoint.
Resume(e) ==
    /\ serving[e] = Suspended
    /\ serving' = [serving EXCEPT ![e] = latest]
    /\ UNCHANGED latest

Restart(e) ==
    /\ serving' = [serving EXCEPT ![e] = 0]
    /\ UNCHANGED latest

ServiceNext == Advance \/ Suspend \/ \E e \in DOMAIN serving : Resume(e) \/ Restart(e)

ServiceSpec == ServiceInit /\ [][ServiceNext]_<<latest, serving>>
=============================================================================
