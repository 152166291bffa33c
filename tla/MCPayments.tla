----------------------------- MODULE MCPayments -----------------------------
(* Constants of the runs of Payments.                                      *)
EXTENDS Payments, TLC

CONSTANTS r1, r2, k1, k2

Command(key, amount, gw) == [key |-> key, amount |-> amount, gw |-> gw]

(* One key, captured for amounts below, at and above the refunds of 3      *)
(* that are asked for, at the gateway named or at the active one, declined *)
(* by stripe (4), or refused with an unknown gateway.                      *)
RaceCommands ==
  {Command(k1, 2, "stripe"), Command(k1, 3, ""), Command(k1, 4, ""), Command(k1, 3, "pix")}

OneCommand == {Command(k1, 2, "")}

ReplicaSymmetry == Permutations(Replicas)
=============================================================================
