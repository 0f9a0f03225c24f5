----------------------------- MODULE MCCluster ------------------------------
EXTENDS Cluster, TLC

CONSTANTS k1, k2, k3

MCHash   == k1 :> 2 @@ k2 :> 5 @@ k3 :> 4
MCTooBig == {S \in SUBSET Key : k3 \in S /\ S # {k3}}
=============================================================================
