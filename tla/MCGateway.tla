------------------------------- MODULE MCGateway -------------------------------
(* Two streams of one miner and one of another, jobs for both.             *)
EXTENDS Gateway

CONSTANTS o1, o2, s1, s2, s3, j1, j2, j3

MCSessionOwner == [s \in {s1, s2, s3} |-> IF s = s3 THEN o2 ELSE o1]

MCJobOwner == [j \in {j1, j2, j3} |-> IF j = j3 THEN o2 ELSE o1]
=============================================================================
