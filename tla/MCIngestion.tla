----------------------------- MODULE MCIngestion -----------------------------
(* A small instance of Ingestion.                                           *)
EXTENDS Ingestion, TLC

CONSTANTS orgA, orgB, i1, i2, r1

MCOrgs == {orgA, orgB}
MCInstallations == {i1, i2}
MCRepos == {r1}
MCInstallationOf == r1 :> i1
MCPublic == {r1}
MCJobs == {<<orgB, r1>>}
=============================================================================
