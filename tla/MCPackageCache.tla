--------------------------- MODULE MCPackageCache ---------------------------
(* Up to two builds and a cleaner, in the scenarios where they meet.       *)
EXTENDS PackageCache

CONSTANTS P1, P2, P3, F1, F2, R1, R2, Nowhere

Scenario(a, b, c) == [p \in {P1, P2, P3} |->
                         CASE p = P1 -> a [] p = P2 -> b [] p = P3 -> c]

MCScenarios ==
    {Scenario("std", "std", "cleaner"),
     Scenario("registry", "registry", "none"),
     Scenario("registry", "none", "cleaner"),
     Scenario("registry", "git", "none"),
     Scenario("git", "none", "cleaner"),
     Scenario("git locked", "git", "none"),
     Scenario("git locked", "git offline", "none")}
=============================================================================
