------------------------------ MODULE MCSuiteRun -----------------------------
(* Specs of the suite: a parallel and a Serial one with a temporary        *)
(* adapter, and a parallel one without.                                    *)
EXTENDS SuiteRun

MCSerial    == {"adapter-failure"}
MCUnmarked  == {"adapter-failover"}
MCDeployers == MCSerial \union MCUnmarked
MCLeaky     == {"adapter-failover"}
MCSpecs     == MCDeployers \union {"creation"}

\* Parallel specs only.
MCParallel  == {"adapter-failover", "creation"}
Nothing     == {}
==============================================================================
