----------------------------- MODULE MCMidTier -----------------------------
(* Small instances of MidTier for TLC: the sets of the .cfg files are model *)
(* values.  Threads of a kind, addresses and requests of a kind are         *)
(* interchangeable, so safety is checked up to their permutations.          *)
EXTENDS MidTierImplements, TLC

Symmetric == UNION {Permutations(S) :
    S \in {Addr, Pollers, Workers, Responders, Requests \ Kills, Kills}}
=============================================================================
