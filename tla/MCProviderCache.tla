-------------------------- MODULE MCProviderCache --------------------------
(* ProviderCacheHistory for TLC. *)
EXTENDS ProviderCacheHistory, TLC

\* Requests and keys are interchangeable; providers are not, NewProvider picks.
Interchangeable == Permutations(Requests) \cup Permutations(Keys)

\* What the next steps and the properties of the run can tell apart.  A
\* provider is known by who refers to it and by its keys, not by its name; the
\* token of an answered request, a provider nobody refers to and "worked",
\* which only FetchedKeysKeepWorking reads, are left out.
References(p) == {i \in Issuers : provider[i] = p} \cup {r \in Requests : held[r] = p}
Distinguishable ==
    << mu, age, err, failAge, pc, outcome, idpVars,
       {<<References(p), keysOf[p]>> : p \in Providers \ Unused},
       [r \in {s \in Requests : pc[s] \in Active} |-> <<issuer[r], key[r], cancelled[r]>>],
       gone, upFor, failedFor, served, justified, clean >>
=============================================================================
