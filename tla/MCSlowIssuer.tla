--------------------------- MODULE MCSlowIssuer ----------------------------
(***************************************************************************)
(* Two issuers, one of which may hang (SlowIssuer), for TLC.  To keep the  *)
(* graph small enough for a liveness check the slow issuer fails or        *)
(* answers as it did from the start, if it ever does either, and only the  *)
(* other issuer's clients give up.  That issuer may begin with an outage,  *)
(* of discovery, of the JWKS or of both, which may end at any moment.      *)
(***************************************************************************)
EXTENDS ProviderCache

SlowInit == /\ Init
            /\ issuer = [r \in Requests |-> SlowIssuer]
            /\ \A i \in Issuers : published[i] = Keys
            /\ jwksUp[SlowIssuer]

Recover(i) == Endpoints(i) /\ discUp'[i] /\ jwksUp'[i]

SlowNext == \/ \E r \in Requests : \/ \E i \in Issuers, k \in Keys : Arrive(r, i, k)
                                   \/ Lookup(r) \/ Io(r) \/ Local(r)
                                   \/ issuer[r] # SlowIssuer /\ Cancel(r)
            \/ \E i \in Issuers \ {SlowIssuer} : Recover(i)
            \/ Tick

SlowSpec == SlowInit /\ [][SlowNext]_vars /\ Fairness
=============================================================================
