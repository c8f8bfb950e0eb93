------------------------ MODULE SignServiceHistory -------------------------
(* SignService with what its issuers have published in the process's time. *)
EXTENDS SignService

VARIABLE seen         \* the keys each issuer has published in that time

shVars == <<svcVars, seen>>

ShInit == SvcInit /\ seen = published

Notice == seen' = [i \in Issuers |->
                      IF proc' = "down" THEN published'[i] ELSE seen[i] \cup published'[i]]

ShNext == SvcNext /\ Notice

ShSpec == ShInit /\ [][ShNext]_shVars

\* A request gets past verification only on a key that the issuer its token
\* names has published itself, while this process lived: no key gets from one
\* issuer to another, whichever providers requests share, replace and still
\* hold, nor from one process to the next.
KeysAreTheIssuersOwn ==
    \A r \in Requests : pc[r] = "matching" =>
        /\ issuer[r] = IssuerOf[input[r].token]
        /\ key[r] \in seen[issuer[r]]
=============================================================================
