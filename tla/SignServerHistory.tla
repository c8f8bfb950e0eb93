------------------------- MODULE SignServerHistory -------------------------
(***************************************************************************)
(* SignServer with a watch on the emergency stop: how long the active      *)
(* policy has been disabled, and which requests came while it was.         *)
(***************************************************************************)
EXTENDS SignServer

VARIABLES
    stopped,      \* ticks the active policy has been disabled, up to Ceiling
    quiet,        \* those of them in which no older request was still open
    underStop     \* the active policy has been disabled since the request came

hvars == <<vars, stopped, quiet, underStop>>

\* The request may yet be granted a certificate.
Open(r) == pc[r] \in Bound /\ ~Disabled[pol[r]]

HInit == /\ Init
         /\ stopped = 0 /\ quiet = 0
         /\ underStop = [r \in Requests |-> FALSE]

Watch == /\ stopped' = IF Disabled[active'] THEN stopped ELSE 0
         /\ quiet' = IF Disabled[active'] THEN quiet ELSE 0
         /\ underStop' = [r \in Requests |->
               Disabled[active'] /\ (underStop[r] \/ (pc[r] \notin InFlight /\ pc'[r] = "received"))]

Count(t) == IF t < Ceiling THEN t + 1 ELSE Ceiling

Pass == /\ stopped' = IF Disabled[active] THEN Count(stopped) ELSE 0
        /\ quiet' = IF Disabled[active] /\ ~ \E r \in Requests : Open(r)
                    THEN Count(quiet) ELSE 0
        /\ UNCHANGED underStop

HNext == (Timeless /\ Watch) \/ (Tick /\ Pass)

HSpec == HInit /\ [][HNext]_hvars

HistoryTypeOK == /\ TypeOK
                 /\ stopped \in 0..Ceiling /\ quiet \in 0..Ceiling
                 /\ underStop \in [Requests -> BOOLEAN]

\* The emergency stop holds for every request that comes after it, until it
\* is lifted: no interleaving with a reload lets one through.
StopDeniesNewRequests ==
    \A r \in Requests :
        underStop[r] /\ pc[r] \in {"auditing", "responding"} \cup Answered =>
            verdict[r] \in {"policy_disabled", "bad_request"}

\* Ceiling ticks after the requests that were open at the stop are answered
\* no certificate is valid any more, restarts included.
StopOutlastsCertificates == quiet = Ceiling => life = 0

\* What docs/operations.md says of the stop: Ceiling ticks after the reload
\* "no valid certificate exists anywhere".  The code breaks it (a finding): a
\* request that had loaded the old policy may be signed after the stop.
NoCertificateAfterStop == stopped = Ceiling => life = 0
=============================================================================
