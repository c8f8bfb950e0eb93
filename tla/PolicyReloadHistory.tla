------------------------ MODULE PolicyReloadHistory ------------------------
(* PolicyReload with what its properties remember of the operator's doings. *)
EXTENDS PolicyReload

VARIABLES
    asked,        \* a SIGHUP has reached the process since the file was edited
    offered       \* the policies the file has held since the process started

hvars == <<procVars, asked, offered>>

HInit == Init /\ asked = FALSE /\ offered = {file} \ {Invalid}

Remember == /\ asked' = (file' = file /\ proc' # "down" /\ (asked \/ Sighup))
            /\ offered' = (IF proc = "down" THEN {} ELSE offered) \cup ({file'} \ {Invalid})

HNext == Next /\ Remember

HSpec == HInit /\ [][HNext]_hvars /\ WF_hvars(HNext /\ ReloadStep)

\* "A broken reload neither stops nor loosens issuance": the policy in force
\* is always one that the operator has had in the file in this process's time,
\* through any mix of good and bad edits and signals: one that was withdrawn
\* before the process started does not come back.
ActiveWasOffered == proc # "down" => active \in offered

\* From the signal on, as long as the file stays as it was: it is in force, with
\* nothing older on its way there, or the signal waits in the channel, or the
\* reload goroutine is about to read the file, or has read it.
SignalIsPending ==
    asked /\ file # Invalid =>
        \/ active = file /\ reloader = "waiting"
        \/ hup
        \/ reloader = "loading"
        \/ reloader = "storing" /\ loaded = file

\* No SIGHUP is lost on a busy reload goroutine: if the file stays as it was
\* when the signal came, it becomes the policy in force.
ReloadTakesEffect == asked /\ file # Invalid ~> ~asked \/ active = file
=============================================================================
