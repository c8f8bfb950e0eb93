--------------------------- MODULE PolicyReload ----------------------------
(***************************************************************************)
(* The serve process and the policy in force (cmd/oidc-ssh-ca/serve.go):   *)
(* the policy is loaded at startup and again by a goroutine for every      *)
(* SIGHUP it receives, from a file the operator edits at any moment.  The  *)
(* process stops on SIGTERM, after a drain, or dies, and is started again. *)
(***************************************************************************)

CONSTANTS
    Policies,     \* policies that load and validate
    Invalid       \* a policy file that is missing, half written or refused

VARIABLES
    file,         \* what the policy file holds: a policy, or Invalid
    proc,         \* "down", "starting", "up" or "draining"
    active,       \* Server.policy
    hup,          \* the SIGHUP channel's buffer holds a signal
    reloader,     \* the reload goroutine: "waiting", "loading" or "storing"
    loaded        \* the policy it has loaded last

procVars == <<file, proc, active, hup, reloader, loaded>>

\* Handlers and the reload goroutine run.
Serving == proc \in {"up", "draining"}

Init == /\ file \in Policies \cup {Invalid}
        /\ proc = "down"
        /\ active \in Policies
        /\ hup = FALSE
        /\ reloader = "waiting"
        /\ loaded = active

\* policy.Load returns an error.  (Mutant: nobody looks at it.)
NothingRefused(f) == FALSE
Refused(f) == f = Invalid

\* serve loads the policy before anything else; a bad one ends the process.
Start == /\ proc = "down" /\ ~Refused(file)
         /\ proc' = "starting"
         /\ active' = file /\ loaded' = file
         /\ UNCHANGED <<file, hup, reloader>>

\* signal.Notify, the reload goroutine, ListenAndServe.
Listen == /\ proc = "starting"
          /\ proc' = "up"
          /\ UNCHANGED <<file, active, hup, reloader, loaded>>

\* SIGTERM: the listener closes, and requests in flight have 10 s to finish.
Terminate == /\ proc = "up"
             /\ proc' = "draining"
             /\ UNCHANGED <<file, active, hup, reloader, loaded>>

\* Shutdown has returned, or the process dies: a crash, a kill, a failure to
\* listen, a SIGHUP or SIGTERM before Notify has claimed it.
Exit == /\ proc # "down"
        /\ proc' = "down"
        /\ hup' = FALSE /\ reloader' = "waiting"
        /\ UNCHANGED <<file, active, loaded>>

\* The operator replaces the file, at once or through a half-written one.
Edit == /\ \E f \in (Policies \cup {Invalid}) \ {file} : file' = f
        /\ UNCHANGED <<proc, active, hup, reloader, loaded>>

\* The channel has room for one signal; with one waiting, more are dropped.
\* (Mutant: it has no room, and a busy goroutine misses the signal.)
Unbuffered == reloader = "waiting"
Buffered == TRUE
Sighup == /\ Serving
          /\ hup' = (hup \/ Buffered)
          /\ UNCHANGED <<file, proc, active, reloader, loaded>>

\* The reload goroutine receives a signal, loads the file, stores the policy.
ReceiveHup == /\ Serving /\ reloader = "waiting" /\ hup
              /\ hup' = FALSE
              /\ reloader' = "loading"
              /\ UNCHANGED <<file, proc, active, loaded>>

Reload == /\ Serving /\ reloader = "loading"
          /\ \/ Refused(file) /\ reloader' = "waiting" /\ UNCHANGED loaded
             \/ ~Refused(file) /\ reloader' = "storing" /\ loaded' = file
          /\ UNCHANGED <<file, proc, active, hup>>

SetPolicy == /\ Serving /\ reloader = "storing"
             /\ active' = loaded
             /\ reloader' = "waiting"
             /\ UNCHANGED <<file, proc, hup, loaded>>

ReloadStep == ReceiveHup \/ Reload \/ SetPolicy

Next == Start \/ Listen \/ Terminate \/ Exit \/ Edit \/ Sighup \/ ReloadStep

\* The reload goroutine runs when it can; nothing else is obliged to happen.
Spec == Init /\ [][Next]_procVars /\ WF_procVars(ReloadStep)

TypeOK == /\ file \in Policies \cup {Invalid}
          /\ proc \in {"down", "starting", "up", "draining"}
          /\ active \in Policies /\ loaded \in Policies
          /\ hup \in BOOLEAN
          /\ reloader \in {"waiting", "loading", "storing"}
=============================================================================
