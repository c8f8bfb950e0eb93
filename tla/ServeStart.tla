---------------------------- MODULE ServeStart -----------------------------
(***************************************************************************)
(* The serve process from its start: the policy of PolicyReload is loaded  *)
(* first, then the key of CAKey; only with both does it listen.            *)
(***************************************************************************)
EXTENDS PolicyReloadHistory

CONSTANTS Files, NoFile, Kind, Strict, Content, Ed25519, OtherPEM, Empty, EnvPEM

VARIABLES
    path, sources, skip, stage, fd, pem   \* of CAKey

CA == INSTANCE CAKey

ASSUME KeyFilesAssumption ==
    /\ NoFile \notin Files
    /\ Kind \in [Files -> {"regular", "fifo", "directory"}]
    /\ Strict \in [Files -> BOOLEAN]
    /\ Content \in [Files -> CA!PEM] /\ EnvPEM \in CA!PEM

keyVars == <<path, sources, skip, stage, fd, pem>>
svars == <<hvars, keyVars>>

SInit == HInit /\ CA!Init

\* serve loads the policy, calls LoadCAKey, and goes on when it has returned
\* a signer.
ServeStep ==
    /\ \/ Start /\ CA!Call
       \/ Listen /\ stage = "loaded" /\ UNCHANGED keyVars
       \/ Exit /\ CA!Forget
       \/ /\ Terminate \/ Edit \/ Sighup \/ ReloadStep
          /\ UNCHANGED keyVars
    /\ Remember

LoadKey == proc = "starting" /\ CA!LoadStep /\ UNCHANGED hvars

SNext == ServeStep \/ LoadKey \/ (CA!Swap /\ UNCHANGED hvars)

\* What the main goroutine does of itself until it serves or gives up.
Proceed == LoadKey \/ (stage = "loaded" /\ Listen /\ ServeStep)
                   \/ (stage = "refused" /\ Exit /\ ServeStep)

SSpec == SInit /\ [][SNext]_svars /\ WF_svars(ReloadStep /\ ServeStep) /\ WF_svars(Proceed)

STypeOK == TypeOK /\ CA!TypeOK

----------------------------------------------------------------------------

\* Whatever the path leads to from one system call to the next, the key that
\* serve starts with is an ed25519 key from the environment or, all of it, from
\* one file that passed every check, and only one source was set.
KeyIsFromItsSoleSource ==
    stage = "loaded" =>
        /\ pem \in Ed25519
        /\ \E s \in CA!Sources : sources = {s}
        /\ \/ "OIDC_SSH_CA_KEY" \in sources /\ pem = EnvPEM
           \/ \E f \in Files : /\ Content[f] = pem
                              /\ Kind[f] = "regular"
                              /\ (skip \/ Strict[f])

\* Wherever the key's path leads, be it to a FIFO nobody writes to, LoadCAKey
\* comes back: serve listens or gives up.
StartupEnds == proc = "starting" ~> proc # "starting"
=============================================================================
