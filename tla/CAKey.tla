------------------------------- MODULE CAKey -------------------------------
(***************************************************************************)
(* LoadCAKey (internal/issuer/cakey.go): the CA's private key, from the    *)
(* one source that is configured.  Every system call on a key file is a    *)
(* step of its own: between two of them the path may come to name another  *)
(* file.  A file keeps its mode and its bytes; replacing it is a new file. *)
(***************************************************************************)
CONSTANTS
    Files,        \* what the path of the key may lead to
    NoFile,
    Kind,         \* [Files -> {"regular", "fifo", "directory"}]
    Strict,       \* [Files -> BOOLEAN]: closed to group and other
    Content,      \* [Files -> PEM]
    Ed25519,      \* PEM blocks that hold an ed25519 key
    OtherPEM,     \* those that hold another key, or none
    Empty,        \* no bytes at all
    EnvPEM        \* the key in the environment, where it is set

PEM == Ed25519 \cup OtherPEM \cup {Empty}
Sources == {"--ca-key-file", "OIDC_SSH_CA_KEY_FILE", "OIDC_SSH_CA_KEY"}

VARIABLES
    path,         \* the file the configured path leads to
    sources,      \* the sources that are set
    skip,         \* --skip-key-permission-check
    stage,        \* where LoadCAKey is
    fd,           \* the open file
    pem           \* the bytes it has read; the signer, once it is loaded

keyVars == <<path, sources, skip, stage, fd, pem>>

Stages == {"resolving", "opening", "checking", "reading", "parsing"}

Init == /\ path \in Files \cup {NoFile}
        /\ sources = {} /\ skip = FALSE /\ stage = "off"
        /\ fd = NoFile /\ pem = Empty

\* LoadCAKey is called, with the command line and environment of this start.
Call == /\ sources' \in SUBSET Sources
        /\ skip' \in BOOLEAN
        /\ stage' = "resolving"
        /\ UNCHANGED <<path, fd, pem>>

\* Exactly one source must be set.  (Mutant: the first one that is counts.)
AtLeastOneSource == sources # {}
SoleSource == \E s \in Sources : sources = {s}

Resolve == /\ stage = "resolving" /\ SoleSource
           /\ \/ /\ "OIDC_SSH_CA_KEY" \in sources
                 /\ stage' = "parsing" /\ pem' = EnvPEM
              \/ /\ sources \ {"OIDC_SSH_CA_KEY"} # {}
                 /\ stage' = "opening" /\ UNCHANGED pem
           /\ UNCHANGED <<path, sources, skip, fd>>

\* os.OpenFile with O_NONBLOCK returns whatever the file is.  (Mutant: without
\* the flag it returns from all but a FIFO, for which no writer may ever come.)
BlockingOpenReturns(f) == f \in Files /\ Kind[f] # "fifo"
OpenReturns(f) == f \in Files

Open == /\ stage = "opening" /\ OpenReturns(path)
        /\ stage' = "checking" /\ fd' = path
        /\ UNCHANGED <<path, sources, skip, pem>>

\* The file that is checked, and read.  (Mutant: the path is opened again.)
PathAgain == path
Descriptor == fd

Acceptable(f) == Kind[f] = "regular" /\ (skip \/ Strict[f])

Check == /\ stage = "checking" /\ Acceptable(fd)
         /\ stage' = "reading"
         /\ UNCHANGED <<path, sources, skip, fd, pem>>

Read == /\ stage = "reading" /\ Descriptor # NoFile
        /\ Content[Descriptor] # Empty
        /\ stage' = "parsing" /\ pem' = Content[Descriptor]
        /\ fd' = NoFile
        /\ UNCHANGED <<path, sources, skip>>

Parse == /\ stage = "parsing" /\ pem \in Ed25519
         /\ stage' = "loaded"
         /\ UNCHANGED <<path, sources, skip, fd, pem>>

\* An error, of the checks or of any system call: startup fails.
Refuse ==
    /\ \/ stage = "resolving" /\ ~SoleSource
       \/ stage = "opening" /\ (path = NoFile \/ OpenReturns(path))
       \/ stage \in {"checking", "reading"}
       \/ stage = "parsing" /\ pem \notin Ed25519
    /\ stage' = "refused"
    /\ UNCHANGED <<path, sources, skip, fd, pem>>

\* The process ends.
Forget == /\ stage' = "off" /\ sources' = {} /\ skip' = FALSE
          /\ fd' = NoFile /\ pem' = Empty
          /\ UNCHANGED path

LoadStep == Resolve \/ Open \/ Check \/ Read \/ Parse \/ Refuse

\* Someone makes the path lead to another file, or to none.
Swap == /\ \E f \in (Files \cup {NoFile}) \ {path} : path' = f
        /\ UNCHANGED <<sources, skip, stage, fd, pem>>

TypeOK == /\ path \in Files \cup {NoFile} /\ fd \in Files \cup {NoFile}
          /\ sources \in SUBSET Sources
          /\ skip \in BOOLEAN
          /\ stage \in Stages \cup {"off", "refused", "loaded"}
          /\ pem \in PEM
=============================================================================
