------------------------- MODULE ServeStartProofs --------------------------
(***************************************************************************)
(* Theorems about ServeStart, for any policies, key files and keys.        *)
(***************************************************************************)
EXTENDS ServeStart, TLAPS

----------------------------------------------------------------------------
(* Type correctness *)

LEMMA ReloadInitType == Init => TypeOK
  BY DEF Init, TypeOK

LEMMA ReloadTypeStep == TypeOK /\ (Next \/ UNCHANGED procVars) => TypeOK'
<1> SUFFICES ASSUME TypeOK, Next \/ UNCHANGED procVars PROVE TypeOK'
  OBVIOUS
<1> USE DEF TypeOK
<1>1. CASE Start
  BY <1>1 DEF Start, Refused
<1>2. CASE Listen \/ Terminate \/ Exit
  BY <1>2 DEF Listen, Terminate, Exit
<1>3. CASE Edit \/ Sighup
  BY <1>3 DEF Edit, Sighup, Buffered
<1>4. CASE ReceiveHup \/ SetPolicy
  BY <1>4 DEF ReceiveHup, SetPolicy
<1>5. CASE Reload
  BY <1>5 DEF Reload, Refused
<1>6. CASE UNCHANGED procVars
  BY <1>6 DEF procVars
<1> QED BY <1>1, <1>2, <1>3, <1>4, <1>5, <1>6 DEF Next, ReloadStep

LEMMA KeyInitType == CA!Init => CA!TypeOK
  BY DEF CA!Init, CA!TypeOK, CA!PEM

LEMMA KeyTypeStep ==
    CA!TypeOK /\ (CA!Call \/ CA!LoadStep \/ CA!Forget \/ CA!Swap \/ UNCHANGED keyVars)
    => CA!TypeOK'
<1> SUFFICES ASSUME CA!TypeOK,
                    CA!Call \/ CA!LoadStep \/ CA!Forget \/ CA!Swap \/ UNCHANGED keyVars
             PROVE  CA!TypeOK'
  OBVIOUS
<1> USE DEF CA!TypeOK, CA!Stages
<1>1. CASE CA!Call
  BY <1>1 DEF CA!Call
<1>2. CASE CA!Resolve
  BY <1>2, KeyFilesAssumption DEF CA!Resolve
<1>3. CASE CA!Open \/ CA!Check
  BY <1>3 DEF CA!Open, CA!Check
<1>4. CASE CA!Read
  BY <1>4, KeyFilesAssumption DEF CA!Read, CA!Descriptor
<1>5. CASE CA!Parse \/ CA!Refuse
  BY <1>5 DEF CA!Parse, CA!Refuse
<1>6. CASE CA!Forget
  BY <1>6 DEF CA!Forget, CA!PEM
<1>7. CASE CA!Swap
  BY <1>7 DEF CA!Swap
<1>8. CASE UNCHANGED keyVars
  BY <1>8 DEF keyVars
<1> QED
  BY <1>1, <1>2, <1>3, <1>4, <1>5, <1>6, <1>7, <1>8 DEF CA!LoadStep

\* What a step of the whole is, to each of its two parts.
LEMMA Parts ==
    ASSUME [SNext]_svars
    PROVE  /\ Next \/ UNCHANGED procVars
           /\ (Next /\ Remember) \/ UNCHANGED hvars
           /\ CA!Call \/ CA!LoadStep \/ CA!Forget \/ CA!Swap \/ UNCHANGED keyVars
<1>1. CASE ServeStep
  BY <1>1 DEF ServeStep, Next
<1>2. CASE LoadKey
  BY <1>2 DEF LoadKey, hvars
<1>3. CASE CA!Swap /\ UNCHANGED hvars
  BY <1>3 DEF hvars
<1>4. CASE UNCHANGED svars
  BY <1>4 DEF svars, hvars
<1> QED BY <1>1, <1>2, <1>3, <1>4 DEF SNext

\* The process, its policies and its key keep their types.
THEOREM ServeTypeCorrect == SSpec => []STypeOK
<1>1. SInit => STypeOK
  BY ReloadInitType, KeyInitType DEF SInit, HInit, STypeOK
<1>2. STypeOK /\ [SNext]_svars => STypeOK'
  BY Parts, ReloadTypeStep, KeyTypeStep DEF STypeOK
<1> QED BY <1>1, <1>2, PTL DEF SSpec

\* The key and its loading leave the process what PolicyReload says it is, and
\* what is remembered of it: serve adds steps between Start and Listen only.
THEOREM ServeImplementsReload == SSpec => HInit /\ [][HNext]_hvars
<1>1. SInit => HInit
  BY DEF SInit
<1>2. [SNext]_svars => [HNext]_hvars
  BY Parts DEF HNext
<1> QED BY <1>1, <1>2, PTL DEF SSpec

----------------------------------------------------------------------------
(* The policy in force *)

\* Not inductive alone: the policy that the reload goroutine is about to store
\* must have been in the file too, and the file's policy is always remembered.
OfferedInv == /\ file \in offered \cup {Invalid}
              /\ ActiveWasOffered
              /\ reloader = "storing" => proc # "down" /\ loaded \in offered

LEMMA OfferedStep ==
    OfferedInv /\ ((Next /\ Remember) \/ UNCHANGED hvars) => OfferedInv'
<1> SUFFICES ASSUME OfferedInv, (Next /\ Remember) \/ UNCHANGED hvars
             PROVE  OfferedInv'
  OBVIOUS
<1> USE DEF OfferedInv, ActiveWasOffered
<1>1. CASE UNCHANGED hvars
  BY <1>1 DEF hvars, procVars
<1>2. CASE Next /\ Remember
  <2>1. /\ file' \in offered' \cup {Invalid}
        /\ proc # "down" => offered \subseteq offered'
    BY <1>2 DEF Remember
  <2>2. CASE Start
    BY <2>1, <2>2 DEF Start, Refused
  <2>3. CASE Listen \/ Terminate \/ Exit
    BY <2>1, <2>3 DEF Listen, Terminate, Exit
  <2>4. CASE Edit \/ Sighup
    BY <2>1, <2>4 DEF Edit, Sighup
  <2>5. CASE ReceiveHup \/ Reload \/ SetPolicy
    BY <2>1, <2>5 DEF ReceiveHup, Reload, SetPolicy, Refused, Serving
  <2> QED BY <1>2, <2>2, <2>3, <2>4, <2>5 DEF Next, ReloadStep
<1> QED BY <1>1, <1>2

\* Whatever is edited, signalled, half written or restarted, the policy in
\* force is one that the file has held since this process started.
THEOREM OnlyOfferedPolicies == SSpec => []ActiveWasOffered
<1>1. SInit => OfferedInv
  BY DEF SInit, HInit, Init, OfferedInv, ActiveWasOffered
<1>2. OfferedInv /\ [SNext]_svars => OfferedInv'
  BY Parts, OfferedStep
<1>3. OfferedInv => ActiveWasOffered
  BY DEF OfferedInv
<1> QED BY <1>1, <1>2, <1>3, PTL DEF SSpec

----------------------------------------------------------------------------
(* No signal is lost.  Inductive once it is known that nobody has asked a   *)
(* process that does not serve yet; and because SignalIsPending is not      *)
(* content with a policy in force that an older one is about to replace.    *)

PendingInv == SignalIsPending /\ (asked => Serving)

LEMMA PendingStep ==
    PendingInv /\ ((Next /\ Remember) \/ UNCHANGED hvars) => PendingInv'
<1> SUFFICES ASSUME PendingInv, (Next /\ Remember) \/ UNCHANGED hvars
             PROVE  PendingInv'
  OBVIOUS
<1> USE DEF PendingInv, SignalIsPending, Serving
<1>1. CASE UNCHANGED hvars
  BY <1>1 DEF hvars, procVars
<1>2. CASE Next /\ Remember
  <2>0. asked' => file' = file /\ proc' # "down" /\ (asked \/ Sighup)
    BY <1>2 DEF Remember
  \* The signal itself.
  <2>1. CASE Sighup
    BY <2>0, <2>1 DEF Sighup, Buffered
  \* Steps that end or start a process, or change the file: nobody has asked.
  <2>2. CASE Start \/ Listen \/ Exit \/ Edit
    <3>1. ~asked'
      BY <2>0, <2>2 DEF Start, Listen, Exit, Edit, Sighup
    <3> QED BY <3>1
  <2>3. CASE Terminate
    BY <2>0, <2>3 DEF Terminate, Sighup
  \* The reload goroutine: what it takes off the channel it reads and stores.
  <2>4. CASE ReceiveHup
    BY <2>0, <2>4 DEF ReceiveHup, Sighup
  <2>5. CASE Reload
    BY <2>0, <2>5 DEF Reload, Refused, Sighup
  <2>6. CASE SetPolicy
    BY <2>0, <2>6 DEF SetPolicy, Sighup
  <2> QED BY <1>2, <2>1, <2>2, <2>3, <2>4, <2>5, <2>6 DEF Next, ReloadStep
<1> QED BY <1>1, <1>2

\* However signals, edits, good and bad, and reloads interleave: a signal that
\* still asks for the file's policy is in force or on its way to it.
THEOREM NoSignalIsLost == SSpec => []SignalIsPending
<1>1. SInit => PendingInv
  BY DEF SInit, HInit, PendingInv, SignalIsPending
<1>2. PendingInv /\ [SNext]_svars => PendingInv'
  BY Parts, PendingStep
<1>3. PendingInv => SignalIsPending
  BY DEF PendingInv
<1> QED BY <1>1, <1>2, <1>3, PTL DEF SSpec

----------------------------------------------------------------------------
(* The CA key *)

\* The file f passes the checks of readKeyFile.
Guarded(f) == f \in Files /\ Kind[f] = "regular" /\ (skip \/ Strict[f])

FromSource == \/ "OIDC_SSH_CA_KEY" \in sources /\ pem = EnvPEM
              \/ \E f \in Files : Content[f] = pem /\ Guarded(f)

\* What LoadCAKey has established when it is at each of its stages.
KeyInv ==
    /\ stage \in {"opening", "checking", "reading", "parsing", "loaded"} =>
          \E s \in CA!Sources : sources = {s}
    /\ stage = "checking" => fd \in Files
    /\ stage = "reading" => Guarded(fd)
    /\ stage \in {"parsing", "loaded"} => FromSource
    /\ stage = "loaded" => pem \in Ed25519

LEMMA KeyStep ==
    ASSUME CA!TypeOK, KeyInv,
           CA!Call \/ CA!LoadStep \/ CA!Forget \/ CA!Swap \/ UNCHANGED keyVars
    PROVE  KeyInv'
<1> USE DEF KeyInv, FromSource, Guarded
<1>1. CASE CA!Call
  BY <1>1 DEF CA!Call
<1>2. CASE CA!Resolve
  BY <1>2 DEF CA!Resolve, CA!SoleSource
<1>3. CASE CA!Open
  BY <1>3 DEF CA!Open, CA!OpenReturns
<1>4. CASE CA!Check
  BY <1>4 DEF CA!Check, CA!Acceptable
<1>5. CASE CA!Read
  BY <1>5 DEF CA!Read, CA!Descriptor
<1>6. CASE CA!Parse
  BY <1>6 DEF CA!Parse
<1>7. CASE CA!Refuse
  BY <1>7 DEF CA!Refuse
<1>8. CASE CA!Forget
  BY <1>8 DEF CA!Forget
<1>9. CASE CA!Swap \/ UNCHANGED keyVars
  BY <1>9 DEF CA!Swap, keyVars
<1> QED
  BY <1>1, <1>2, <1>3, <1>4, <1>5, <1>6, <1>7, <1>8, <1>9 DEF CA!LoadStep

\* serve never starts with a key that is not the checked one of its sole
\* source, however the path is swapped under its system calls.
THEOREM KeyOfSoleSource == SSpec => []KeyIsFromItsSoleSource
<1> DEFINE Inv == CA!TypeOK /\ KeyInv
<1>1. SInit => Inv
  BY KeyInitType DEF SInit, CA!Init, KeyInv
<1>2. Inv /\ [SNext]_svars => Inv'
  BY Parts, KeyTypeStep, KeyStep
<1>3. Inv => KeyIsFromItsSoleSource
  BY DEF KeyInv, FromSource, Guarded, KeyIsFromItsSoleSource
<1> HIDE DEF Inv
<1> QED BY <1>1, <1>2, <1>3, PTL DEF SSpec

\* Where the process stands in its start, and LoadCAKey with it.
StartInv == /\ proc = "down" => stage = "off"
            /\ Serving => stage = "loaded"

LEMMA StartStep == ASSUME StartInv, [SNext]_svars PROVE StartInv'
<1> USE DEF StartInv, Serving
<1>1. CASE Start /\ CA!Call
  BY <1>1 DEF Start
<1>2. CASE Listen /\ stage = "loaded" /\ UNCHANGED keyVars
  BY <1>2 DEF Listen, keyVars
<1>3. CASE Exit /\ CA!Forget
  BY <1>3 DEF Exit, CA!Forget
<1>4. CASE (Terminate \/ Edit \/ Sighup \/ ReloadStep) /\ UNCHANGED keyVars
  BY <1>4 DEF Terminate, Edit, Sighup, ReloadStep, ReceiveHup, Reload, SetPolicy, keyVars
<1>5. CASE LoadKey
  BY <1>5 DEF LoadKey, hvars, procVars
<1>6. CASE CA!Swap /\ UNCHANGED hvars
  BY <1>6 DEF CA!Swap, hvars, procVars
<1>7. CASE UNCHANGED svars
  BY <1>7 DEF svars, keyVars, hvars, procVars
<1> QED BY <1>1, <1>2, <1>3, <1>4, <1>5, <1>6, <1>7 DEF SNext, ServeStep

\* The key that a serving process signs with is the one LoadCAKey has checked,
\* until the process ends, and none outlives its process.
SigningKeyIsChecked ==
    /\ Serving => stage = "loaded" /\ KeyIsFromItsSoleSource
    /\ proc = "down" => stage = "off"

\* No interleaving of starts, signals, reloads, swaps and crashes lets serve
\* listen without a checked key.
THEOREM ServesWithCheckedKey == SSpec => []SigningKeyIsChecked
<1>1. SInit => StartInv
  BY DEF SInit, HInit, Init, CA!Init, StartInv, Serving
<1>2. StartInv /\ [SNext]_svars => StartInv'
  BY StartStep
<1>3. StartInv /\ KeyIsFromItsSoleSource => SigningKeyIsChecked
  BY DEF StartInv, SigningKeyIsChecked
<1> QED BY <1>1, <1>2, <1>3, KeyOfSoleSource, PTL DEF SSpec
=============================================================================
