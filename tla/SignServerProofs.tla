-------------------------- MODULE SignServerProofs -------------------------
(***************************************************************************)
(* Theorems about SignServer and SignServerHistory, for any policies,      *)
(* requests, handlers, lifetimes and ceiling that satisfy                  *)
(* PoliciesAssumption.                                                     *)
(***************************************************************************)
EXTENDS SignServerHistory, TLAPS

----------------------------------------------------------------------------
(* Types, and what the pipeline has established at each of its stages *)

LEMMA ProcessTypeStep == Process!TypeOK /\ Process!Next => Process!TypeOK'
<1> SUFFICES ASSUME Process!TypeOK, Process!Next PROVE Process!TypeOK'
  OBVIOUS
<1> USE DEF Process!TypeOK
<1>1. CASE Process!Start
  BY <1>1 DEF Process!Start, Process!Refused
<1>2. CASE Process!Listen \/ Process!Terminate \/ Process!Exit
  BY <1>2 DEF Process!Listen, Process!Terminate, Process!Exit
<1>3. CASE Process!Edit \/ Process!Sighup
  BY <1>3 DEF Process!Edit, Process!Sighup, Process!Buffered
<1>4. CASE Process!ReceiveHup \/ Process!SetPolicy
  BY <1>4 DEF Process!ReceiveHup, Process!SetPolicy
<1>5. CASE Process!Reload
  BY <1>5 DEF Process!Reload, Process!Refused
<1> QED
  BY <1>1, <1>2, <1>3, <1>4, <1>5 DEF Process!Next, Process!ReloadStep

\* The checks that request r has passed.
Checked(r) == /\ ~Disabled[pol[r]]
              /\ input[r].json
              /\ input[r].keyType \in KeyTypes[pol[r]]
              /\ input[r].token # NoToken

StageInv == \A r \in Requests :
    /\ pc[r] \in {"verifying", "matching"} => Checked(r)
    /\ pc[r] = "matching" => input[r].token \in Names[pol[r]]

SignInv == TypeOK /\ StageInv

\* Evaluate answers with one of its reason codes.
LEMMA EvaluateType ==
    ASSUME SignInv, NEW r \in Requests, pc[r] = "matching"
    PROVE  /\ Evaluate(PolicyOf(r), input[r]) = Rule[pol[r]][input[r].token]
           /\ Evaluate(PolicyOf(r), input[r]) \in RuleVerdicts
<1>1. pol[r] \in Policies /\ ~Disabled[pol[r]] /\ input[r].token \in Names[pol[r]]
  BY DEF SignInv, StageInv, TypeOK, Checked
<1>2. input[r].token \in Tokens
  BY <1>1, PoliciesAssumption
<1>3. Evaluate(PolicyOf(r), input[r]) = Rule[pol[r]][input[r].token]
  BY <1>1 DEF Evaluate, PolicyOf, IsDisabled
<1> QED BY <1>1, <1>2, <1>3, PoliciesAssumption

LEMMA SignInit == Init => SignInv
<1> SUFFICES ASSUME Init PROVE SignInv
  OBVIOUS
<1>1. (CHOOSE in \in Inputs : TRUE) \in Inputs
  BY PoliciesAssumption
<1>2. active \in Policies /\ Process!TypeOK
  BY DEF Init, Process!Init, Process!TypeOK
<1>3. TypeOK
  BY <1>1, <1>2, PoliciesAssumption DEF Init, TypeOK, Verdicts
<1>4. StageInv
  BY DEF Init, StageInv
<1> QED BY <1>3, <1>4 DEF SignInv

LEMMA SignStep == SignInv /\ [Next]_vars => SignInv'
<1> SUFFICES ASSUME SignInv, [Next]_vars PROVE SignInv'
  OBVIOUS
<1> USE DEF SignInv, TypeOK, InFlight, Bound, Answered
<1>1. ASSUME NEW r \in Requests, Receive(r) PROVE SignInv'
  <2>1. /\ UNCHANGED <<file, proc, active, hup, reloader, loaded, pol, verdict, life>>
        /\ pc' = [pc EXCEPT ![r] = "received"]
    BY <1>1 DEF Receive, procVars, Goto
  <2>2. PICK in \in Inputs : input' = [input EXCEPT ![r] = in]
    BY <1>1 DEF Receive
  <2>3. events' = [events EXCEPT ![r] = <<>>]
    BY <1>1 DEF Receive
  <2>4. TypeOK'
    BY <2>1, <2>2, <2>3 DEF Process!TypeOK
  <2>5. StageInv'
    BY <2>1, <2>2 DEF StageInv, Checked
  <2> QED BY <2>4, <2>5
<1>2. ASSUME NEW r \in Requests, LoadPolicy(r) PROVE SignInv'
  <2>1. UNCHANGED <<file, proc, active, hup, reloader, loaded, input, events, life>>
    BY <1>2 DEF LoadPolicy, procVars
  <2>2. \/ /\ pc' = [pc EXCEPT ![r] = "auditing"]
           /\ verdict' = [verdict EXCEPT ![r] = "bad_request"]
           /\ pol' = pol
        \/ /\ pc' = [pc EXCEPT ![r] = "checking"]
           /\ pol' = [pol EXCEPT ![r] = active]
           /\ verdict' = verdict
    BY <1>2 DEF LoadPolicy, Settle, Goto
  <2>3. TypeOK'
    BY <2>1, <2>2 DEF Process!TypeOK, Verdicts
  <2>4. StageInv'
    BY <2>1, <2>2 DEF StageInv, Checked
  <2> QED BY <2>3, <2>4
<1>3. ASSUME NEW r \in Requests, CheckRequest(r) PROVE SignInv'
  <2>1. UNCHANGED <<file, proc, active, hup, reloader, loaded, input, pol, events, life>>
    BY <1>3 DEF CheckRequest, procVars
  <2>2. \/ /\ pc' = [pc EXCEPT ![r] = "auditing"]
           /\ \E v \in Verdicts : verdict' = [verdict EXCEPT ![r] = v]
        \/ /\ pc' = [pc EXCEPT ![r] = "verifying"] /\ verdict' = verdict
           /\ Checked(r)
    BY <1>3, PoliciesAssumption
    DEF CheckRequest, Settle, Goto, Verdicts, Checked, PolicyOf, IsDisabled
  <2>3. TypeOK'
    BY <2>1, <2>2 DEF Process!TypeOK
  <2>4. StageInv'
    BY <2>1, <2>2 DEF StageInv, Checked
  <2> QED BY <2>3, <2>4
<1>4. ASSUME NEW r \in Requests, VerifyToken(r) PROVE SignInv'
  <2>1. UNCHANGED <<file, proc, active, hup, reloader, loaded, input, pol, events, life>>
    BY <1>4 DEF VerifyToken, procVars
  <2>2. \/ /\ pc' = [pc EXCEPT ![r] = "auditing"]
           /\ verdict' = [verdict EXCEPT ![r] = "token_invalid"]
        \/ /\ pc' = [pc EXCEPT ![r] = "matching"] /\ verdict' = verdict
           /\ pc[r] = "verifying" /\ input[r].token \in Names[pol[r]]
    BY <1>4 DEF VerifyToken, Settle, Goto, PolicyOf
  <2>3. TypeOK'
    BY <2>1, <2>2 DEF Process!TypeOK, Verdicts
  <2>4. StageInv'
    BY <2>1, <2>2 DEF StageInv, Checked
  <2> QED BY <2>3, <2>4
<1>5. ASSUME NEW r \in Requests, MatchAndSign(r) PROVE SignInv'
  <2>1. /\ UNCHANGED <<file, proc, active, hup, reloader, loaded, input, pol, events>>
        /\ pc' = [pc EXCEPT ![r] = "auditing"]
    BY <1>5 DEF MatchAndSign, procVars, Settle, Goto
  <2>2. PICK v \in Verdicts : verdict' = [verdict EXCEPT ![r] = v]
    BY <1>5, EvaluateType DEF MatchAndSign, Settle, Verdicts, RuleVerdicts
  <2>3. life' \in 0..Ceiling
    <3>1. ValidFor(PolicyOf(r)) \in 0..Ceiling
      BY PoliciesAssumption DEF ValidFor, PolicyOf
    <3> QED BY <1>5, <3>1 DEF MatchAndSign
  <2>4. TypeOK'
    BY <2>1, <2>2, <2>3 DEF Process!TypeOK
  <2>5. StageInv'
    BY <2>1 DEF StageInv, Checked
  <2> QED BY <2>4, <2>5
<1>6. ASSUME NEW r \in Requests, Audit(r) PROVE SignInv'
  <2>1. /\ UNCHANGED <<file, proc, active, hup, reloader, loaded, input, pol, verdict, life>>
        /\ pc' = [pc EXCEPT ![r] = "responding"]
    BY <1>6 DEF Audit, procVars, Goto
  <2>2. events' \in [Requests -> Seq(Verdicts)]
    <3>1. LogEvent(r) \in Seq(Verdicts)
      BY DEF LogEvent
    <3> QED BY <1>6, <3>1 DEF Audit
  <2>3. TypeOK'
    BY <2>1, <2>2 DEF Process!TypeOK
  <2>4. StageInv'
    BY <2>1 DEF StageInv, Checked
  <2> QED BY <2>3, <2>4
<1>7. ASSUME NEW r \in Requests, Respond(r) PROVE SignInv'
  <2>1. /\ UNCHANGED <<file, proc, active, hup, reloader, loaded, input, pol, verdict, events, life>>
        /\ \E end \in Answered : pc' = [pc EXCEPT ![r] = end]
    BY <1>7 DEF Respond, procVars, Goto
  <2>2. TypeOK'
    BY <2>1 DEF Process!TypeOK
  <2>3. StageInv'
    BY <2>1 DEF StageInv, Checked
  <2> QED BY <2>2, <2>3
<1>8. CASE ProcessStep
  <2>1. /\ UNCHANGED <<input, pol, verdict, events, life>>
        /\ pc' = [r \in Requests |->
                     IF proc' = "down" /\ pc[r] \in InFlight THEN "cut" ELSE pc[r]]
    BY <1>8 DEF ProcessStep
  <2>2. Process!TypeOK'
    BY <1>8, ProcessTypeStep DEF ProcessStep
  <2>3. TypeOK'
    BY <2>1, <2>2
  <2>4. StageInv'
    BY <2>1 DEF StageInv, Checked
  <2> QED BY <2>3, <2>4
<1>9. CASE Tick \/ UNCHANGED vars
  <2>1. /\ UNCHANGED <<file, proc, active, hup, reloader, loaded, pc, input, pol, verdict, events>>
        /\ life' \in 0..Ceiling
    BY <1>9, PoliciesAssumption DEF Tick, vars, procVars, reqVars
  <2>2. TypeOK'
    BY <2>1 DEF Process!TypeOK
  <2>3. StageInv'
    BY <2>1 DEF StageInv, Checked
  <2> QED BY <2>2, <2>3
<1> QED
  BY <1>1, <1>2, <1>3, <1>4, <1>5, <1>6, <1>7, <1>8, <1>9
  DEF Next, Timeless, RequestStep

LEMMA SignInvariance == Spec => []SignInv
  BY SignInit, SignStep, PTL DEF Spec

\* The pipeline, the process and every verdict keep their types.
THEOREM PipelineTypeCorrect == Spec => []TypeOK
<1>1. SignInv => TypeOK
  BY DEF SignInv
<1> QED BY <1>1, SignInvariance, PTL

\* The handlers leave the process what PolicyReload says it is.
THEOREM PipelineImplementsReload ==
    Spec => Process!Init /\ [][Process!Next]_Process!procVars
<1>1. Init => Process!Init
  BY DEF Init
<1>2. [Next]_vars => [Process!Next]_Process!procVars
  <2> USE DEF procVars, Process!procVars
  <2>1. CASE ProcessStep
    BY <2>1 DEF ProcessStep
  <2>2. ASSUME NEW r \in Requests, RequestStep(r) PROVE UNCHANGED procVars
    BY <2>2 DEF RequestStep, Receive, LoadPolicy, CheckRequest, VerifyToken, MatchAndSign,
                Audit, Respond
  <2>3. CASE Tick \/ UNCHANGED vars
    BY <2>3 DEF Tick, vars
  <2> QED BY <2>1, <2>2, <2>3 DEF Next, Timeless
<1> QED BY <1>1, <1>2, PTL DEF Spec

----------------------------------------------------------------------------
(* The audit log *)

\* Whether stdout takes what is written or not, no decision is on record twice,
\* or other than it was made; a request that the end of the process cuts off
\* is no exception.
RecordIsTrue == \A r \in Requests : events[r] \in {<<>>, <<verdict[r]>>}

\* An open request has no event yet, an answered one has its verdict's, unless
\* stdout has not taken it.
EventsInv ==
    /\ RecordIsTrue
    /\ \A r \in Requests :
          /\ pc[r] \in {"received", "auditing"} \cup Bound => events[r] = <<>>
          /\ pc[r] \in {"responding"} \cup Answered => events[r] # <<>> \/ StdoutMayFail

LEMMA EventsStep ==
    ASSUME TypeOK, EventsInv, [Next]_vars
    PROVE  EventsInv'
<1> USE DEF TypeOK, EventsInv, RecordIsTrue, InFlight, Bound, Answered
<1>1. ASSUME NEW r \in Requests, Receive(r) PROVE EventsInv'
  BY <1>1 DEF Receive, Goto
<1>2. ASSUME NEW r \in Requests, LoadPolicy(r) PROVE EventsInv'
  <2>1. /\ pc[r] = "received" /\ UNCHANGED events
        /\ \E l \in {"auditing", "checking"} : pc' = [pc EXCEPT ![r] = l]
        /\ \E v : verdict' = [verdict EXCEPT ![r] = v]
    BY <1>2 DEF LoadPolicy, Settle, Goto
  <2> QED BY <2>1
\* Up to the verdict nothing is written, and nobody else's verdict changes.
<1>3. ASSUME NEW r \in Requests, pc[r] \in Bound, UNCHANGED events,
             NEW l \in {"auditing"} \cup Bound, Goto(r, l),
             NEW v, verdict' = [verdict EXCEPT ![r] = v]
      PROVE  EventsInv'
  BY <1>3 DEF Goto
<1>4. ASSUME NEW r \in Requests, CheckRequest(r) \/ VerifyToken(r) \/ MatchAndSign(r)
      PROVE  EventsInv'
  <2>1. pc[r] \in Bound /\ UNCHANGED events
    BY <1>4 DEF CheckRequest, VerifyToken, MatchAndSign
  <2>2. \E l \in {"auditing"} \cup Bound : Goto(r, l)
    BY <1>4 DEF CheckRequest, VerifyToken, MatchAndSign, Settle
  <2>3. \E v : verdict' = [verdict EXCEPT ![r] = v]
    <3>1. verdict = [verdict EXCEPT ![r] = verdict[r]]
      OBVIOUS
    <3> QED BY <1>4, <3>1 DEF CheckRequest, VerifyToken, MatchAndSign, Settle
  <2> QED BY <2>1, <2>2, <2>3, <1>3
<1>5. ASSUME NEW r \in Requests, Audit(r) PROVE EventsInv'
  <2>1. /\ pc[r] = "auditing" /\ pc' = [pc EXCEPT ![r] = "responding"]
        /\ UNCHANGED verdict
        /\ \/ events' = [events EXCEPT ![r] = Append(events[r], verdict[r])]
           \/ StdoutMayFail /\ UNCHANGED events
    BY <1>5 DEF Audit, Goto, LogEvent
  <2>2. Append(events[r], verdict[r]) = <<verdict[r]>>
    <3>1. events[r] = <<>>
      BY <2>1
    <3>2. Append(<<>>, verdict[r]) = <<verdict[r]>>
      OBVIOUS
    <3> QED BY <3>1, <3>2
  <2>3. <<verdict[r]>> # <<>> /\ events[r] = <<>>
    BY <2>1
  <2>4. \/ events' = [events EXCEPT ![r] = <<verdict[r]>>]
        \/ StdoutMayFail /\ UNCHANGED events
    BY <2>1, <2>2
  <2>5. RecordIsTrue'
    BY <2>1, <2>4
  <2> QED BY <2>1, <2>3, <2>4, <2>5
<1>6. ASSUME NEW r \in Requests, Respond(r) PROVE EventsInv'
  BY <1>6 DEF Respond, Goto
<1>7. CASE ProcessStep
  BY <1>7 DEF ProcessStep
<1>8. CASE Tick \/ UNCHANGED vars
  BY <1>8 DEF Tick, vars, reqVars
<1> QED
  BY <1>1, <1>2, <1>4, <1>5, <1>6, <1>7, <1>8 DEF Next, Timeless, RequestStep

LEMMA EventsInvariance == Spec => []EventsInv
<1>1. Init => EventsInv
  BY DEF Init, EventsInv, RecordIsTrue, Bound, Answered
<1>2. SignInv /\ EventsInv /\ [Next]_vars => EventsInv'
  BY EventsStep DEF SignInv
<1> QED BY <1>1, <1>2, SignInvariance, PTL DEF Spec

\* A stdout that fails loses events; it never doubles or falsifies one.
THEOREM RecordStaysTrue == Spec => []RecordIsTrue
<1>1. EventsInv => RecordIsTrue
  BY DEF EventsInv
<1> QED BY <1>1, EventsInvariance, PTL

\* While stdout takes what is written, every answer that goes out, or gets lost
\* on its way, is on record exactly once and as it was given.
THEOREM EveryAnswerIsAudited ==
    ASSUME ~StdoutMayFail
    PROVE  Spec => []AnswersAreAudited
<1>1. EventsInv => AnswersAreAudited
  BY DEF EventsInv, RecordIsTrue, AnswersAreAudited
<1> QED BY <1>1, EventsInvariance, PTL

----------------------------------------------------------------------------
(* The pipeline implements CertificateAuthority *)

States == [r \in Requests |-> Phase(r)]

LEMMA PhaseMoves ==
    ASSUME TypeOK, NEW r \in Requests, NEW l, Goto(r, l)
    PROVE  States' = [States EXCEPT ![r] = Phase(r)'] /\ pc'[r] = l
<1>1. pc'[r] = l /\ \A s \in Requests \ {r} : pc'[s] = pc[s]
  BY DEF TypeOK, Goto
<1>2. ASSUME NEW s \in Requests \ {r} PROVE Phase(s)' = Phase(s)
  BY <1>1 DEF Phase
<1> QED BY <1>1, <1>2 DEF States

LEMMA InitAbstract == Init => Abstract!Init
<1> SUFFICES ASSUME Init PROVE Abstract!Init
  OBVIOUS
<1>1. TypeOK
  BY SignInit DEF SignInv
<1>2. States = [r \in Requests |-> "closed"]
  BY DEF Init, States, Phase, Bound
<1> QED
  BY <1>1, <1>2
  DEF Abstract!Init, Abstract!Verdicts, Abstract!RuleVerdicts, Verdicts, RuleVerdicts,
      TypeOK, Process!TypeOK, States

\* A verdict reached while the request is bound is an Answer.
LEMMA SettleAnswers ==
    ASSUME SignInv, NEW r \in Requests, pc[r] \in Bound,
           NEW v \in Abstract!Justified(pol[r], input[r]),
           Settle(r, v), UNCHANGED <<active, input, pol>>
    PROVE  Abstract!Answer(r)
<1>1. States' = [States EXCEPT ![r] = Phase(r)'] /\ pc'[r] = "auditing"
  BY PhaseMoves DEF SignInv, Settle
<1>2. States[r] = "bound" /\ Phase(r)' = "answered"
  BY <1>1 DEF States, Phase, Bound
<1> QED BY <1>1, <1>2 DEF Abstract!Answer, Settle, States

\* A step from check to check is invisible.
LEMMA BoundStutters ==
    ASSUME SignInv, NEW r \in Requests, pc[r] \in Bound,
           NEW l \in Bound, Goto(r, l), UNCHANGED <<active, input, pol, verdict>>
    PROVE  UNCHANGED Abstract!cavars
<1>1. States' = [States EXCEPT ![r] = Phase(r)'] /\ pc'[r] = l
  BY PhaseMoves DEF SignInv
<1>2. States[r] = "bound" /\ Phase(r)' = "bound"
  BY <1>1 DEF States, Phase, Bound
<1>3. States' = States
  BY <1>1, <1>2 DEF States
<1> QED BY <1>3 DEF Abstract!cavars, States

LEMMA StepImplements ==
    ASSUME SignInv, SignInv', [Next]_vars
    PROVE  [Abstract!Next]_Abstract!cavars
<1> USE DEF InFlight, Bound, Answered
<1>0. pc \in [Requests -> InFlight \cup Answered \cup {"idle", "cut"}]
  BY DEF SignInv, TypeOK
<1>1. ASSUME NEW r \in Requests, Receive(r) PROVE Abstract!Open(r)
  <2>1. States' = [States EXCEPT ![r] = "open"]
    BY <1>1, PhaseMoves DEF SignInv, Receive, Phase
  <2>2. States[r] \in {"closed", "answered"}
    BY <1>0, <1>1 DEF Receive, States, Phase
  <2> QED BY <1>1, <2>1, <2>2 DEF Receive, Abstract!Open, States, procVars
<1>2. ASSUME NEW r \in Requests, LoadPolicy(r) PROVE Abstract!Refuse(r) \/ Abstract!Bind(r)
  <2>1. States[r] = "open"
    BY <1>2 DEF LoadPolicy, States, Phase
  <2>2. CASE ~input[r].post
    <3>1. States' = [States EXCEPT ![r] = "answered"]
      BY <1>2, <2>2, PhaseMoves DEF SignInv, LoadPolicy, Settle, Phase
    <3> QED BY <1>2, <2>1, <2>2, <3>1 DEF LoadPolicy, Settle, Abstract!Refuse, States, procVars
  <2>3. CASE input[r].post
    <3>1. States' = [States EXCEPT ![r] = "bound"]
      BY <1>2, <2>3, PhaseMoves DEF SignInv, LoadPolicy, Phase
    <3> QED BY <1>2, <2>1, <2>3, <3>1 DEF LoadPolicy, Abstract!Bind, States, procVars
  <2> QED BY <2>2, <2>3
<1>3. ASSUME NEW r \in Requests, CheckRequest(r)
      PROVE  Abstract!Answer(r) \/ UNCHANGED Abstract!cavars
  <2>1. UNCHANGED <<active, input, pol>> /\ pc[r] \in Bound
    BY <1>3 DEF CheckRequest, procVars
  <2>2. CASE Goto(r, "verifying") /\ UNCHANGED verdict
    BY <2>1, <2>2, BoundStutters
  <2>3. CASE \E v \in Abstract!Justified(pol[r], input[r]) : Settle(r, v)
    BY <2>1, <2>3, SettleAnswers
  <2>4. \/ Goto(r, "verifying") /\ UNCHANGED verdict
        \/ \E v \in Abstract!Justified(pol[r], input[r]) : Settle(r, v)
    BY <1>3, PoliciesAssumption
    DEF CheckRequest, Abstract!Justified, Abstract!Verdicts, Abstract!RuleVerdicts, Verdicts, RuleVerdicts, PolicyOf, IsDisabled
  <2> QED BY <2>2, <2>3, <2>4
<1>4. ASSUME NEW r \in Requests, VerifyToken(r)
      PROVE  Abstract!Answer(r) \/ UNCHANGED Abstract!cavars
  <2>1. UNCHANGED <<active, input, pol>> /\ pc[r] = "verifying"
    BY <1>4 DEF VerifyToken, procVars
  <2>2. CASE Goto(r, "matching") /\ UNCHANGED verdict
    BY <2>1, <2>2, BoundStutters
  <2>3. CASE Settle(r, "token_invalid")
    <3>1. "token_invalid" \in Abstract!Justified(pol[r], input[r])
      BY <2>1 DEF SignInv, StageInv, Checked, Abstract!Justified, Abstract!Verdicts, Abstract!RuleVerdicts, Verdicts, RuleVerdicts
    <3> QED BY <2>1, <2>3, <3>1, SettleAnswers
  <2> QED BY <1>4, <2>2, <2>3 DEF VerifyToken
<1>5. ASSUME NEW r \in Requests, MatchAndSign(r) PROVE Abstract!Answer(r)
  <2>1. UNCHANGED <<active, input, pol>> /\ pc[r] = "matching"
    BY <1>5 DEF MatchAndSign, procVars
  <2>2. PICK v \in RuleVerdicts \cup {"signing_error"} :
            /\ Settle(r, v)
            /\ Rule[pol[r]][input[r].token] = IF v = "signing_error" THEN "issued" ELSE v
    BY <1>5, <2>1, EvaluateType DEF MatchAndSign, RuleVerdicts
  <2>3. v \in Abstract!Justified(pol[r], input[r])
    BY <2>1, <2>2 DEF SignInv, StageInv, Checked, Abstract!Justified, Abstract!Verdicts, Abstract!RuleVerdicts, Verdicts, RuleVerdicts
  <2> QED BY <2>1, <2>2, <2>3, SettleAnswers
<1>6. ASSUME NEW r \in Requests, Audit(r) PROVE UNCHANGED Abstract!cavars
  <2>1. States' = [States EXCEPT ![r] = "answered"]
    BY <1>6, PhaseMoves DEF SignInv, Audit, Phase
  <2>2. States[r] = "answered"
    BY <1>6 DEF Audit, States, Phase
  <2>3. States' = States
    BY <2>1, <2>2 DEF States
  <2> QED BY <1>6, <2>3 DEF Audit, Abstract!cavars, States, procVars
<1>7. ASSUME NEW r \in Requests, Respond(r)
      PROVE  Abstract!Abort \/ UNCHANGED Abstract!cavars
  <2>1. /\ States' = [States EXCEPT ![r] = Phase(r)']
        /\ Phase(r)' \in {"answered", "closed"} /\ States[r] = "answered"
    BY <1>7, PhaseMoves DEF SignInv, Respond, Phase, States
  <2>2. UNCHANGED <<active, input, pol, verdict>>
    BY <1>7 DEF Respond, procVars
  <2>3. CASE Phase(r)' = "answered"
    <3>1. States' = States
      BY <2>1, <2>3 DEF States
    <3> QED BY <2>2, <3>1 DEF Abstract!cavars, States
  <2>4. CASE Phase(r)' = "closed"
    <3>1. States' = [s \in Requests |-> IF s \in {r} THEN "closed" ELSE States[s]]
      BY <2>1, <2>4 DEF States
    <3> QED BY <2>2, <3>1 DEF Abstract!Abort, States
  <2> QED BY <2>1, <2>3, <2>4
<1>8. CASE ProcessStep
  <2>1. /\ UNCHANGED <<input, pol, verdict>>
        /\ pc' = [r \in Requests |->
                     IF proc' = "down" /\ pc[r] \in InFlight THEN "cut" ELSE pc[r]]
    BY <1>8 DEF ProcessStep
  <2>2. CASE proc' = "down"
    <3>1. active' = active
      BY <1>8, <2>2
      DEF ProcessStep, Process!Next, Process!Start, Process!Listen, Process!Terminate,
          Process!Exit, Process!Edit, Process!Sighup, Process!ReloadStep,
          Process!ReceiveHup, Process!Reload, Process!SetPolicy, Process!Serving
    <3>2. States' = [r \in Requests |->
                        IF r \in {s \in Requests : pc[s] \in InFlight} THEN "closed" ELSE States[r]]
      BY <1>0, <2>1, <2>2 DEF States, Phase
    <3>3. Abstract!Abort
      BY <2>1, <3>1, <3>2 DEF Abstract!Abort, States
    <3> QED BY <3>3 DEF Abstract!Next
  <2>3. CASE proc' # "down"
    <3>1. States' = States
      BY <1>0, <2>1, <2>3 DEF States, Phase
    <3>2. active' \in Policies
      BY DEF SignInv, TypeOK, Process!TypeOK
    <3> QED BY <2>1, <3>1, <3>2 DEF Abstract!Next, Abstract!Replace, States
  <2> QED BY <2>2, <2>3
<1>9. CASE Tick \/ UNCHANGED vars
  <2>1. UNCHANGED <<active, pc, input, pol, verdict>>
    BY <1>9 DEF Tick, vars, procVars, reqVars
  <2>2. States' = States
    BY <2>1 DEF States, Phase
  <2> QED BY <2>1, <2>2 DEF Abstract!cavars, States
<1> QED
  BY <1>1, <1>2, <1>3, <1>4, <1>5, <1>6, <1>7, <1>8, <1>9
  DEF Next, Timeless, RequestStep, Abstract!Next

\* However reloads, other requests, crashes and lost answers come in between,
\* each request is judged by one policy, whole, that was in force while it was
\* open: the pipeline implements CertificateAuthority.
THEOREM PipelineImplementsCA == Spec => ImplementsCertificateAuthority
<1> QED
  BY InitAbstract, StepImplements, SignInvariance, PTL
  DEF Spec, ImplementsCertificateAuthority, Abstract!Spec

----------------------------------------------------------------------------
(* The emergency stop *)

LEMMA WatchKeepsSpec == HSpec => Spec
<1>1. HInit => Init
  BY DEF HInit
<1>2. [HNext]_hvars => [Next]_vars
  BY DEF HNext, Next, hvars
<1> QED BY <1>1, <1>2, PTL DEF HSpec, Spec

\* The counters of the stop stay within the ceiling.
THEOREM HistoryTypeCorrect == HSpec => []HistoryTypeOK
<1> DEFINE WatchType == /\ stopped \in 0..Ceiling /\ quiet \in 0..Ceiling
                        /\ underStop \in [Requests -> BOOLEAN]
<1>1. HInit => WatchType
  BY PoliciesAssumption DEF HInit
<1>2. ASSUME SignInv, SignInv', WatchType, [HNext]_hvars PROVE WatchType'
  <2>1. Disabled[active] \in BOOLEAN /\ Disabled[active'] \in BOOLEAN
    BY <1>2, PoliciesAssumption DEF SignInv, TypeOK, Process!TypeOK
  <2>2. CASE Timeless /\ Watch
    BY <1>2, <2>1, <2>2, PoliciesAssumption DEF Watch
  <2>3. CASE Tick /\ Pass
    BY <1>2, <2>3, PoliciesAssumption DEF Pass, Count
  <2>4. CASE UNCHANGED hvars
    BY <1>2, <2>4 DEF hvars
  <2> QED BY <1>2, <2>2, <2>3, <2>4 DEF HNext
<1>3. SignInv /\ WatchType => HistoryTypeOK
  BY DEF SignInv, HistoryTypeOK
<1> HIDE DEF WatchType
<1> QED BY <1>1, <1>2, <1>3, WatchKeepsSpec, SignInvariance, PTL DEF HSpec

\* A request that came under the stop can only be bound to a disabled policy,
\* and then does not get past the first check.
Stopped(r) ==
    /\ Disabled[active]
    /\ pc[r] \in Bound => pc[r] = "checking" /\ Disabled[pol[r]]
    /\ pc[r] \in {"auditing", "responding"} \cup Answered =>
          verdict[r] \in {"policy_disabled", "bad_request"}

StopInv == \A r \in Requests : underStop[r] => Stopped(r)

LEMMA StopStep ==
    ASSUME SignInv, StopInv, Timeless, Watch
    PROVE  StopInv'
<1> USE DEF InFlight, Bound, Answered
<1>0. /\ pc \in [Requests -> InFlight \cup Answered \cup {"idle", "cut"}]
      /\ verdict \in [Requests -> Verdicts] /\ pol \in [Requests -> Policies]
  BY DEF SignInv, TypeOK
<1> SUFFICES ASSUME NEW s \in Requests, underStop'[s] PROVE Stopped(s)'
  BY DEF StopInv
<1>1. /\ Disabled[active']
      /\ underStop[s] \/ (pc[s] \notin InFlight /\ pc'[s] = "received")
  BY DEF Watch
<1>2. CASE ~underStop[s]
  BY <1>1, <1>2 DEF Stopped
<1>3. CASE underStop[s]
  <2>0. Stopped(s)
    BY <1>3 DEF StopInv
  <2>1. ASSUME NEW r \in Requests, Receive(r) PROVE Stopped(s)'
    BY <1>0, <1>1, <2>0, <2>1 DEF Receive, Goto, Stopped
  <2>2. ASSUME NEW r \in Requests, LoadPolicy(r) PROVE Stopped(s)'
    <3>1. UNCHANGED active /\ pc[r] = "received"
      BY <2>2 DEF LoadPolicy, procVars
    <3>2. \/ /\ pc' = [pc EXCEPT ![r] = "auditing"] /\ pol' = pol
             /\ verdict' = [verdict EXCEPT ![r] = "bad_request"]
          \/ /\ pc' = [pc EXCEPT ![r] = "checking"] /\ verdict' = verdict
             /\ pol' = [pol EXCEPT ![r] = active]
      BY <2>2 DEF LoadPolicy, Settle, Goto
    <3> QED BY <1>0, <2>0, <3>1, <3>2 DEF Stopped
  <2>3. ASSUME NEW r \in Requests, CheckRequest(r) PROVE Stopped(s)'
    <3>1. UNCHANGED <<active, pol>> /\ pc[r] = "checking"
      BY <2>3 DEF CheckRequest, procVars
    <3>2. CASE s = r
      <4>1. Settle(r, "policy_disabled")
        BY <2>0, <2>3, <3>1, <3>2 DEF CheckRequest, Stopped, PolicyOf, IsDisabled
      <4> QED BY <1>0, <1>1, <3>1, <3>2, <4>1 DEF Settle, Goto, Stopped
    <3>3. CASE s # r
      <4>1. pc'[s] = pc[s] /\ verdict'[s] = verdict[s]
        BY <1>0, <2>3, <3>3 DEF CheckRequest, Settle, Goto
      <4> QED BY <1>1, <2>0, <3>1, <4>1 DEF Stopped
    <3> QED BY <3>2, <3>3
  <2>4. ASSUME NEW r \in Requests, VerifyToken(r) \/ MatchAndSign(r) PROVE Stopped(s)'
    <3>1. UNCHANGED <<active, pol>> /\ pc[r] \in {"verifying", "matching"}
      BY <2>4 DEF VerifyToken, MatchAndSign, procVars
    <3>2. s # r
      BY <2>0, <3>1 DEF Stopped
    <3>3. pc'[s] = pc[s] /\ verdict'[s] = verdict[s]
      BY <1>0, <2>4, <3>2 DEF VerifyToken, MatchAndSign, Settle, Goto
    <3> QED BY <1>1, <2>0, <3>1, <3>3 DEF Stopped
  <2>5. ASSUME NEW r \in Requests, Audit(r) \/ Respond(r) PROVE Stopped(s)'
    <3>1. UNCHANGED <<active, pol, verdict>> /\ pc[r] \in {"auditing", "responding"}
      BY <2>5 DEF Audit, Respond, procVars
    <3>2. \E l \in {"responding"} \cup Answered : pc' = [pc EXCEPT ![r] = l]
      BY <2>5 DEF Audit, Respond, Goto
    <3> QED BY <1>0, <2>0, <3>1, <3>2 DEF Stopped
  <2>6. CASE ProcessStep
    BY <1>0, <1>1, <2>0, <2>6 DEF ProcessStep, Stopped
  <2> QED BY <2>1, <2>2, <2>3, <2>4, <2>5, <2>6 DEF Timeless, RequestStep
<1> QED BY <1>2, <1>3

\* No request that comes while the active policy is disabled is ever granted a
\* certificate before the stop is lifted, however it meets a reload.
THEOREM StopHoldsForNewRequests == HSpec => []StopDeniesNewRequests
<1>1. HInit => StopInv
  BY DEF HInit, StopInv
<1>2. ASSUME SignInv, StopInv, [HNext]_hvars PROVE StopInv'
  <2>1. CASE Timeless /\ Watch
    BY <1>2, <2>1, StopStep
  <2>2. CASE (Tick /\ Pass) \/ UNCHANGED hvars
    <3>1. UNCHANGED <<active, pc, pol, verdict, underStop>>
      BY <2>2 DEF Tick, Pass, hvars, vars, procVars, reqVars
    <3> QED BY <1>2, <3>1 DEF StopInv, Stopped
  <2> QED BY <1>2, <2>1, <2>2 DEF HNext
<1>3. StopInv => StopDeniesNewRequests
  BY DEF StopInv, Stopped, StopDeniesNewRequests
<1> QED BY <1>1, <1>2, <1>3, WatchKeepsSpec, SignInvariance, PTL DEF HSpec

\* While the count runs nobody may sign, so what has been signed runs out.
DrainInv == /\ quiet > 0 => Disabled[active] /\ \A r \in Requests : ~Open(r)
            /\ life <= Ceiling - quiet

LEMMA DrainTimeless ==
    ASSUME SignInv, SignInv', quiet \in 0..Ceiling, DrainInv, Timeless, Watch
    PROVE  DrainInv'
<1> USE DEF InFlight, Bound, Answered
<1>0. /\ pc \in [Requests -> InFlight \cup Answered \cup {"idle", "cut"}]
      /\ pol \in [Requests -> Policies]
      /\ life' \in 0..Ceiling /\ Ceiling \in Nat
  BY PoliciesAssumption DEF SignInv, TypeOK
<1>1. CASE quiet' = 0
  BY <1>0, <1>1 DEF DrainInv
<1>2. CASE quiet' # 0
  <2>1. quiet' = quiet /\ quiet > 0 /\ Disabled[active']
    BY <1>2 DEF Watch
  <2>2. Disabled[active] /\ life <= Ceiling - quiet
    BY <2>1 DEF DrainInv
  <2>3. ASSUME NEW r \in Requests PROVE ~Open(r)
    BY <2>1 DEF DrainInv
  <2>4. ASSUME NEW r \in Requests, RequestStep(r)
        PROVE  life' = life /\ \A s \in Requests : ~Open(s)'
    <3>1. pc[r] \notin {"verifying", "matching"}
      BY <2>3 DEF SignInv, StageInv, Checked, Open
    <3>2. CASE Receive(r)
      BY <1>0, <2>3, <3>2 DEF Receive, Goto, Open
    <3>3. CASE LoadPolicy(r)
      <4>1. life' = life /\ \E l : pc' = [pc EXCEPT ![r] = l]
        BY <3>3 DEF LoadPolicy, Settle, Goto
      <4>2. (pc'[r] = "auditing" /\ pol' = pol) \/ pol' = [pol EXCEPT ![r] = active]
        BY <1>0, <3>3 DEF LoadPolicy, Settle, Goto
      <4> QED BY <1>0, <2>2, <2>3, <4>1, <4>2 DEF Open
    <3>4. CASE CheckRequest(r)
      <4>1. pc[r] = "checking" /\ life' = life /\ pol' = pol
            /\ \E l : pc' = [pc EXCEPT ![r] = l]
        BY <3>4 DEF CheckRequest, Settle, Goto
      <4>2. Disabled[pol[r]]
        BY <2>3, <4>1 DEF Open
      <4> QED BY <1>0, <2>3, <4>1, <4>2 DEF Open
    <3>5. CASE Audit(r) \/ Respond(r)
      <4>1. /\ life' = life /\ pol' = pol
            /\ \E l \in {"responding"} \cup Answered : pc' = [pc EXCEPT ![r] = l]
        BY <3>5 DEF Audit, Respond, Goto
      <4> QED BY <1>0, <2>3, <4>1 DEF Open
    <3> QED BY <2>4, <3>1, <3>2, <3>3, <3>4, <3>5 DEF RequestStep, VerifyToken, MatchAndSign
  <2>5. CASE ProcessStep
    BY <2>1, <2>2, <2>3, <2>5 DEF ProcessStep, Open, DrainInv
  <2> QED BY <2>1, <2>2, <2>4, <2>5 DEF Timeless, DrainInv
<1> QED BY <1>1, <1>2

LEMMA DrainTick ==
    ASSUME SignInv, quiet \in 0..Ceiling, DrainInv, Tick, Pass
    PROVE  DrainInv'
<1>1. UNCHANGED <<active, pc, pol>>
  BY DEF Tick, procVars, reqVars
<1>2. life \in 0..Ceiling /\ Ceiling \in Nat
  BY PoliciesAssumption DEF SignInv, TypeOK
<1>3. life' = IF life > 0 THEN life - 1 ELSE 0
  BY DEF Tick
<1>4. CASE Disabled[active] /\ ~ \E r \in Requests : Open(r)
  <2>1. quiet' = IF quiet < Ceiling THEN quiet + 1 ELSE Ceiling
    BY <1>4 DEF Pass, Count
  <2>2. life' <= Ceiling - quiet'
    BY <1>2, <1>3, <2>1 DEF DrainInv
  <2> QED BY <1>1, <1>4, <2>2 DEF DrainInv, Open
<1>5. CASE ~(Disabled[active] /\ ~ \E r \in Requests : Open(r))
  BY <1>2, <1>3, <1>5 DEF Pass, DrainInv
<1> QED BY <1>4, <1>5

\* However many handlers and whatever restarts: Ceiling ticks after the last
\* request that was open at the stop, no certificate of this CA is valid.
THEOREM StopDrainsCertificates == HSpec => []StopOutlastsCertificates
<1>1. HInit => DrainInv
  BY PoliciesAssumption DEF HInit, Init, DrainInv
<1>2. ASSUME SignInv, SignInv', HistoryTypeOK, DrainInv, [HNext]_hvars PROVE DrainInv'
  <2>1. CASE Timeless /\ Watch
    BY <1>2, <2>1, DrainTimeless DEF HistoryTypeOK
  <2>2. CASE Tick /\ Pass
    BY <1>2, <2>2, DrainTick DEF HistoryTypeOK
  <2>3. CASE UNCHANGED hvars
    BY <1>2, <2>3 DEF hvars, vars, procVars, reqVars, DrainInv, Open
  <2> QED BY <1>2, <2>1, <2>2, <2>3 DEF HNext
<1>3. SignInv /\ HistoryTypeOK /\ DrainInv => StopOutlastsCertificates
  BY PoliciesAssumption DEF SignInv, TypeOK, DrainInv, StopOutlastsCertificates
<1> QED
  BY <1>1, <1>2, <1>3, WatchKeepsSpec, SignInvariance, HistoryTypeCorrect, PTL DEF HSpec
=============================================================================
