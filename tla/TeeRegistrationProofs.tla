----------------------- MODULE TeeRegistrationProofs -----------------------
(***************************************************************************)
(* For every number of identities, faults and runs: the machine that a     *)
(* run which started fresh has checked and reports as registered is in     *)
(* production, and the state file is torn or records steps the chain       *)
(* accepted, all for one machine.                                          *)
(***************************************************************************)
EXTENDS TeeRegistration, FiniteSetTheorems, TLAPS

\* What the operator asks for, of the commands -command (main.go:21) could
\* spell: each that checks a machine promotes it, and none asks for a new
\* attestation without the step that registers the machine.  The default "rap" and the
\* "rRap" of scripts/post-build.sh:161 satisfy both.
EndsWithPromotion == \A c \in Commands : "a" \in c => "p" \in c
RegistersFirst == \A c \in Commands : "R" \in c => "r" \in c

\* With the registry in state S, no machine was registered after m.
Newest(S, m) == \A n \in Machines : S[n] # "none" => n <= m

\* What I knows of instruction i is that it is one of machine m, of these kinds.
Attestations == {"live", "spent"}
Checks == {"pending", "ready", "lost"}
Stands(I, i, kinds, m) == i \in Ids /\ I[i].kind \in kinds /\ I[i].of = m

\* The steps recorded in st are steps of machine m.
Of(st, m, S, I) ==
  /\ S[m] # "none"
  /\ st.steps \cap {"r", "R"} # {} => Stands(I, st.attest, Attestations, m)
  /\ "a" \in st.steps => Stands(I, st.check, Checks, m)

\* A record of any step is one of the newest machine, and starts with r.
Records(st, S, I) ==
  st.steps # {} => "r" \in st.steps /\ \E m \in Machines : Of(st, m, S, I) /\ Newest(S, m)

\* A run knows nothing before it starts; no later machine is registered than
\* the one it is for, and until it records a step the file holds none either.
RunInv ==
  /\ run.machine <= node /\ Newest(status, run.machine)
  /\ pc = "idle" => state = Fresh /\ attest = NoId /\ check = NoId
  /\ pc \notin {"idle", "unreadable"} /\ state.steps = {} => file.steps = {}

\* The attestation in hand is the recorded one, and step r was done before R.
HandInv ==
  /\ attest # NoId => attest = state.attest /\ "r" \in state.steps
  /\ pc \in {"R", "a", "send"} /\ "r" \in run.cmd => "r" \in state.steps

Recording(st, S, I) == st = Torn \/ Records(st, S, I)

FileInv == RunInv /\ HandInv /\ Recording(file, status, instr) /\ Records(state, status, instr)

\* A run that started fresh and checks the machine itself skips nothing, so the
\* id it polls is of its machine.
Unskipped ==
  ~run.kept /\ "a" \in run.cmd =>
    /\ pc \in {"r", "R", "a", "send"} => "a" \notin state.steps
    /\ pc # "idle" /\ check \in Ids => instr[check].of = run.machine
    /\ pc = "finish" => status[run.machine] = "production"

ReportInv ==
  /\ pc = "promote" => check \in Ids
  /\ Unskipped
  /\ ReportedInProduction

-----------------------------------------------------------------------------
(* Instruction ids *)

LEMMA OneMore ==
  ASSUME NEW T, IsFiniteSet(T), NEW n \in Nat, Cardinality(T) <= n, NEW x
  PROVE  IsFiniteSet(T \cup {x}) /\ Cardinality(T \cup {x}) <= n + 1
<1>1. /\ IsFiniteSet(T \cup {x})
      /\ \/ Cardinality(T \cup {x}) = Cardinality(T)
         \/ Cardinality(T \cup {x}) = Cardinality(T) + 1
  BY FS_AddElement
<1>2. Cardinality(T) \in Nat
  BY FS_CardinalityType
<1> QED
  BY <1>1, <1>2

LEMMA AtMostSix ==
  ASSUME NEW a, NEW b, NEW c, NEW d, NEW e, NEW g
  PROVE  IsFiniteSet({a, b, c, d, e, g}) /\ Cardinality({a, b, c, d, e, g}) <= 6
<1>1. IsFiniteSet({a}) /\ Cardinality({a}) <= 1
  BY FS_Singleton
<1>2. IsFiniteSet({a} \cup {b}) /\ Cardinality({a} \cup {b}) <= 1 + 1
  BY <1>1, OneMore
<1>3. IsFiniteSet({a, b}) /\ Cardinality({a, b}) <= 2
  <2>1. {a} \cup {b} = {a, b}
    OBVIOUS
  <2> QED
    BY <1>2, <2>1
<1>4. IsFiniteSet({a, b} \cup {c}) /\ Cardinality({a, b} \cup {c}) <= 2 + 1
  BY <1>3, OneMore
<1>5. IsFiniteSet({a, b, c}) /\ Cardinality({a, b, c}) <= 3
  <2>1. {a, b} \cup {c} = {a, b, c}
    OBVIOUS
  <2> QED
    BY <1>4, <2>1
<1>6. IsFiniteSet({a, b, c} \cup {d}) /\ Cardinality({a, b, c} \cup {d}) <= 3 + 1
  BY <1>5, OneMore
<1>7. IsFiniteSet({a, b, c, d}) /\ Cardinality({a, b, c, d}) <= 4
  <2>1. {a, b, c} \cup {d} = {a, b, c, d}
    OBVIOUS
  <2> QED
    BY <1>6, <2>1
<1>8. IsFiniteSet({a, b, c, d} \cup {e}) /\ Cardinality({a, b, c, d} \cup {e}) <= 4 + 1
  BY <1>7, OneMore
<1>9. IsFiniteSet({a, b, c, d, e}) /\ Cardinality({a, b, c, d, e}) <= 5
  <2>1. {a, b, c, d} \cup {e} = {a, b, c, d, e}
    OBVIOUS
  <2> QED
    BY <1>8, <2>1
<1>10. IsFiniteSet({a, b, c, d, e} \cup {g}) /\ Cardinality({a, b, c, d, e} \cup {g}) <= 5 + 1
  BY <1>9, OneMore
<1>11. {a, b, c, d, e} \cup {g} = {a, b, c, d, e, g}
  OBVIOUS
<1> QED
  BY <1>10, <1>11

\* Six ids are remembered at most, so that one of the others stands for a new one.
LEMMA NewIdIsNew ==
  /\ NewId \in Ids
  /\ NewId \notin {file.attest, file.check, state.attest, state.check, attest, check}
<1> DEFINE S == {file.attest, file.check, state.attest, state.check, attest, check}
<1>1. IsFiniteSet(S) /\ Cardinality(S) <= 6
  BY AtMostSix
<1>2. \E i \in Ids : i \notin S
  <2>1. SUFFICES ASSUME Ids \subseteq S PROVE FALSE
    OBVIOUS
  <2>2. Cardinality(Ids) <= Cardinality(S)
    BY <1>1, <2>1, FS_Subset
  <2>3. Cardinality(Ids) \in Nat /\ Cardinality(S) \in Nat /\ Cardinality(Ids) > 6
    BY <1>1, RegistrationAssumption, FS_CardinalityType
  <2> QED
    BY <1>1, <2>2, <2>3
<1> QED
  BY <1>2 DEF NewId

-----------------------------------------------------------------------------
(* The state is well typed *)

LEMMA InitTyped == Init => TypeOK
<1> SUFFICES ASSUME Init PROVE TypeOK
  OBVIOUS
<1>1. 1 \in Machines /\ 0 \in 0..MaxFaults
  BY RegistrationAssumption DEF Machines
<1>2. Fresh \in State
  BY DEF Fresh, State
<1> QED
  BY <1>1, <1>2 DEF Init, TypeOK, Kinds

\* No run holds a torn record.
LEMMA TornIsNone == Torn \notin State /\ Torn.steps # {} /\ Fresh # Torn
<1>1. Torn.steps = {"torn"} /\ Fresh.steps = {}
  BY DEF Torn, Fresh
<1>2. "torn" \notin {"r", "R", "a"}
  OBVIOUS
<1> QED
  BY <1>1, <1>2 DEF State

LEMMA RecordTyped ==
  ASSUME TypeOK, NEW i \in Ids, NEW s \in {"r", "R"}
  PROVE  /\ Recorded(s, i) \in State
         /\ [state EXCEPT !.steps = @ \cup {"a"}, !.check = i] \in State
  BY DEF TypeOK, State, Recorded

LEMMA FaultTyped ==
  ASSUME TypeOK, Fault \/ NoFault
  PROVE  faults' \in 0..MaxFaults
<1>1. MaxFaults \in Nat /\ faults \in 0..MaxFaults
  BY RegistrationAssumption DEF TypeOK
<1> QED
  BY <1>1 DEF Fault, NoFault

\* Ending a run and recording a step keep the tool's part of the state typed.
ToolTyped ==
  /\ file \in State \cup {Torn} /\ state \in State
  /\ pc \in {"idle", "unreadable", "r", "R", "a", "send", "p", "promote", "finish"}
  /\ run \in [machine : Machines, cmd : Commands, kept : KeepsFile]
  /\ attest \in Ids \cup {NoId} /\ check \in Ids \cup {NoId}
  /\ reported \subseteq Machines

LEMMA LeaveTyped ==
  ASSUME TypeOK, Leave, file' \in {file, Torn}
  PROVE  ToolTyped'
  BY DEF Leave, TypeOK, ToolTyped, Fresh, State

LEMMA ExitTyped ==
  ASSUME TypeOK, Exit
  PROVE  ToolTyped'
  BY LeaveTyped DEF Exit

LEMMA UnseenTyped ==
  ASSUME TypeOK, Unseen
  PROVE  ToolTyped' /\ faults' \in 0..MaxFaults /\ UNCHANGED <<node, synced>>
  BY LeaveTyped, FaultTyped DEF Unseen, NotWritten

LEMMA MinedTyped ==
  ASSUME TypeOK, NEW st \in State, NEW next \in {"R", "a", "p"}, Mined(NewId, st, next),
         \/ attest' = NewId /\ UNCHANGED check
         \/ check' = NewId /\ UNCHANGED attest
  PROVE  ToolTyped' /\ faults' \in 0..MaxFaults /\ UNCHANGED <<node, synced>>
<1>1. Fault \/ NoFault
  BY DEF Mined, Record, NotWritten
<1>2. NewId \in Ids
  BY NewIdIsNew
<1> QED
  BY <1>1, <1>2, FaultTyped DEF Mined, Record, NotWritten, TypeOK, ToolTyped

LEMMA TypedParts ==
  ASSUME ToolTyped', faults' \in 0..MaxFaults, node' \in Machines, synced' \in BOOLEAN,
         status' \in [Machines -> {"none", "registered", "production"}],
         instr' \in [Ids -> [kind : Kinds, of : Machines]]
  PROVE  TypeOK'
  BY DEF TypeOK, ToolTyped

\* A step that stops the run and leaves the world alone.
LEMMA StopTyped ==
  ASSUME TypeOK, Exit, UNCHANGED world, Fault \/ NoFault
  PROVE  TypeOK'
<1>1. ToolTyped' /\ faults' \in 0..MaxFaults
  BY ExitTyped, FaultTyped
<1> QED
  BY <1>1, TypedParts DEF TypeOK, world

\* A step that moves the run on.
LEMMA MoveTyped ==
  ASSUME TypeOK, UNCHANGED <<world, file, run, state, reported>>, Fault \/ NoFault,
         pc' \in {"r", "R", "a", "send", "p", "promote", "finish"},
         attest' \in Ids \cup {NoId}, check' \in Ids \cup {NoId}
  PROVE  TypeOK'
<1>1. faults' \in 0..MaxFaults
  BY FaultTyped
<1>2. ToolTyped'
  BY DEF TypeOK, ToolTyped
<1> QED
  BY <1>1, <1>2, TypedParts DEF TypeOK, world

\* The record of the new id.
LEMMA IssueTyped ==
  ASSUME TypeOK, NEW k \in Kinds, NEW i \in Ids
  PROVE  [instr EXCEPT ![i] = [kind |-> k, of |-> run.machine]] \in [Ids -> [kind : Kinds, of : Machines]]
  BY DEF TypeOK

LEMMA RequestTyped ==
  ASSUME TypeOK, NEW s \in {"r", "R"}, NEW next \in {"R", "a"},
         RequestTeeAttestation(s, next) \/ (s = "r" /\ PreRegistration(next))
  PROVE  TypeOK'
<1>1. NewId \in Ids /\ "live" \in Kinds
  BY NewIdIsNew DEF Kinds
<1>2. CASE /\ Issue(NewId, "live")
           /\ status' \in [Machines -> {"none", "registered", "production"}]
           /\ \/ Mined(NewId, Recorded(s, NewId), next) /\ attest' = NewId /\ UNCHANGED check
              \/ Unseen
  <2>1. instr' \in [Ids -> [kind : Kinds, of : Machines]]
    BY <1>1, <1>2, IssueTyped DEF Issue
  <2>2. CASE Mined(NewId, Recorded(s, NewId), next) /\ attest' = NewId /\ UNCHANGED check
    <3>1. ToolTyped' /\ faults' \in 0..MaxFaults /\ UNCHANGED <<node, synced>>
      BY <1>1, <2>2, RecordTyped, MinedTyped
    <3> QED
      BY <1>2, <2>1, <3>1, TypedParts DEF TypeOK
  <2>3. CASE Unseen
    <3>1. ToolTyped' /\ faults' \in 0..MaxFaults /\ UNCHANGED <<node, synced>>
      BY <2>3, UnseenTyped
    <3> QED
      BY <1>2, <2>1, <3>1, TypedParts DEF TypeOK
  <2> QED
    BY <1>2, <2>2, <2>3
<1>3. CASE NotMined /\ (Fault \/ NoFault)
  BY <1>3, StopTyped DEF NotMined
<1>4. status \in [Machines -> {"none", "registered", "production"}]
  BY DEF TypeOK
<1>5. [status EXCEPT ![run.machine] = "registered"] \in [Machines -> {"none", "registered", "production"}]
  BY <1>4
<1> QED
  BY <1>2, <1>3, <1>4, <1>5 DEF RequestTeeAttestation, PreRegistration

LEMMA CheckTyped ==
  ASSUME TypeOK, RequestCheck
  PROVE  TypeOK'
<1>1. NewId \in Ids /\ Answerable \in Kinds /\ "spent" \in Kinds
  BY NewIdIsNew DEF Kinds, Answerable
<1>2. CASE NotMined /\ (Fault \/ NoFault)
  BY <1>2, StopTyped DEF NotMined
<1> DEFINE st == [state EXCEPT !.steps = @ \cup {"a"}, !.check = NewId]
<1>3. CASE /\ instr' = [instr EXCEPT ![attest].kind = "spent",
                                     ![NewId] = [kind |-> Answerable, of |-> run.machine]]
           /\ UNCHANGED status
           /\ \/ Mined(NewId, st, "p") /\ check' = NewId /\ UNCHANGED attest
              \/ Unseen
  <2>1. instr' \in [Ids -> [kind : Kinds, of : Machines]]
    BY <1>1, <1>3 DEF TypeOK
  <2>2. CASE Mined(NewId, st, "p") /\ check' = NewId /\ UNCHANGED attest
    <3>1. st \in State
      BY <1>1, RecordTyped
    <3>2. ToolTyped' /\ faults' \in 0..MaxFaults /\ UNCHANGED <<node, synced>>
      BY <2>2, <3>1, MinedTyped
    <3> QED
      BY <1>3, <2>1, <3>2, TypedParts DEF TypeOK
  <2>3. CASE Unseen
    <3>1. ToolTyped' /\ faults' \in 0..MaxFaults /\ UNCHANGED <<node, synced>>
      BY <2>3, UnseenTyped
    <3> QED
      BY <1>3, <2>1, <3>1, TypedParts DEF TypeOK
  <2> QED
    BY <1>3, <2>2, <2>3
<1> QED
  BY <1>2, <1>3 DEF RequestCheck

LEMMA PromotionTyped ==
  ASSUME TypeOK, ToProduction
  PROVE  TypeOK'
<1>1. CASE NotMined /\ Fault
  BY <1>1, StopTyped DEF NotMined
<1>2. CASE /\ status' = [status EXCEPT ![Promoted] = "production"]
           /\ UNCHANGED instr
           /\ \/ /\ pc' = "finish" /\ NoFault
                 /\ UNCHANGED <<node, synced, file, run, state, attest, check, reported>>
              \/ Exit /\ UNCHANGED <<node, synced>> /\ Fault
  <2>1. status' \in [Machines -> {"none", "registered", "production"}]
    BY <1>2 DEF TypeOK
  <2>2. CASE /\ pc' = "finish" /\ NoFault
             /\ UNCHANGED <<node, synced, file, run, state, attest, check, reported>>
    BY <1>2, <2>1, <2>2, FaultTyped DEF TypeOK
  <2>3. CASE Exit /\ UNCHANGED <<node, synced>> /\ Fault
    <3>1. ToolTyped' /\ faults' \in 0..MaxFaults /\ UNCHANGED <<node, synced>>
      BY <2>3, ExitTyped, FaultTyped
    <3> QED
      BY <1>2, <2>1, <3>1, TypedParts DEF TypeOK
  <2> QED
    BY <1>2, <2>2, <2>3
<1> QED
  BY <1>1, <1>2 DEF ToProduction

LEMMA StartTyped ==
  ASSUME TypeOK, NEW keep \in KeepsFile, NEW c \in Commands, Start(keep, c)
  PROVE  TypeOK'
<1>1. Loaded(keep) \in State \cup {Torn} /\ Fresh \in State
  BY DEF TypeOK, Loaded, Fresh, State
<1>2. check' \in Ids \cup {NoId}
  BY DEF Start
<1>3. run' \in [machine : Machines, cmd : Commands, kept : KeepsFile]
  BY DEF Start, TypeOK
<1>4. faults' \in 0..MaxFaults
  BY FaultTyped DEF Start
<1>5. ToolTyped'
  BY <1>1, <1>2, <1>3 DEF Start, TypeOK, ToolTyped
<1> QED
  BY <1>4, <1>5, TypedParts DEF Start, TypeOK, world

LEMMA FinishTyped ==
  ASSUME TypeOK, Finish
  PROVE  TypeOK'
<1>1. Fresh \in State
  BY DEF Fresh, State
<1>2. faults' \in 0..MaxFaults
  BY FaultTyped DEF Finish
<1>3. reported' \subseteq Machines
  BY DEF Finish, Succeeds, TypeOK
<1>4. ToolTyped'
  BY <1>1, <1>3 DEF Finish, TypeOK, ToolTyped
<1> QED
  BY <1>2, <1>4, TypedParts DEF Finish, TypeOK, world

LEMMA OutsideTyped ==
  ASSUME TypeOK, RestartNode \/ Expire \/ LosePolicy \/ CatchUp \/ Answer
  PROVE  TypeOK'
<1>1. ToolTyped'
  BY DEF TypeOK, ToolTyped, tool, RestartNode, Expire, LosePolicy, CatchUp, Answer
<1>2. faults' \in 0..MaxFaults
  BY FaultTyped DEF RestartNode, Expire, LosePolicy, CatchUp, Answer
<1>3. node' \in Machines
  BY RegistrationAssumption
  DEF RestartNode, Expire, LosePolicy, CatchUp, Answer, TypeOK, Machines
<1>4. instr' \in [Ids -> [kind : Kinds, of : Machines]]
  <2>1. "spent" \in Kinds /\ "ready" \in Kinds
    BY DEF Kinds
  <2> QED
    BY <2>1 DEF RestartNode, Expire, LosePolicy, CatchUp, Answer, TypeOK
<1>5. synced' \in BOOLEAN /\ UNCHANGED status
  BY DEF RestartNode, Expire, LosePolicy, CatchUp, Answer, TypeOK
<1> QED
  BY <1>1, <1>2, <1>3, <1>4, <1>5, TypedParts DEF TypeOK

LEMMA ToolStepTyped ==
  ASSUME TypeOK, Tool
  PROVE  TypeOK'
<1>1. ASSUME NEW p, NEW next \in {"R", "a", "p", "finish"}, Unnamed(p, next) \/ Skip(p, next)
      PROVE  TypeOK'
  <2>1. /\ attest' \in Ids \cup {NoId} /\ check' \in Ids \cup {NoId}
        /\ UNCHANGED <<world, file, run, state, reported>> /\ NoFault /\ pc' = next
    BY <1>1 DEF Unnamed, Skip, Restored, TypeOK, State
  <2> QED
    BY <2>1, MoveTyped
<1>2. CASE StepRegister \/ StepAttest
  BY <1>2, RequestTyped DEF StepRegister, StepAttest
<1>3. CASE LookupFailed \/ LoadFails
  BY <1>3, StopTyped DEF LookupFailed, LoadFails
<1>4. CASE PolicyCheck
  <2>1. CASE Exit /\ UNCHANGED world /\ NoFault
    BY <2>1, StopTyped
  <2>2. CASE /\ pc' = "send" /\ UNCHANGED <<world, file, run, state, attest, check, reported>>
             /\ Fault \/ NoFault
    BY <2>2, MoveTyped DEF TypeOK
  <2> QED
    BY <1>4, <2>1, <2>2 DEF PolicyCheck
<1>5. CASE Poll
  <2>1. CASE Exit /\ UNCHANGED world /\ (Fault \/ NoFault)
    BY <2>1, StopTyped
  <2>2. CASE /\ pc' = "promote" /\ UNCHANGED <<world, file, run, state, attest, check, reported>>
             /\ NoFault
    BY <2>2, MoveTyped DEF TypeOK
  <2> QED
    BY <1>5, <2>1, <2>2 DEF Poll
<1>6. CASE RequestCheck
  BY <1>6, CheckTyped
<1>7. CASE ToProduction
  BY <1>7, PromotionTyped
<1>8. CASE Finish
  BY <1>8, FinishTyped
<1> QED
  BY <1>1, <1>2, <1>3, <1>4, <1>5, <1>6, <1>7, <1>8 DEF Tool

LEMMA StepTyped ==
  ASSUME TypeOK, [Next]_vars
  PROVE  TypeOK'
<1>1. CASE \E keep \in KeepsFile, c \in Commands : Start(keep, c)
  BY <1>1, StartTyped
<1>2. CASE Tool
  BY <1>2, ToolStepTyped
<1>3. CASE Crash
  BY <1>3, StopTyped DEF Crash
<1>4. CASE RestartNode \/ Expire \/ LosePolicy \/ CatchUp \/ Answer
  BY <1>4, OutsideTyped
<1>5. CASE UNCHANGED vars
  BY <1>5 DEF vars, TypeOK
<1> QED
  BY <1>1, <1>2, <1>3, <1>4, <1>5 DEF Next

\* The state is well typed.
THEOREM TypeInvariant == Spec => []TypeOK
<1>1. TypeOK /\ [Next]_vars => TypeOK'
  BY StepTyped
<1> QED
  BY <1>1, InitTyped, PTL DEF Spec

-----------------------------------------------------------------------------
(* What a step does to the registry and to the ids the tool remembers *)

Remembered == {file.attest, file.check, state.attest, state.check, attest, check}

\* An attestation stays one, and so does a check, of the same machine.
Goes(I, J, i) ==
  /\ J[i].of = I[i].of
  /\ I[i].kind \in Attestations => J[i].kind \in Attestations
  /\ I[i].kind \in Checks => J[i].kind \in Checks

Forward == \A i \in Ids \cap Remembered : Goes(instr, instr', i)
SameMachines == \A m \in Machines : status'[m] = "none" <=> status[m] = "none"
StaysInProduction == \A m \in Machines : status[m] = "production" => status'[m] = "production"

LEMMA IssueForward ==
  ASSUME TypeOK, NEW kind, Issue(NewId, kind)
  PROVE  Forward
<1>1. \A i \in Ids \cap Remembered : i # NewId /\ instr'[i] = instr[i]
  BY NewIdIsNew DEF Remembered, Issue, TypeOK
<1> QED
  BY <1>1 DEF Forward, Goes

LEMMA CheckForward ==
  ASSUME TypeOK, Is(attest, "live", run.machine),
         instr' = [instr EXCEPT ![attest].kind = "spent",
                                ![NewId] = [kind |-> Answerable, of |-> run.machine]]
  PROVE  Forward
<1>1. ASSUME NEW i \in Ids \cap Remembered
      PROVE  Goes(instr, instr', i)
  <2>1. i # NewId /\ attest # NewId /\ attest \in Ids
    BY NewIdIsNew DEF Remembered, Is
  <2>2. CASE i # attest
    BY <2>1, <2>2 DEF Goes, TypeOK
  <2>3. CASE i = attest
    <3>1. instr'[i].kind = "spent" /\ instr'[i].of = instr[i].of /\ instr[i].kind = "live"
      BY <2>1, <2>3 DEF TypeOK, Is
    <3> QED
      BY <3>1 DEF Goes, Attestations, Checks
  <2> QED
    BY <2>2, <2>3
<1> QED
  BY <1>1 DEF Forward

LEMMA SpecificForward ==
  ASSUME TypeOK, Expire \/ Answer
  PROVE  Forward
<1>1. ASSUME NEW i \in Ids, NEW k,
             \/ k = "spent" /\ instr[i].kind = "live"
             \/ k = "ready" /\ instr[i].kind = "pending",
             instr' = [instr EXCEPT ![i].kind = k],
             NEW j \in Ids
      PROVE  Goes(instr, instr', j)
  <2>1. CASE j # i
    BY <1>1, <2>1 DEF Goes, TypeOK
  <2>2. CASE j = i
    <3>1. instr'[j].kind = k /\ instr'[j].of = instr[j].of
      BY <1>1, <2>2 DEF TypeOK
    <3> QED
      BY <1>1, <2>2, <3>1 DEF Goes, Attestations, Checks
  <2> QED
    BY <2>1, <2>2
<1>2. CASE Expire
  BY <1>1, <1>2 DEF Expire, Forward
<1>3. CASE Answer
  <2>1. PICK i \in Ids : Is(i, "pending", node) /\ instr' = [instr EXCEPT ![i].kind = "ready"]
    BY <1>3 DEF Answer
  <2>2. instr[i].kind = "pending"
    BY <2>1 DEF Is
  <2>3. \A j \in Ids : Goes(instr, instr', j)
    BY <1>1, <2>1, <2>2
  <2> QED
    BY <2>3 DEF Forward
<1> QED
  BY <1>2, <1>3

\* Only step r registers a machine.
LEMMA WorldStep ==
  ASSUME TypeOK, [Next]_vars
  PROVE  Forward /\ StaysInProduction /\ (SameMachines \/ StepRegister)
<1>1. ASSUME UNCHANGED <<status, instr>>
      PROVE  Forward /\ StaysInProduction /\ SameMachines
  BY <1>1 DEF Forward, Goes, StaysInProduction, SameMachines
<1>2. ASSUME UNCHANGED status
      PROVE  StaysInProduction /\ SameMachines
  BY <1>2 DEF StaysInProduction, SameMachines
<1>3. ASSUME NEW s, NEW next, RequestTeeAttestation(s, next)
      PROVE  Forward /\ StaysInProduction /\ SameMachines
  BY <1>1, <1>2, <1>3, IssueForward DEF RequestTeeAttestation, NotMined, world
<1>4. CASE StepRegister
  <2>1. CASE OnChain
    BY <1>3, <1>4, <2>1 DEF StepRegister
  <2>2. CASE ~OnChain /\ NotMined
    BY <1>1, <2>2 DEF NotMined, world
  <2>3. CASE /\ ~OnChain /\ status[run.machine] = "none" /\ Issue(NewId, "live")
             /\ status' = [status EXCEPT ![run.machine] = "registered"]
    <3>1. StaysInProduction
      BY <2>3 DEF StaysInProduction, TypeOK
    <3> QED
      BY <1>4, <2>3, <3>1, IssueForward
  <2>4. ASSUME ~OnChain PROVE PreRegistration("R")
    BY <1>4, <2>4 DEF StepRegister
  <2> QED
    BY <2>1, <2>2, <2>3, <2>4 DEF PreRegistration
<1>5. CASE StepAttest
  BY <1>3, <1>5 DEF StepAttest
<1>6. CASE RequestCheck
  <2>1. CASE NotMined
    BY <1>1, <2>1 DEF NotMined, world
  <2>2. CASE ~NotMined
    BY <1>2, <1>6, <2>2, CheckForward DEF RequestCheck
  <2> QED
    BY <2>1, <2>2
<1>7. CASE ToProduction
  <2>1. CASE NotMined
    BY <1>1, <2>1 DEF NotMined, world
  <2>2. CASE /\ status[Promoted] # "none" /\ UNCHANGED instr
             /\ status' = [status EXCEPT ![Promoted] = "production"]
    <3>1. StaysInProduction /\ SameMachines
      BY <2>2 DEF StaysInProduction, SameMachines, TypeOK
    <3>2. Forward
      BY <2>2 DEF Forward, Goes
    <3> QED
      BY <3>1, <3>2
  <2> QED
    BY <1>7, <2>1, <2>2 DEF ToProduction
<1>8. CASE Expire \/ Answer
  <2>1. UNCHANGED status
    BY <1>8 DEF Expire, Answer
  <2> QED
    BY <1>2, <1>8, <2>1, SpecificForward
<1>9. ASSUME NEW p, NEW next, Unnamed(p, next) \/ Skip(p, next)
      PROVE  Forward /\ StaysInProduction /\ SameMachines
  BY <1>1, <1>9 DEF Unnamed, Skip, world
<1>10. CASE \E keep \in KeepsFile, c \in Commands : Start(keep, c)
  BY <1>1, <1>10 DEF Start, world
<1>11. CASE LoadFails \/ LookupFailed \/ PolicyCheck \/ Poll \/ Finish \/ Crash
  BY <1>1, <1>11 DEF LoadFails, LookupFailed, PolicyCheck, Poll, Finish, Crash, Exit, world
<1>12. CASE RestartNode \/ LosePolicy \/ CatchUp \/ UNCHANGED vars
  BY <1>1, <1>12 DEF RestartNode, LosePolicy, CatchUp, vars, world
<1> QED
  BY <1>4, <1>5, <1>6, <1>7, <1>8, <1>9, <1>10, <1>11, <1>12 DEF Next, Tool

-----------------------------------------------------------------------------
(* The state file *)

\* What is recorded stays true while ids go forward and no machine is added.
LEMMA RecordsStay ==
  ASSUME NEW st, NEW S, NEW I, NEW S2, NEW I2, Records(st, S, I),
         \A i \in Ids \cap {st.attest, st.check} : Goes(I, I2, i),
         \A m \in Machines : S2[m] = "none" <=> S[m] = "none"
  PROVE  Records(st, S2, I2)
<1>1. SUFFICES ASSUME st.steps # {} PROVE Records(st, S2, I2)
  BY DEF Records
<1>2. PICK m \in Machines : Of(st, m, S, I) /\ Newest(S, m)
  BY <1>1 DEF Records
<1>3. Newest(S2, m) /\ S2[m] # "none"
  BY <1>2 DEF Newest, Of
<1>4. Of(st, m, S2, I2)
  BY <1>2, <1>3 DEF Of, Stands, Goes
<1> QED
  BY <1>1, <1>2, <1>3, <1>4 DEF Records

LEMMA FreshRecords ==
  ASSUME NEW S, NEW I
  PROVE  Records(Fresh, S, I)
BY DEF Records, Fresh

LEMMA InitFile == Init => FileInv
<1> SUFFICES ASSUME Init PROVE FileInv
  OBVIOUS
<1>1. run.machine = 1 /\ node = 1
  BY DEF Init
<1>2. Newest(status, run.machine)
  BY DEF Init, Newest
<1> QED
  BY <1>1, <1>2, FreshRecords DEF Init, FileInv, RunInv, HandInv, Recording

\* With no new machine, both records and the bound on the machines survive.
Steady ==
  /\ Recording(file, status', instr') /\ Records(state, status', instr')
  /\ Newest(status', run.machine)

LEMMA WorldSteady ==
  ASSUME FileInv, Forward, SameMachines
  PROVE  Steady
<1>1. Recording(file, status', instr') /\ Records(state, status', instr')
  BY RecordsStay DEF FileInv, Recording, Forward, SameMachines, Remembered
<1>2. Newest(status', run.machine)
  BY DEF FileInv, RunInv, SameMachines, Newest
<1> QED
  BY <1>1, <1>2 DEF Steady

LEMMA LeaveFile ==
  ASSUME FileInv, Leave, file' \in {file, Torn}, UNCHANGED node, Steady
  PROVE  FileInv'
BY FreshRecords DEF FileInv, RunInv, HandInv, Leave, Steady, Recording

LEMMA ExitFile ==
  ASSUME FileInv, Exit, UNCHANGED node, Steady
  PROVE  FileInv'
BY LeaveFile DEF Exit

LEMMA UnseenFile ==
  ASSUME FileInv, Unseen, Steady
  PROVE  FileInv'
BY LeaveFile DEF Unseen, NotWritten

\* A step that moves the run on, or leaves the tool alone.
LEMMA MoveFile ==
  ASSUME FileInv, Steady, UNCHANGED <<file, state, run>>, node <= node', node \in Nat,
         node' \in Nat, run.machine \in Nat,
         pc' = "idle" => UNCHANGED <<pc, attest, check>>,
         pc \in {"idle", "unreadable"} => UNCHANGED pc,
         attest' # NoId => attest' = state.attest /\ "r" \in state.steps,
         pc' \in {"R", "a", "send"} /\ "r" \in run.cmd => "r" \in state.steps
  PROVE  FileInv'
<1>1. run'.machine <= node'
  BY DEF FileInv, RunInv
<1>2. RunInv'
  BY <1>1 DEF FileInv, RunInv, Steady
<1>3. HandInv'
  BY DEF HandInv
<1> QED
  BY <1>2, <1>3 DEF FileInv, Steady

\* Recording a step: the new state records steps of the run's machine, which is
\* the newest, and the file follows or stays.
LEMMA RecordFile ==
  ASSUME FileInv, NEW st, NEW next, next \notin {"idle", "unreadable"}, Mined(NewId, st, next),
         Records(st, status', instr'), st.steps # {}, "r" \in st.steps,
         Recording(file, status', instr'), Newest(status', run.machine),
         attest' # NoId => attest' = st.attest
  PROVE  FileInv'
<1>1. state' = st /\ file' \in {st, file, Torn} /\ pc' = next /\ UNCHANGED <<node, run>>
  BY DEF Mined, Record, NotWritten
<1>2. RunInv' /\ HandInv'
  BY <1>1 DEF FileInv, RunInv, HandInv
<1> QED
  BY <1>1, <1>2 DEF FileInv, Recording

LEMMA StartFile ==
  ASSUME TypeOK, FileInv, NEW keep, NEW c, Start(keep, c)
  PROVE  FileInv'
<1>1. /\ UNCHANGED <<node, status, instr>> /\ run'.machine = node
      /\ attest' = NoId /\ (file' = file \/ file' = Fresh)
      /\ \/ pc' = "unreadable" /\ state' = Fresh /\ file' = Torn
         \/ pc' = "r" /\ state' = file' /\ file' # Torn
  BY DEF Start, Loaded, world
<1>2. \A m \in Machines : m \in Nat
  BY DEF Machines
<1>3. node \in Nat /\ run.machine \in Nat
  BY <1>2 DEF TypeOK
<1>4. Newest(status, node)
  BY <1>2, <1>3 DEF FileInv, RunInv, Newest
<1>5. RunInv' /\ HandInv'
  BY <1>1, <1>3, <1>4 DEF RunInv, HandInv
<1> QED
  BY <1>1, <1>5, FreshRecords DEF FileInv, Recording

LEMMA FirstStepFile ==
  ASSUME TypeOK, FileInv, StepRegister
  PROVE  FileInv'
<1>1. /\ pc = "r" /\ state.steps = {} /\ file.steps = {} /\ run.machine \in Machines
      /\ run.machine \in Nat
  BY DEF StepRegister, FileInv, Records, RunInv, TypeOK, Machines
<1>2. CASE NotMined
  <2>1. Exit /\ UNCHANGED world
    BY <1>2 DEF NotMined
  <2>2. Steady /\ UNCHANGED node
    BY <2>1 DEF world, FileInv, RunInv, Steady
  <2> QED
    BY <2>1, <2>2, ExitFile
<1>3. CASE /\ Issue(NewId, "live") /\ status'[run.machine] # "none"
           /\ Newest(status', run.machine)
           /\ \/ Mined(NewId, Recorded("r", NewId), "R") /\ attest' = NewId
              \/ Unseen
  <2>1. Recording(file, status', instr')
    BY <1>1 DEF Records, Recording
  <2>2. Steady
    BY <1>1, <1>3, <2>1 DEF Steady, Records
  <2>3. CASE Unseen
    BY <2>2, <2>3, UnseenFile
  <2>4. CASE Mined(NewId, Recorded("r", NewId), "R") /\ attest' = NewId
    <3> DEFINE st == Recorded("r", NewId)
    <3>1. st.steps = {"r"} /\ st.attest = NewId
      BY <1>1 DEF Recorded, TypeOK, State
    <3>2. Stands(instr', NewId, Attestations, run.machine)
      BY <1>3, NewIdIsNew DEF Issue, Stands, Attestations, TypeOK
    <3>3. Of(st, run.machine, status', instr')
      BY <1>3, <3>1, <3>2 DEF Of
    <3>4. Records(st, status', instr')
      BY <1>1, <1>3, <3>1, <3>3 DEF Records
    <3> HIDE DEF st
    <3> QED
      BY <1>3, <2>1, <2>4, <3>1, <3>4, RecordFile DEF st
  <2> QED
    BY <1>3, <2>3, <2>4
<1>4. CASE OnChain /\ RequestTeeAttestation("r", "R") /\ ~NotMined
  <2>1. status' = status /\ status[run.machine] # "none"
    BY <1>4 DEF RequestTeeAttestation
  <2>2. Newest(status', run.machine)
    BY <2>1 DEF FileInv, RunInv
  <2> QED
    BY <1>3, <1>4, <2>1, <2>2 DEF RequestTeeAttestation
<1>5. CASE PreRegistration("R") /\ ~NotMined
  <2>1. status' = [status EXCEPT ![run.machine] = "registered"]
    BY <1>5 DEF PreRegistration
  <2>2. Newest(status', run.machine) /\ status'[run.machine] # "none"
    BY <1>1, <2>1 DEF FileInv, RunInv, Newest, TypeOK
  <2> QED
    BY <1>3, <1>5, <2>2 DEF PreRegistration
<1> QED
  BY <1>2, <1>4, <1>5 DEF StepRegister

\* Whatever is recorded is of the run's machine, when that one is registered.
LEMMA RecordedIsOwn ==
  ASSUME TypeOK, FileInv, state.steps # {}, status[run.machine] # "none"
  PROVE  Of(state, run.machine, status, instr)
<1>1. PICK m \in Machines : Of(state, m, status, instr) /\ Newest(status, m)
  BY DEF FileInv, Records
<1>2. run.machine \in Machines /\ run.machine \in Nat /\ m \in Nat
  BY DEF TypeOK, Machines
<1>3. run.machine <= m /\ m <= run.machine
  BY <1>1, <1>2 DEF Newest, Of, FileInv, RunInv
<1> QED
  BY <1>1, <1>2, <1>3

LEMMA AttestFile ==
  ASSUME RegistersFirst, TypeOK, FileInv, Forward, StepAttest
  PROVE  FileInv'
<1>1. /\ pc = "R" /\ "r" \in state.steps /\ run.machine \in Machines
  BY DEF StepAttest, FileInv, HandInv, TypeOK, RegistersFirst
<1>2. CASE NotMined
  <2>1. Exit /\ UNCHANGED world
    BY <1>2 DEF NotMined
  <2>2. Steady /\ UNCHANGED node
    BY <2>1 DEF world, FileInv, RunInv, Steady
  <2> QED
    BY <2>1, <2>2, ExitFile
<1>3. CASE /\ Issue(NewId, "live") /\ status[run.machine] # "none" /\ UNCHANGED status
           /\ \/ Mined(NewId, Recorded("R", NewId), "a") /\ attest' = NewId
              \/ Unseen
  <2>1. Steady
    BY <1>3, WorldSteady DEF SameMachines
  <2>2. CASE Unseen
    BY <2>1, <2>2, UnseenFile
  <2>3. CASE Mined(NewId, Recorded("R", NewId), "a") /\ attest' = NewId
    <3> DEFINE st == Recorded("R", NewId)
    <3>1. st.steps = state.steps \cup {"R"} /\ st.attest = NewId /\ st.check = state.check
      BY DEF Recorded, TypeOK, State
    <3>2. Stands(instr', NewId, Attestations, run.machine)
      BY <1>3, NewIdIsNew DEF Issue, Stands, Attestations, TypeOK
    <3>3. Of(state, run.machine, status, instr)
      BY <1>1, <1>3, RecordedIsOwn
    <3>4. "a" \in state.steps => Stands(instr', state.check, Checks, run.machine)
      BY <3>3 DEF Of, Stands, Forward, Remembered, Goes
    <3>5. Of(st, run.machine, status', instr')
      BY <1>3, <3>1, <3>2, <3>4 DEF Of
    <3>6. Records(st, status', instr')
      BY <1>1, <2>1, <3>1, <3>5 DEF Records, Steady
    <3>7. st.steps # {} /\ "r" \in st.steps
      BY <1>1, <3>1
    <3> HIDE DEF st
    <3> QED
      BY <2>1, <2>3, <3>1, <3>6, <3>7, RecordFile DEF st, Steady
  <2> QED
    BY <1>3, <2>2, <2>3
<1> QED
  BY <1>2, <1>3 DEF StepAttest, RequestTeeAttestation

LEMMA CheckFile ==
  ASSUME TypeOK, FileInv, Forward, RequestCheck
  PROVE  FileInv'
<1>1. CASE NotMined
  <2>1. Exit /\ UNCHANGED world
    BY <1>1 DEF NotMined
  <2>2. Steady /\ UNCHANGED node
    BY <2>1 DEF world, FileInv, RunInv, Steady
  <2> QED
    BY <2>1, <2>2, ExitFile
<1> DEFINE st == [state EXCEPT !.steps = @ \cup {"a"}, !.check = NewId]
<1>2. CASE /\ Is(attest, "live", run.machine) /\ UNCHANGED status
           /\ instr' = [instr EXCEPT ![attest].kind = "spent",
                                     ![NewId] = [kind |-> Answerable, of |-> run.machine]]
           /\ \/ Mined(NewId, st, "p") /\ UNCHANGED attest
              \/ Unseen
  <2>1. Steady
    BY <1>2, WorldSteady DEF SameMachines
  <2>2. CASE Unseen
    BY <2>1, <2>2, UnseenFile
  <2>3. CASE Mined(NewId, st, "p") /\ UNCHANGED attest
    <3>1. attest \in Ids /\ attest # NoId
      BY <1>2, RegistrationAssumption DEF Is
    <3>2. attest = state.attest /\ "r" \in state.steps
      BY <3>1 DEF FileInv, HandInv
    <3>3. PICK m \in Machines : Of(state, m, status, instr) /\ Newest(status, m)
      BY <3>2 DEF FileInv, Records
    <3>4. m = run.machine
      BY <1>2, <3>2, <3>3 DEF Of, Stands, Is
    <3>5. /\ st.steps = state.steps \cup {"a"} /\ st.attest = state.attest
          /\ st.check = NewId
      BY DEF TypeOK, State
    <3>6. Stands(instr', state.attest, Attestations, m)
      BY <3>2, <3>3 DEF Of, Stands, Forward, Remembered, Goes
    <3>7. instr'[NewId] = [kind |-> Answerable, of |-> run.machine]
      BY <1>2, NewIdIsNew DEF TypeOK
    <3>8. Stands(instr', NewId, Checks, m)
      BY <3>4, <3>7, NewIdIsNew DEF Stands, Checks, Answerable
    <3>9. Of(st, m, status', instr')
      BY <1>2, <3>3, <3>5, <3>6, <3>8 DEF Of
    <3>10. Records(st, status', instr')
      BY <1>2, <3>2, <3>3, <3>5, <3>9 DEF Records
    <3>11. st.steps # {} /\ "r" \in st.steps
      BY <3>2, <3>5
    <3> HIDE DEF st
    <3> QED
      BY <2>1, <2>3, <3>2, <3>5, <3>10, <3>11, RecordFile DEF Steady
  <2> QED
    BY <1>2, <2>2, <2>3
<1> QED
  BY <1>1, <1>2 DEF RequestCheck

LEMMA QuietFile ==
  ASSUME RegistersFirst, TypeOK, FileInv, Forward, SameMachines,
         \/ \E p \in {"r", "R"} : Unnamed(p, IF p = "r" THEN "R" ELSE "a")
         \/ \E p \in {"r", "R"} : Skip(p, IF p = "r" THEN "R" ELSE "a")
         \/ Unnamed("a", "p") \/ Skip("a", "p") \/ Unnamed("p", "finish")
         \/ LoadFails \/ LookupFailed \/ PolicyCheck \/ Poll \/ ToProduction \/ Finish \/ Crash
         \/ RestartNode \/ Expire \/ LosePolicy \/ CatchUp \/ Answer \/ UNCHANGED vars
  PROVE  FileInv'
<1>1. Steady
  BY WorldSteady
<1>2. node \in Nat /\ run.machine \in Nat /\ node <= node
  BY DEF TypeOK, Machines
<1>3. CASE Exit /\ UNCHANGED node
  BY <1>1, <1>3, ExitFile
<1>4. CASE /\ UNCHANGED <<file, state, run, node>>
           /\ pc \notin {"idle", "unreadable"} /\ pc' \notin {"idle", "unreadable"}
           /\ attest' # NoId => attest' = state.attest /\ "r" \in state.steps
           /\ pc' \in {"R", "a", "send"} /\ "r" \in run.cmd => "r" \in state.steps
  BY <1>1, <1>2, <1>4, MoveFile
<1>5. "R" \in run.cmd => "r" \in run.cmd
  BY DEF RegistersFirst, TypeOK
<1>6. CASE \E p \in {"r", "R"} : Unnamed(p, IF p = "r" THEN "R" ELSE "a")
  BY <1>4, <1>5, <1>6 DEF Unnamed, FileInv, HandInv, world
<1>7. CASE \E p \in {"r", "R"} : Skip(p, IF p = "r" THEN "R" ELSE "a")
  BY <1>4, <1>5, <1>7 DEF Skip, Restored, FileInv, HandInv, world
<1>8. CASE Unnamed("a", "p") \/ Skip("a", "p") \/ Unnamed("p", "finish")
  BY <1>4, <1>8 DEF Unnamed, Skip, Restored, FileInv, HandInv, world
<1>9. CASE PolicyCheck
  BY <1>3, <1>4, <1>9 DEF PolicyCheck, FileInv, HandInv, world
<1>10. CASE Poll
  BY <1>3, <1>4, <1>10 DEF Poll, FileInv, HandInv, world
<1>11. CASE ToProduction
  BY <1>3, <1>4, <1>11 DEF ToProduction, NotMined, FileInv, HandInv, world
<1>12. CASE LoadFails \/ LookupFailed \/ Crash
  BY <1>3, <1>12 DEF LoadFails, LookupFailed, Crash, world
<1>13. CASE Finish
  BY <1>1, <1>13, FreshRecords DEF Finish, FileInv, RunInv, HandInv, Steady, Recording, world
<1>14. CASE RestartNode \/ Expire \/ LosePolicy \/ CatchUp \/ Answer \/ UNCHANGED vars
  <2>1. UNCHANGED <<file, pc, run, state, attest, check>>
    BY <1>14 DEF RestartNode, Expire, LosePolicy, CatchUp, Answer, tool, vars
  <2>2. node' = node \/ node' = node + 1
    BY <1>14 DEF RestartNode, Expire, LosePolicy, CatchUp, Answer, vars
  <2>3. node' \in Nat /\ node <= node'
    BY <1>2, <2>2
  <2> QED
    BY <1>1, <1>2, <2>1, <2>3, MoveFile DEF FileInv, HandInv
<1> QED
  BY <1>6, <1>7, <1>8, <1>9, <1>10, <1>11, <1>12, <1>13, <1>14

LEMMA StepFile ==
  ASSUME RegistersFirst, TypeOK, FileInv, [Next]_vars
  PROVE  FileInv'
<1>1. Forward /\ (SameMachines \/ StepRegister)
  BY WorldStep
<1>2. CASE \E keep \in KeepsFile, c \in Commands : Start(keep, c)
  BY <1>2, StartFile
<1>3. CASE StepRegister
  BY <1>3, FirstStepFile
<1>4. CASE StepAttest
  BY <1>1, <1>4, AttestFile
<1>5. CASE RequestCheck
  BY <1>1, <1>5, CheckFile
<1> QED
  BY <1>1, <1>2, <1>3, <1>4, <1>5, QuietFile DEF Next, Tool

\* The state file, unless it is torn, records accepted steps of one machine
\* (saveState and the transactions of RegisterNode), for every number of
\* identities and faults.
THEOREM FilesAreOfOneMachine == RegistersFirst => (Spec => []FileOfOneMachine)
<1> SUFFICES ASSUME RegistersFirst PROVE Spec => []FileOfOneMachine
  OBVIOUS
<1>1. TypeOK /\ FileInv /\ [Next]_vars => FileInv'
  BY StepFile
<1>2. TypeOK /\ FileInv => FileOfOneMachine
  <2> SUFFICES ASSUME TypeOK, FileInv, file.steps # {}, file # Torn PROVE FileOfOneMachine
    BY DEF FileOfOneMachine
  <2>1. PICK m \in Machines : Of(file, m, status, instr)
    BY DEF FileInv, Records, Recording
  <2>2. \A i \in Ids : instr[i] = [kind |-> instr[i].kind, of |-> instr[i].of]
    BY DEF TypeOK
  <2>3. file.steps \cap {"r", "R"} # {} => Is(file.attest, "live", m) \/ Is(file.attest, "spent", m)
    BY <2>1, <2>2 DEF Of, Stands, Attestations, Is
  <2>4. "a" \in file.steps => \E k \in {"pending", "ready", "lost"} : Is(file.check, k, m)
    BY <2>1, <2>2 DEF Of, Stands, Checks, Is
  <2> QED
    BY <2>1, <2>3, <2>4 DEF FileOfOneMachine, Of
<1> QED
  BY <1>1, <1>2, InitFile, TypeInvariant, PTL DEF Spec

-----------------------------------------------------------------------------
(* What is reported *)

LEMMA InitReport == Init => ReportInv
BY DEF Init, ReportInv, Unskipped, ReportedInProduction

\* A step that ends the run without a report.
LEMMA LeaveReport ==
  ASSUME TypeOK, ReportInv, StaysInProduction, Leave
  PROVE  ReportInv'
BY DEF ReportInv, Unskipped, ReportedInProduction, StaysInProduction, Leave, TypeOK

LEMMA StepReport ==
  ASSUME EndsWithPromotion, TypeOK, ReportInv, [Next]_vars
  PROVE  ReportInv'
<1>1. Forward /\ StaysInProduction
  BY WorldStep
<1>2. ASSUME UNCHANGED reported
      PROVE  ReportedInProduction'
  BY <1>1, <1>2 DEF ReportInv, ReportedInProduction, StaysInProduction, TypeOK
<1>3. check \in Ids => instr'[check].of = instr[check].of
  BY <1>1 DEF Forward, Remembered, Goes
<1>4. CASE Leave
  BY <1>1, <1>4, LeaveReport
<1>5. CASE \E keep \in KeepsFile, c \in Commands : Start(keep, c)
  <2>1. PICK keep \in KeepsFile, c \in Commands : Start(keep, c)
    BY <1>5
  <2>2. ~keep => state' = Fresh
    BY <2>1 DEF Start, Loaded
  <2>3. "a" \in run'.cmd => check' \notin Ids
    BY <2>1, RegistrationAssumption DEF Start
  <2>4. ~run'.kept => "a" \notin state'.steps
    BY <2>1, <2>2 DEF Start, Fresh
  <2>5. pc' \in {"r", "unreadable"} /\ UNCHANGED reported
    BY <2>1 DEF Start
  <2> QED
    BY <1>2, <2>3, <2>4, <2>5 DEF ReportInv, Unskipped
<1>6. ASSUME pc' # "promote", pc' # "finish", UNCHANGED <<run, check, reported>>, pc # "idle",
             \/ pc' \in {"r", "R", "a", "send"} /\ pc \in {"r", "R", "a", "send"}
                /\ state'.steps \ {"r", "R"} \subseteq state.steps
             \/ pc' \notin {"r", "R", "a", "send"}
      PROVE  ReportInv'
  BY <1>2, <1>3, <1>6 DEF ReportInv, Unskipped
<1>7. ASSUME NEW s \in {"r", "R"}, NEW next \in {"R", "a"}, pc = s, ~Leave,
             RequestTeeAttestation(s, next) \/ PreRegistration(next)
      PROVE  ReportInv'
  <2>1. /\ UNCHANGED <<run, check, reported>> /\ pc' = next
        /\ \E q \in {"r", "R"} : state' = Recorded(q, NewId)
    BY <1>7 DEF RequestTeeAttestation, PreRegistration, Mined, Record, Unseen, NotMined, Exit
  <2>2. state'.steps \ {"r", "R"} \subseteq state.steps
    BY <2>1 DEF Recorded, TypeOK, State
  <2> QED
    BY <1>6, <1>7, <2>1, <2>2
<1>8. CASE StepRegister \/ StepAttest
  BY <1>4, <1>7, <1>8 DEF StepRegister, StepAttest
<1>9. CASE RequestCheck
  <2>1. CASE ~Leave
    <3>1. /\ pc' = "p" /\ check' = NewId /\ UNCHANGED <<run, reported>>
          /\ instr' = [instr EXCEPT ![attest].kind = "spent",
                                    ![NewId] = [kind |-> Answerable, of |-> run.machine]]
      BY <1>9, <2>1 DEF RequestCheck, Mined, Unseen, NotMined, Exit
    <3>2. instr'[NewId].of = run.machine
      BY <3>1, NewIdIsNew DEF TypeOK
    <3> QED
      BY <1>2, <3>1, <3>2 DEF ReportInv, Unskipped
  <2> QED
    BY <1>4, <2>1
<1>10. CASE Unnamed("r", "R") \/ Unnamed("R", "a") \/ Skip("r", "R") \/ Skip("R", "a") \/ Unnamed("a", "p")
  BY <1>6, <1>10 DEF Unnamed, Skip
<1>11. CASE Skip("a", "p")
  BY <1>2, <1>11 DEF Skip, ReportInv, Unskipped
<1>12. CASE Unnamed("p", "finish")
  BY <1>2, <1>12 DEF Unnamed, EndsWithPromotion, ReportInv, Unskipped, TypeOK
<1>13. CASE PolicyCheck
  BY <1>4, <1>6, <1>13 DEF PolicyCheck, Exit
<1>14. CASE Poll
  <2>1. CASE pc' = "promote" /\ Answered(check) /\ UNCHANGED <<run, check, reported>> /\ pc = "p"
    BY <1>2, <1>3, <2>1 DEF Answered, ReportInv, Unskipped
  <2> QED
    BY <1>4, <1>14, <2>1 DEF Poll, Exit
<1>15. CASE ToProduction
  <2>1. CASE /\ status' = [status EXCEPT ![Promoted] = "production"] /\ pc' = "finish"
             /\ UNCHANGED <<run, check, reported, instr>> /\ pc = "promote"
    <3>1. ~run.kept /\ "a" \in run.cmd => Promoted = run.machine
      BY <2>1 DEF ReportInv, Unskipped, Promoted
    <3>2. ~run.kept /\ "a" \in run.cmd => status'[run.machine] = "production"
      BY <2>1, <3>1 DEF TypeOK
    <3> QED
      BY <1>2, <1>3, <2>1, <3>2 DEF ReportInv, Unskipped
  <2> QED
    BY <1>4, <1>15, <2>1 DEF ToProduction, NotMined, Exit
<1>16. CASE Finish
  <2>1. pc = "finish" /\ pc' = "idle" /\ UNCHANGED status
    BY <1>16 DEF Finish, world
  <2>2. reported' \subseteq reported \cup {m \in {run.machine} : ~run.kept /\ "a" \in run.cmd}
    BY <1>16 DEF Finish, Succeeds
  <2>3. ReportedInProduction'
    BY <2>1, <2>2 DEF ReportInv, Unskipped, ReportedInProduction
  <2> QED
    BY <2>1, <2>3 DEF ReportInv, Unskipped
<1>17. CASE LoadFails \/ LookupFailed \/ Crash
  BY <1>4, <1>17 DEF LoadFails, LookupFailed, Crash, Exit
<1>18. CASE RestartNode \/ Expire \/ LosePolicy \/ CatchUp \/ Answer \/ UNCHANGED vars
  <2>1. UNCHANGED <<pc, run, state, check, reported>>
    BY <1>18 DEF RestartNode, Expire, LosePolicy, CatchUp, Answer, tool, vars
  <2> QED
    BY <1>1, <1>2, <1>3, <2>1 DEF ReportInv, Unskipped, StaysInProduction, TypeOK
<1> QED
  BY <1>5, <1>8, <1>9, <1>10, <1>11, <1>12, <1>13, <1>14, <1>15, <1>16, <1>17, <1>18
  DEF Next, Tool

\* What a run that started fresh and made its own check reports as registered is
\* in production (main.go:72), whatever earlier runs, crashes and new identities
\* left behind and whatever ids other runs were given to promote.
THEOREM ReportsAreTrue == EndsWithPromotion => (Spec => []ReportedInProduction)
<1> SUFFICES ASSUME EndsWithPromotion PROVE Spec => []ReportedInProduction
  OBVIOUS
<1>1. TypeOK /\ ReportInv /\ [Next]_vars => ReportInv'
  BY StepReport
<1>2. ReportInv => ReportedInProduction
  BY DEF ReportInv
<1> QED
  BY <1>1, <1>2, InitReport, TypeInvariant, PTL DEF Spec

=============================================================================
