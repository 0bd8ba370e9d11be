--------------------------- MODULE ControlProofs ----------------------------
(***************************************************************************)
(* Proofs about Control, a part at a time.  The pipeline, for any finite   *)
(* set of events: the counter traces_active is accurate, and drain waits   *)
(* for what it counts.  Type correctness and accuracy are proved together: *)
(* that active stays a natural number when it is counted down rests on     *)
(* accuracy.  The operator and the federated pipelines, for any number of  *)
(* edits, failures and retries: what a status says is true.                *)
(***************************************************************************)
EXTENDS Control, FiniteSetTheorems, Sequences, TLAPS

\* As long as drain holds the write lock nobody else changes the state.
LockHeld == draining => state = "Draining"

PipelineInv == TypeOK /\ ActiveIsAccurate /\ LockHeld

-----------------------------------------------------------------------------
(***************************************************************************)
(* The counted events are finitely many: their number is a natural number, *)
(* and it is zero only if there are none.                                  *)
(***************************************************************************)
LEMMA CountedFinite ==
  /\ IsFiniteSet(Counted)
  /\ Cardinality(Counted) \in Nat
  /\ Cardinality(Counted) = 0 <=> Counted = {}
<1>1. Counted \subseteq Events
  BY DEF Counted
<1>2. IsFiniteSet(Counted)
  BY <1>1, EventsAssumption, FS_Subset
<1> QED
  BY <1>2, FS_CardinalityType, FS_EmptySet

(***************************************************************************)
(* A step of one event that leaves the event counted, or not counted, does *)
(* not change which events are counted.                                    *)
(***************************************************************************)
LEMMA CountedSame ==
  ASSUME phase \in [Events -> Phases], NEW e \in Events, NEW p \in Phases, To(e, p),
         (phase[e] \in {"idle", "checked", "started", "over"}) <=>
         (p \in {"idle", "checked", "started", "over"})
  PROVE  Counted' = Counted
BY DEF To, Counted

\* CountActive adds one event to the counted ones.
LEMMA CountedAdd ==
  ASSUME phase \in [Events -> Phases], NEW e \in Events, phase[e] = "started",
         To(e, "counted")
  PROVE  Cardinality(Counted') = Cardinality(Counted) + 1
<1>1. Counted' = Counted \cup {e} /\ e \notin Counted
  BY DEF To, Counted
<1> QED
  BY <1>1, CountedFinite, FS_AddElement

\* CountOff removes one.
LEMMA CountedRemove ==
  ASSUME phase \in [Events -> Phases], NEW e \in Events,
         phase[e] \in {"completed", "failed"}, To(e, "over")
  PROVE  /\ Cardinality(Counted') = Cardinality(Counted) - 1
         /\ Cardinality(Counted) > 0
<1>1. Counted' = Counted \ {e} /\ e \in Counted
  BY DEF To, Counted
<1>2. Cardinality(Counted') = Cardinality(Counted) - 1
  BY <1>1, CountedFinite, FS_RemoveElement
<1>3. Cardinality(Counted) # 0
  BY <1>1, CountedFinite
<1> QED
  BY <1>2, <1>3, CountedFinite

-----------------------------------------------------------------------------
LEMMA InitInv == Init => PipelineInv
<1> SUFFICES ASSUME Init PROVE PipelineInv
  OBVIOUS
<1>0. draining \in BOOLEAN
  BY Zenon DEF Init
<1>1. TypeOK
  BY <1>0 DEF Init, TypeOK, States, Phases
<1>2. Counted = {}
  BY DEF Init, Counted
<1>3. ActiveIsAccurate
  BY <1>2, CountedFinite DEF Init, ActiveIsAccurate
<1>4. LockHeld
  BY DEF Init, LockHeld
<1> QED
  BY <1>1, <1>3, <1>4 DEF PipelineInv

(***************************************************************************)
(* Every step preserves the invariant.  The life cycle and the resumptions *)
(* touch neither the counter nor the phases; of the steps of an event only *)
(* CountActive and CountOff change who is counted, and they count.         *)
(***************************************************************************)
LEMMA StepInv == PipelineInv /\ [Next]_vars => PipelineInv'
<1> SUFFICES ASSUME PipelineInv, [Next]_vars PROVE PipelineInv'
  OBVIOUS
<1> USE DEF PipelineInv, ActiveIsAccurate, LockHeld
<1>1. ASSUME Start \/ Pause \/ Resume \/ Stop \/ DrainBegin \/ DrainEnd
      PROVE  PipelineInv'
  <2>1. TypeOK'
    BY <1>1 DEF Start, Pause, Resume, Stop, DrainBegin, DrainEnd, Become, TypeOK, States, metrics
  <2>2. Counted' = Counted /\ active' = active
    BY <1>1 DEF Start, Pause, Resume, Stop, DrainBegin, DrainEnd, Become, metrics, Counted
  <2>3. LockHeld'
    BY <1>1 DEF Start, Pause, Resume, Stop, DrainBegin, DrainEnd, Become
  <2> QED
    BY <2>1, <2>2, <2>3
<1>2. ASSUME NEW e \in Events, CountActive(e)
      PROVE  PipelineInv'
  <2>1. Cardinality(Counted') = Cardinality(Counted) + 1
    BY <1>2, CountedAdd DEF CountActive, TypeOK
  <2>2. active' = active + 1 /\ UNCHANGED <<state, draining>>
    BY <1>2 DEF CountActive
  <2>3. TypeOK'
    BY <1>2 DEF CountActive, To, TypeOK, Phases
  <2> QED
    BY <2>1, <2>2, <2>3 DEF TypeOK
<1>3. ASSUME NEW e \in Events, CountOff(e)
      PROVE  PipelineInv'
  <2>1. /\ Cardinality(Counted') = Cardinality(Counted) - 1
        /\ Cardinality(Counted) > 0
    BY <1>3, CountedRemove DEF CountOff, TypeOK
  <2>2. active' = active - 1 /\ UNCHANGED <<state, draining>>
    BY <1>3 DEF CountOff
  <2>3. active' \in Nat
    BY <2>1, <2>2 DEF TypeOK
  <2>4. TypeOK'
    BY <1>3, <2>3 DEF CountOff, To, TypeOK, Phases
  <2> QED
    BY <2>1, <2>2, <2>4
<1>4. ASSUME NEW e \in Events,
             \/ Check(e) \/ CountStarted(e) \/ StartTrace(e) \/ Execute(e)
             \/ CountCompleted(e) \/ CountFailed(e)
      PROVE  PipelineInv'
  <2>1. TypeOK' /\ UNCHANGED <<active, state, draining>>
    BY <1>4 DEF Check, CountStarted, StartTrace, Execute, CountCompleted, CountFailed,
                To, TypeOK, Phases, metrics
  <2>2. PICK p \in Phases : To(e, p) /\
          ((phase[e] \in {"idle", "checked", "started", "over"}) <=>
           (p \in {"idle", "checked", "started", "over"}))
    BY <1>4 DEF Check, CountStarted, StartTrace, Execute, CountCompleted, CountFailed, Phases
  <2>3. Counted' = Counted
    BY <2>2, CountedSame DEF TypeOK
  <2> QED
    BY <2>1, <2>3
<1>5. ASSUME NEW e \in Events, ResumeCheck(e) \/ ResumeTrace(e) \/ ResumeExecute(e)
      PROVE  PipelineInv'
  <2>1. TypeOK'
    BY <1>5 DEF ResumeCheck, ResumeTrace, ResumeExecute, TypeOK, metrics
  <2>2. Counted' = Counted /\ UNCHANGED <<active, state, draining>>
    BY <1>5 DEF ResumeCheck, ResumeTrace, ResumeExecute, metrics, Counted
  <2> QED
    BY <2>1, <2>2
<1>6. CASE UNCHANGED vars
  BY <1>6 DEF vars, metrics, TypeOK, Counted
<1> QED
  BY <1>1, <1>2, <1>3, <1>4, <1>5, <1>6 DEF Next, EventStep

(***************************************************************************)
(* Type correctness.  In particular traces_active, an AtomicU64, is never  *)
(* counted below zero.                                                     *)
(***************************************************************************)
THEOREM PipelineTypes == Spec => []TypeOK
<1>1. PipelineInv => TypeOK
  BY DEF PipelineInv
<1> QED
  BY <1>1, InitInv, StepInv, PTL DEF Spec

(***************************************************************************)
(* traces_active is the number of traces that have been counted and not    *)
(* counted off.                                                            *)
(***************************************************************************)
THEOREM ActiveAccurate == Spec => []ActiveIsAccurate
<1>1. PipelineInv => ActiveIsAccurate
  BY DEF PipelineInv
<1> QED
  BY <1>1, InitInv, StepInv, PTL DEF Spec

(***************************************************************************)
(* drain does not report the pipeline as stopped while a trace that an     *)
(* event started is executing: when its loop reads zero, nobody is         *)
(* counted.                                                                *)
(***************************************************************************)
THEOREM DrainWaiting == Spec => DrainWaits
<1>1. PipelineInv /\ [Next]_vars =>
        [draining /\ state' = "Stopped" =>
           \A e \in Events : phase[e] \notin {"counted", "executing", "refused"}]_vars
  <2> SUFFICES ASSUME PipelineInv, Next, draining, state' = "Stopped"
               PROVE  \A e \in Events : phase[e] \notin {"counted", "executing", "refused"}
    BY DEF vars
  <2>1. state # "Stopped" => DrainEnd
    BY DEF Next, EventStep, Start, Pause, Resume, Stop, DrainBegin, DrainEnd, Become,
           Check, CountStarted, CountActive, StartTrace, Execute, CountCompleted,
           CountFailed, CountOff, ResumeCheck, ResumeTrace, ResumeExecute
  <2>2. CASE DrainEnd
    <3>1. Cardinality(Counted) = 0
      BY <2>2 DEF DrainEnd, PipelineInv, ActiveIsAccurate
    <3>2. Counted = {}
      BY <3>1, CountedFinite
    <3> QED
      BY <3>2 DEF Counted
  <2> QED
    BY <2>1, <2>2 DEF PipelineInv, LockHeld
<1> QED
  BY <1>1, InitInv, StepInv, PTL DEF Spec, DrainWaits

-----------------------------------------------------------------------------
(* The operator's controller of clusters.  As long as no edit or restart    *)
(* came in between, the calls that a reconciliation has still to make say   *)
(* how far the resources of the current generation are applied.             *)

Objects ==
  [gen : Nat, phase : {"Pending", "Initializing", "Running", "Updating", "Degraded", "Failed"},
   observed : Nat, endpoint : BOOLEAN, retry : Nat]

OperatorTypes == cl \in Objects /\ cwork.obj \in Objects /\ cwork = [obj |-> cwork.obj, todo |-> cwork.todo]

Applied == configmap = cl.gen /\ workload = cl.gen
WasApplied == configmap = cl.observed /\ workload = cl.observed
Current == cl.observed = cl.gen

\* Between two reconciliations.
AtRest ==
  \/ cl.phase = "Pending"
  \/ cl.phase \in {"Initializing", "Updating"} /\ Applied
  \/ cl.phase = "Running" /\ WasApplied
  \/ cl.phase \in {"Degraded", "Failed"} /\ Applied /\ Current

\* The first application: initializing, then the three kinds of resources.
Creating ==
  \/ cwork.todo = <<"initializing", "configmap", "services", "workload">> /\ cl.phase = "Pending"
  \/ cwork.todo = <<"configmap", "services", "workload">> /\ cl.phase = "Initializing"
  \/ cwork.todo = <<"services", "workload">> /\ cl.phase = "Initializing" /\ configmap = cl.gen
  \/ cwork.todo = <<"workload">> /\ cl.phase \in {"Initializing", "Updating"} /\ configmap = cl.gen
  \/ cwork.todo = <<"running">> /\ cl.phase \in {"Initializing", "Updating"} /\ Applied

Changing ==
  \/ cwork.todo = <<"updating", "configmap", "workload">> /\ cl.phase = "Running" /\ WasApplied
  \/ cwork.todo = <<"configmap", "workload">> /\ cl.phase = "Updating"
  \/ cwork.todo = <<"same">> /\ cl.phase \in {"Updating", "Degraded", "Failed"} /\ AtRest

Watching ==
  \/ cwork.todo = <<"degraded">> /\ cl.phase = "Running"
  \/ cwork.todo = <<"observed">> /\ cl.phase = "Running"
  \/ cwork.todo = <<"recovered">> /\ cl.phase = "Degraded"
  \/ cwork.todo = <<"failed">> /\ cl.phase = "Degraded"
  \/ cwork.todo = <<"delete_pod", "failed">> /\ cl.phase = "Degraded"
  \/ cwork.todo = <<"delete_pod", "same">> /\ cl.phase = "Degraded"
  \/ cwork.todo = <<"delete_workload", "workload", "retry">> /\ cl.phase = "Failed"

Retrying ==
  \/ cwork.todo = <<"workload", "retry">> /\ cl.phase = "Failed" /\ configmap = cl.gen
  \/ cwork.todo = <<"retry">> /\ cl.phase = "Failed" /\ Applied

Underway ==
  /\ cwork.obj.gen = cl.gen /\ cwork.obj.observed <= cl.gen
  /\ \/ Creating \/ Changing \/ Retrying
     \/ Watching /\ Applied /\ Current /\ cwork.obj.observed = cl.gen

Uninterrupted == cl.observed <= cl.gen /\ IF cwork.todo = <<>> THEN AtRest ELSE Underway

OperatorInv == OperatorTypes /\ (~skipped => Uninterrupted)

\* A behaviour of the operator; the other parts leave its variables alone.
LEMMA OperatorSteps == [ControlNext]_control => O!Next \/ UNCHANGED operator
BY DEF ControlNext, control, operator

LEMMA OperatorStarts == ControlInit => OperatorInv
BY DEF ControlInit, O!Init, O!NoCluster, OperatorInv, OperatorTypes, Objects, Uninterrupted, AtRest

LEMMA ReconcileKeeps ==
  ASSUME OperatorInv, O!ReconcileCluster PROVE OperatorInv'
<1>1. /\ cl' = cl /\ cwork' = [obj |-> cl, todo |-> O!PlanOf(cl)] /\ cwork.todo = <<>>
      /\ UNCHANGED <<configmap, workload, skipped>>
  BY DEF O!ReconcileCluster
<1>2. OperatorTypes'
  BY <1>1 DEF OperatorInv, OperatorTypes
<1>3. ASSUME ~skipped PROVE Uninterrupted'
  <2>1. cl \in Objects /\ cl.observed <= cl.gen /\ AtRest
    BY <1>1, <1>3 DEF OperatorInv, OperatorTypes, Uninterrupted
  <2>2. cwork'.obj = cl /\ cwork'.todo = O!PlanOf(cl)
    BY <1>1
  <2>3. CASE cl.phase = "Pending"
    <3>1. cwork'.todo = <<"initializing", "configmap", "services", "workload">>
      BY <2>2, <2>3 DEF O!PlanOf, O!HandlePending
    <3> QED
      BY <1>1, <2>1, <2>2, <2>3, <3>1 DEF Uninterrupted, Underway, Creating
  <2>4. CASE cl.phase = "Initializing"
    <3>1. cwork'.todo \in {<<"running">>, <<>>}
      BY <2>2, <2>4 DEF O!PlanOf, O!HandleInitializing
    <3> QED
      BY <1>1, <2>1, <2>2, <2>4, <3>1 DEF Uninterrupted, Underway, Creating, AtRest, Applied
  <2>5. CASE cl.phase = "Updating"
    <3>1. cwork'.todo \in {<<"running">>, <<"same">>}
      BY <2>2, <2>5 DEF O!PlanOf, O!HandleUpdating
    <3> QED
      BY <1>1, <2>1, <2>2, <2>5, <3>1 DEF Uninterrupted, Underway, Creating, Changing, AtRest, Applied
  <2>6. CASE cl.phase = "Running"
    <3>1. \/ cwork'.todo = <<"updating", "configmap", "workload">>
          \/ Current /\ cwork'.todo \in {<<"degraded">>, <<"observed">>}
      BY <2>2, <2>6 DEF O!PlanOf, O!HandleRunning, Current
    <3> QED
      BY <1>1, <2>1, <2>2, <2>6, <3>1
      DEF Uninterrupted, Underway, Changing, Watching, AtRest, Applied, WasApplied, Current
  <2>7. CASE cl.phase = "Degraded"
    <3>1. cwork'.todo \in {<<"recovered">>, <<"delete_pod", "failed">>, <<"delete_pod", "same">>}
      BY <2>2, <2>7 DEF O!PlanOf, O!HandleDegraded
    <3> QED
      BY <1>1, <2>1, <2>2, <2>7, <3>1 DEF Uninterrupted, Underway, Watching, AtRest, Applied, Current
  <2>8. CASE cl.phase = "Failed"
    <3>1. cwork'.todo \in {<<"same">>, <<"delete_workload", "workload", "retry">>}
      BY <2>2, <2>8 DEF O!PlanOf, O!HandleFailed
    <3> QED
      BY <1>1, <2>1, <2>2, <2>8, <3>1 DEF Uninterrupted, Underway, Changing, Watching, AtRest, Applied, Current
  <2> QED
    BY <2>1, <2>3, <2>4, <2>5, <2>6, <2>7, <2>8 DEF Objects
<1> QED
  BY <1>1, <1>2, <1>3 DEF OperatorInv

\* Which of the calls of a reconciliation comes first.
LEMMA FirstCalls ==
  /\ Head(<<"configmap", "services", "workload">>) = "configmap"
  /\ Head(<<"services", "workload">>) = "services"
  /\ Head(<<"workload">>) = "workload"
  /\ Head(<<"configmap", "workload">>) = "configmap"
  /\ Head(<<"delete_pod", "failed">>) = "delete_pod"
  /\ Head(<<"delete_pod", "same">>) = "delete_pod"
  /\ Head(<<"delete_workload", "workload", "retry">>) = "delete_workload"
  /\ Head(<<"workload", "retry">>) = "workload"
  /\ Head(<<"initializing", "configmap", "services", "workload">>) = "initializing"
  /\ Head(<<"updating", "configmap", "workload">>) = "updating"
  /\ Head(<<"running">>) = "running" /\ Head(<<"same">>) = "same" /\ Head(<<"retry">>) = "retry"
  /\ Head(<<"degraded">>) = "degraded" /\ Head(<<"observed">>) = "observed"
  /\ Head(<<"recovered">>) = "recovered" /\ Head(<<"failed">>) = "failed"
OBVIOUS

LEMMA StatusKeeps ==
  ASSUME OperatorInv, O!UpdateStatus PROVE OperatorInv'
<1> DEFINE step == Head(cwork.todo)
<1>1. /\ step \in O!StatusSteps /\ cwork.todo # <<>> /\ cl' = O!Patched(step)
      /\ cwork'.obj = cwork.obj /\ cwork'.todo = Tail(cwork.todo)
      /\ UNCHANGED <<configmap, workload, skipped>>
      /\ cwork' = [obj |-> cwork.obj, todo |-> Tail(cwork.todo)]
  BY DEF O!UpdateStatus, OperatorInv, OperatorTypes
<1>2. cl \in Objects /\ cwork.obj \in Objects
  BY DEF OperatorInv, OperatorTypes
<1>3. cl' \in Objects /\ cl'.gen = cl.gen
  <2> HIDE DEF step
  <2>1. CASE step \in {"initializing", "running", "updating"}
    BY <1>1, <1>2, <2>1 DEF O!Patched, Objects
  <2>2. CASE step \in {"degraded", "recovered", "failed"}
    BY <1>1, <1>2, <2>2 DEF O!Patched, Objects
  <2>3. CASE step \in {"observed", "same"}
    BY <1>1, <1>2, <2>3 DEF O!Patched, Objects
  <2>4. CASE step = "retry"
    <3>1. cl' = [cl EXCEPT !.phase = "Initializing", !.retry = cwork.obj.retry + 1]
      BY <1>1, <2>4 DEF O!Patched
    <3>2. cwork.obj.retry + 1 \in Nat
      BY <1>2 DEF Objects
    <3>3. PICK n \in Nat : cl' = [cl EXCEPT !.phase = "Initializing", !.retry = n]
      BY <3>1, <3>2
    <3> QED
      BY <1>2, <3>3 DEF Objects
  <2> QED
    BY <1>1, <2>1, <2>2, <2>3, <2>4 DEF O!StatusSteps
<1>4. OperatorTypes'
  BY <1>1, <1>2, <1>3 DEF OperatorTypes
<1>5. ASSUME ~skipped PROVE Uninterrupted'
  <2>1. Underway /\ cl.observed <= cl.gen
    BY <1>1, <1>5 DEF OperatorInv, Uninterrupted
  <2>2. CASE cwork.todo = <<"initializing", "configmap", "services", "workload">>
    <3>1. step = "initializing" /\ cwork'.todo = <<"configmap", "services", "workload">>
      BY <1>1, <2>2
    <3>2. cl'.phase = "Initializing" /\ cl'.observed = cwork.obj.gen
      BY <1>1, <1>2, <3>1 DEF O!Patched, Objects
    <3> QED
      BY <1>1, <1>2, <1>3, <2>1, <3>1, <3>2 DEF Uninterrupted, Underway, Creating, Objects
  <2>3. CASE cwork.todo = <<"running">>
    <3>1. step = "running" /\ cwork'.todo = <<>>
      BY <1>1, <2>3
    <3>2. cl'.phase = "Running" /\ cl'.observed = cwork.obj.gen
      BY <1>1, <1>2, <3>1 DEF O!Patched, Objects
    <3>3. Applied
      BY <2>1, <2>3 DEF Underway, Creating, Changing, Watching, Retrying
    <3> QED
      BY <1>1, <1>2, <1>3, <2>1, <3>1, <3>2, <3>3
      DEF Uninterrupted, Underway, AtRest, Applied, WasApplied, Objects
  <2>4. CASE cwork.todo = <<"updating", "configmap", "workload">>
    <3>1. step = "updating" /\ cwork'.todo = <<"configmap", "workload">>
      BY <1>1, <2>4
    <3>2. cl'.phase = "Updating" /\ cl'.observed = cwork.obj.observed
      BY <1>1, <1>2, <3>1 DEF O!Patched, Objects
    <3> QED
      BY <1>1, <1>2, <1>3, <2>1, <3>1, <3>2 DEF Uninterrupted, Underway, Changing, Objects
  <2>5. CASE cwork.todo = <<"same">>
    <3>1. step = "same" /\ cwork'.todo = <<>>
      BY <1>1, <2>5
    <3>2. cl' = cl
      BY <1>1, <3>1 DEF O!Patched
    <3>3. AtRest
      BY <2>1, <2>5 DEF Underway, Creating, Changing, Watching, Retrying
    <3> QED
      BY <1>1, <2>1, <3>1, <3>2, <3>3 DEF Uninterrupted, AtRest, Applied, WasApplied, Current
  <2>6. CASE cwork.todo = <<"retry">>
    <3>1. step = "retry" /\ cwork'.todo = <<>>
      BY <1>1, <2>6
    <3>2. cl'.phase = "Initializing" /\ cl'.observed = cl.observed
      BY <1>1, <1>2, <3>1 DEF O!Patched, Objects
    <3>3. Applied
      BY <2>1, <2>6 DEF Underway, Creating, Changing, Watching, Retrying
    <3> QED
      BY <1>1, <1>2, <1>3, <2>1, <3>1, <3>2, <3>3 DEF Uninterrupted, AtRest, Applied, Objects
  <2>7. ASSUME cwork.todo = <<"degraded">> \/ cwork.todo = <<"observed">>
               \/ cwork.todo = <<"recovered">> \/ cwork.todo = <<"failed">>
        PROVE  Uninterrupted'
    <3>1. Applied /\ Current /\ cwork.obj.observed = cl.gen /\ cwork.obj.gen = cl.gen /\ cl.phase \in {"Running", "Degraded"}
      <4>1. ~Creating /\ ~Changing /\ ~Retrying
        BY <2>7 DEF Creating, Changing, Retrying
      <4>2. Watching => cl.phase \in {"Running", "Degraded"}
        BY <2>7 DEF Watching
      <4> QED
        BY <2>1, <4>1, <4>2 DEF Underway
    <3>2. step \in {"degraded", "observed", "recovered", "failed"} /\ cwork'.todo = <<>>
      <4>1. /\ Tail(<<"degraded">>) = <<>> /\ Tail(<<"observed">>) = <<>>
            /\ Tail(<<"recovered">>) = <<>> /\ Tail(<<"failed">>) = <<>>
        OBVIOUS
      <4> QED
        BY <1>1, <2>7, <4>1, FirstCalls
    <3>3. cl'.observed = cl.gen /\ cl'.phase \in {"Running", "Degraded", "Failed"}
      BY <1>1, <1>2, <3>1, <3>2 DEF O!Patched, Objects
    <3> QED
      BY <1>1, <1>2, <1>3, <3>1, <3>2, <3>3 DEF Uninterrupted, AtRest, Applied, WasApplied, Current, Objects
  <2>8. step \notin {"configmap", "services", "workload", "delete_workload", "delete_pod"}
    BY <1>1 DEF O!StatusSteps
  <2> QED
    BY <2>1, <2>2, <2>3, <2>4, <2>5, <2>6, <2>7, <2>8, FirstCalls, Zenon
    DEF Underway, Creating, Changing, Watching, Retrying
<1> QED
  BY <1>1, <1>4, <1>5 DEF OperatorInv

LEMMA EnsureKeeps ==
  ASSUME OperatorInv,
         O!EnsureConfigmap \/ O!EnsureServices \/ O!EnsureWorkload \/ O!DeleteWorkload \/ O!DeletePod
  PROVE  OperatorInv'
<1>1. /\ cwork.todo # <<>> /\ cl' = cl /\ skipped' = skipped
      /\ cwork'.obj = cwork.obj /\ cwork'.todo = Tail(cwork.todo)
      /\ cwork' = [obj |-> cwork.obj, todo |-> Tail(cwork.todo)]
      /\ Head(cwork.todo) \in {"configmap", "services", "workload", "delete_workload", "delete_pod"}
      /\ configmap' = IF Head(cwork.todo) = "configmap" THEN cwork.obj.gen ELSE configmap
      /\ Head(cwork.todo) = "workload" => workload' = cwork.obj.gen
      /\ Head(cwork.todo) \in {"configmap", "services", "delete_pod"} => workload' = workload
  BY DEF O!EnsureConfigmap, O!EnsureServices, O!EnsureWorkload, O!DeleteWorkload, O!DeletePod, O!Ensure,
         OperatorInv, OperatorTypes
<1>2. OperatorTypes'
  BY <1>1 DEF OperatorInv, OperatorTypes
<1>3. ASSUME ~skipped PROVE Uninterrupted'
  <2>1. Underway /\ cl.observed <= cl.gen /\ cwork.obj.gen = cl.gen /\ cwork.obj.observed <= cl.gen
    BY <1>1, <1>3 DEF OperatorInv, Uninterrupted, Underway
  <2>2. CASE cwork.todo = <<"configmap", "services", "workload">>
    <3>1. cwork'.todo = <<"services", "workload">> /\ configmap' = cl.gen /\ cl.phase = "Initializing"
      BY <1>1, <2>1, <2>2 DEF Underway, Creating, Changing, Watching, Retrying
    <3>2. Creating' /\ cwork'.todo # <<>>
      BY <1>1, <3>1 DEF Creating
    <3> QED
      BY <1>1, <2>1, <3>2, Zenon DEF Uninterrupted, Underway
  <2>3. CASE cwork.todo = <<"services", "workload">>
    <3>1. cwork'.todo = <<"workload">> /\ configmap' = cl.gen /\ cl.phase = "Initializing"
      BY <1>1, <2>1, <2>3 DEF Underway, Creating, Changing, Watching, Retrying
    <3>2. Creating' /\ cwork'.todo # <<>>
      BY <1>1, <3>1 DEF Creating
    <3> QED
      BY <1>1, <2>1, <3>2, Zenon DEF Uninterrupted, Underway
  <2>4. CASE cwork.todo = <<"configmap", "workload">>
    <3>1. cwork'.todo = <<"workload">> /\ configmap' = cl.gen /\ cl.phase = "Updating"
      BY <1>1, <2>1, <2>4 DEF Underway, Creating, Changing, Watching, Retrying
    <3>2. Creating' /\ cwork'.todo # <<>>
      BY <1>1, <3>1 DEF Creating
    <3> QED
      BY <1>1, <2>1, <3>2, Zenon DEF Uninterrupted, Underway
  <2>5. CASE cwork.todo = <<"workload">>
    <3>1. /\ cwork'.todo = <<>> /\ configmap' = cl.gen /\ workload' = cl.gen
          /\ cl.phase \in {"Initializing", "Updating"}
      BY <1>1, <2>1, <2>5 DEF Underway, Creating, Changing, Watching, Retrying
    <3> QED
      BY <1>1, <2>1, <3>1 DEF Uninterrupted, AtRest, Applied
  <2>6. ASSUME cwork.todo = <<"delete_pod", "failed">> \/ cwork.todo = <<"delete_pod", "same">>
        PROVE  Uninterrupted'
    <3>1. Applied /\ Current /\ cwork.obj.observed = cl.gen /\ cl.phase = "Degraded"
      <4>1. ~Creating /\ ~Changing /\ ~Retrying
        BY <2>6 DEF Creating, Changing, Retrying
      <4>2. Watching => cl.phase = "Degraded"
        BY <2>6 DEF Watching
      <4> QED
        BY <2>1, <4>1, <4>2 DEF Underway
    <3>2. (cwork'.todo = <<"failed">> \/ cwork'.todo = <<"same">>) /\ cwork'.todo # <<>>
      <4>1. /\ Tail(<<"delete_pod", "failed">>) = <<"failed">> /\ Tail(<<"delete_pod", "same">>) = <<"same">>
            /\ <<"failed">> # <<>> /\ <<"same">> # <<>>
        OBVIOUS
      <4> QED
        BY <1>1, <2>6, <4>1
    <3>3. configmap' = configmap /\ workload' = workload
      BY <1>1, <2>6, FirstCalls
    <3>4. Applied' /\ Current' /\ AtRest' /\ cwork'.obj.observed = cl'.gen
      BY <1>1, <3>1, <3>3 DEF Applied, Current, AtRest
    <3>5. Watching' \/ Changing'
      BY <1>1, <3>1, <3>2, <3>4 DEF Watching, Changing
    <3> QED
      BY <1>1, <2>1, <3>2, <3>4, <3>5, Zenon DEF Uninterrupted, Underway
  <2>7. CASE cwork.todo = <<"delete_workload", "workload", "retry">>
    <3>1. Applied /\ cl.phase = "Failed"
      BY <2>1, <2>7 DEF Underway, Creating, Changing, Watching, Retrying
    <3>2. cwork'.todo = <<"workload", "retry">> /\ configmap' = configmap
      BY <1>1, <2>7
    <3>3. Retrying' /\ cwork'.todo # <<>>
      BY <1>1, <3>1, <3>2 DEF Retrying, Applied
    <3> QED
      BY <1>1, <2>1, <3>3, Zenon DEF Uninterrupted, Underway
  <2>8. CASE cwork.todo = <<"workload", "retry">>
    <3>1. cwork'.todo = <<"retry">> /\ configmap' = cl.gen /\ workload' = cl.gen /\ cl.phase = "Failed"
      BY <1>1, <2>1, <2>8 DEF Underway, Creating, Changing, Watching, Retrying
    <3>2. Retrying' /\ cwork'.todo # <<>>
      BY <1>1, <3>1 DEF Retrying, Applied
    <3> QED
      BY <1>1, <2>1, <3>2, Zenon DEF Uninterrupted, Underway
  <2>9. Head(cwork.todo) \notin O!StatusSteps
    BY <1>1 DEF O!StatusSteps
  <2> QED
    BY <2>1, <2>2, <2>3, <2>4, <2>5, <2>6, <2>7, <2>8, <2>9, FirstCalls, Zenon
    DEF Underway, Creating, Changing, Watching, Retrying, O!StatusSteps
<1> QED
  BY <1>1, <1>2, <1>3 DEF OperatorInv

\* The surroundings: an edit or a restart in the middle is noted.
LEMMA SurroundingsKeep ==
  ASSUME OperatorInv, O!EditCluster \/ O!Interrupt PROVE OperatorInv'
<1>1. CASE O!EditCluster
  <2>1. /\ cl' \in Objects /\ cl'.gen = cl.gen + 1 /\ cl'.phase = cl.phase /\ cl'.observed = cl.observed
        /\ UNCHANGED <<cwork, configmap, workload>>
    BY <1>1 DEF O!EditCluster, OperatorInv, OperatorTypes, Objects
  <2>2. ~skipped' => ~skipped /\ cl.phase \in {"Pending", "Running"} /\ cwork.todo = <<>>
    BY <1>1, Zenon DEF O!EditCluster
  <2> QED
    BY <2>1, <2>2 DEF OperatorInv, OperatorTypes, Uninterrupted, AtRest, WasApplied, Objects
<1>2. CASE O!Interrupt
  <2>1. /\ UNCHANGED <<cl, configmap, workload>> /\ cwork'.obj = cwork.obj /\ cwork'.todo = <<>>
        /\ cwork' = [obj |-> cwork.obj, todo |-> <<>>]
        /\ ~skipped' => ~skipped /\ cwork.todo = <<>>
    BY <1>2 DEF O!Interrupt, OperatorInv, OperatorTypes
  <2> QED
    BY <2>1 DEF OperatorInv, OperatorTypes, Uninterrupted, AtRest, Applied, WasApplied, Current
<1> QED
  BY <1>1, <1>2

LEMMA OperatorKept == OperatorInv /\ [ControlNext]_control => OperatorInv'
<1> SUFFICES ASSUME OperatorInv, [ControlNext]_control PROVE OperatorInv'
  OBVIOUS
<1>1. CASE UNCHANGED <<cl, cwork, configmap, workload, skipped>>
  BY <1>1 DEF OperatorInv, OperatorTypes, Uninterrupted, Underway, Creating, Changing, Watching, Retrying,
              AtRest, Applied, WasApplied, Current
<1>2. CASE O!Next
  <2>1. CASE O!ClusterController
    BY <2>1, ReconcileKeeps, StatusKeeps, EnsureKeeps DEF O!ClusterController
  <2>2. CASE O!PipelineController \/ O!EditPipeline \/ O!PodReady \/ O!PodFails
    <3>1. UNCHANGED <<cl, cwork, configmap, workload, skipped>>
      BY <2>2 DEF O!PipelineController, O!ReconcilePipeline, O!UpdatePipelineStatus, O!FetchMetrics, O!Load,
                  O!ConfigureTriggers, O!Deploy, O!PauseInCluster, O!ResumeInCluster, O!Tell, O!CallFails,
                  O!EditPipeline, O!PodReady, O!PodFails, O!cluster
    <3> QED
      BY <1>1, <3>1
  <2> QED
    BY <1>2, <2>1, <2>2, SurroundingsKeep DEF O!Next
<1> QED
  BY <1>1, <1>2, OperatorSteps DEF operator

LEMMA OperatorTells == OperatorInv => O!RunningIsApplied
<1> SUFFICES ASSUME OperatorInv, cl.phase = "Running", cl.observed = cl.gen, ~skipped
             PROVE  workload = cl.gen /\ configmap = cl.gen
  BY DEF O!RunningIsApplied
<1>1. Uninterrupted
  BY DEF OperatorInv
<1>2. CASE cwork.todo = <<>>
  BY <1>1, <1>2 DEF Uninterrupted, AtRest, WasApplied
<1>3. CASE cwork.todo # <<>>
  BY <1>1, <1>3 DEF Uninterrupted, Underway, Creating, Changing, Watching, Retrying, Applied, WasApplied
<1> QED
  BY <1>2, <1>3

-----------------------------------------------------------------------------
(* The controller of federated pipelines.  Gens only grow: what is in the   *)
(* watch's copy is no newer than the object, and what was deployed or       *)
(* observed is no newer than the copy that the controller works on, so that *)
(* a deployment never takes a cluster back behind a reported one.           *)

FedObject(o) ==
  /\ o = [gen |-> o.gen, spec |-> o.spec, sync |-> o.sync, observed |-> o.observed, rolled |-> o.rolled]
  /\ o.gen \in Nat /\ o.observed \in Nat
  /\ o.sync \in {"Pending", "Syncing", "Synced", "OutOfSync", "Failed"}

RolloutTypes ==
  /\ FedObject(obj) /\ FedObject(cached) /\ FedObject(work.obj)
  /\ work = [at |-> work.at, obj |-> work.obj, fed |-> work.fed, todo |-> work.todo, done |-> work.done]
  /\ work.at = "idle" <=> work = P!Idle
  /\ \E S : work.done \in Seq(S)
  /\ remote \in [P!Clusters -> Nat] /\ up \subseteq P!Clusters

\* The newest generation that the controller has had.
Newest == IF work.at = "idle" THEN cached.gen ELSE work.obj.gen

GensGrow ==
  /\ Newest <= cached.gen /\ cached.gen <= obj.gen
  /\ obj.observed <= Newest /\ cached.observed <= Newest /\ work.obj.observed <= Newest
  /\ \A c \in P!Clusters : remote[c] <= Newest

\* What a status says that was read or written.
TrueOf(o) ==
  o.sync = "Synced" => \A c \in o.rolled \ wiped : c \in P!Clusters /\ remote[c] >= o.observed

\* What the reports of a rollout say.
ReportsTrue ==
  work.at \notin {"verify", "verified"} =>
    \A i \in DOMAIN work.done : work.done[i].synced =>
      \/ work.done[i].cluster \in wiped
      \/ work.done[i].cluster \in P!Clusters /\ remote[work.done[i].cluster] >= work.obj.gen

VerifiesSynced == work.at \in {"Synced", "verify", "verified"} => work.obj.sync = "Synced"

RolloutInv ==
  RolloutTypes /\ GensGrow /\ TrueOf(obj) /\ TrueOf(cached) /\ TrueOf(work.obj) /\ ReportsTrue /\ VerifiesSynced

LEMMA RolloutSteps == [ControlNext]_control => P!Next \/ UNCHANGED rollout
BY DEF ControlNext, control, rollout

LEMMA IdleWork ==
  /\ P!Idle.at = "idle" /\ P!Idle.done = <<>> /\ FedObject(P!Idle.obj)
  /\ P!Idle.obj.sync = "Pending" /\ P!Idle.obj.observed = 0
  /\ P!Idle = [at |-> P!Idle.at, obj |-> P!Idle.obj, fed |-> P!Idle.fed, todo |-> P!Idle.todo, done |-> P!Idle.done]
BY DEF P!Idle, P!NewObject, FedObject

LEMMA RolloutStarts == ControlInit => RolloutInv
<1> SUFFICES ASSUME P!Init PROVE RolloutInv
  BY DEF ControlInit
<1>1. PICK s \in Specs : obj = P!NewObject(1, s)
  BY DEF P!Init
<1>2. FedObject(obj) /\ obj.gen = 1 /\ obj.observed = 0 /\ obj.sync = "Pending" /\ cached = obj
  BY <1>1 DEF P!NewObject, FedObject, P!Init
<1>3. work = P!Idle /\ work.done \in Seq({}) /\ up \subseteq P!Clusters /\ remote = [c \in P!Clusters |-> 0]
  BY IdleWork DEF P!Init
<1>4. RolloutTypes
  BY <1>2, <1>3, IdleWork DEF RolloutTypes
<1> QED
  BY <1>2, <1>3, <1>4, IdleWork DEF RolloutInv, GensGrow, Newest, TrueOf, ReportsTrue, VerifiesSynced

\* update_status leaves the spec and its generation.
Written(v, n, R) ==
  obj' = [gen |-> obj.gen, spec |-> obj.spec, sync |-> v, observed |-> n, rolled |-> R]

LEMMA WrittenFacts ==
  ASSUME FedObject(obj), NEW v \in {"Pending", "Syncing", "Synced", "OutOfSync", "Failed"}, NEW n \in Nat, NEW R,
         Written(v, n, R)
  PROVE  /\ FedObject(obj') /\ obj'.gen = obj.gen
         /\ obj'.sync = v /\ obj'.observed = n /\ obj'.rolled = R
BY DEF Written, FedObject

LEMMA PatchWrites ==
  ASSUME NEW o, FedObject(o), NEW v, NEW n, NEW R
  PROVE  /\ P!Patch([o EXCEPT !.sync = v]) => Written(v, o.observed, o.rolled)
         /\ P!Patch([o EXCEPT !.sync = v, !.observed = n]) => Written(v, n, o.rolled)
         /\ P!Patch([o EXCEPT !.sync = v, !.observed = n, !.rolled = R]) => Written(v, n, R)
<1>1. o = [gen |-> o.gen, spec |-> o.spec, sync |-> o.sync, observed |-> o.observed, rolled |-> o.rolled]
  BY DEF FedObject
<1>2. ASSUME P!Patch([o EXCEPT !.sync = v]) PROVE Written(v, o.observed, o.rolled)
  BY <1>1, <1>2 DEF P!Patch, Written
<1>3. ASSUME P!Patch([o EXCEPT !.sync = v, !.observed = n]) PROVE Written(v, n, o.rolled)
  BY <1>1, <1>3 DEF P!Patch, Written
<1>4. ASSUME P!Patch([o EXCEPT !.sync = v, !.observed = n, !.rolled = R]) PROVE Written(v, n, R)
  BY <1>1, <1>4 DEF P!Patch, Written
<1> QED
  BY <1>2, <1>3, <1>4

\* A reconciliation ends with a status that is true.
LEMMA EndsKeep ==
  ASSUME RolloutInv, work' = P!Idle, UNCHANGED <<cached, remote, wiped, up>>,
         FedObject(obj'), obj'.gen = obj.gen, obj'.observed <= cached.gen, TrueOf(obj)'
  PROVE  RolloutInv'
<1>1. RolloutTypes'
  <2>1. work'.done \in Seq({})
    BY IdleWork
  <2> QED
    BY <2>1, IdleWork DEF RolloutInv, RolloutTypes
<1>2. cached.gen \in Nat /\ obj.gen \in Nat /\ Newest \in Nat /\ Newest' = cached.gen
  BY IdleWork DEF RolloutInv, RolloutTypes, FedObject, Newest
<1>3. GensGrow'
  BY <1>2, IdleWork DEF RolloutInv, RolloutTypes, FedObject, GensGrow
<1>4. TrueOf(cached)' /\ TrueOf(work.obj)'
  BY IdleWork DEF RolloutInv, TrueOf
<1>5. ReportsTrue' /\ VerifiesSynced'
  BY IdleWork DEF ReportsTrue, VerifiesSynced
<1> QED
  BY <1>1, <1>3, <1>4, <1>5 DEF RolloutInv

\* A reconciliation goes on, with what it has read and reported so far.
LEMMA GoesOn ==
  ASSUME RolloutInv, UNCHANGED <<cached, remote, wiped, up>>, work.at # "idle",
         NEW a, NEW q, work' = [work EXCEPT !.at = a, !.todo = q],
         a \in {"secrets", "post", "synced", "verify", "verified"},
         IF a \in {"verify", "verified"} THEN work.obj.sync = "Synced" ELSE work.at \notin {"verify", "verified"},
         FedObject(obj'), obj'.gen = obj.gen, obj'.observed <= work.obj.gen, TrueOf(obj)'
  PROVE  RolloutInv'
<1>1. work'.obj = work.obj /\ work'.done = work.done /\ work'.at = a /\ a # "idle"
  BY DEF RolloutInv, RolloutTypes
<1>2. work' = [at |-> work'.at, obj |-> work'.obj, fed |-> work'.fed, todo |-> work'.todo, done |-> work'.done]
  BY DEF RolloutInv, RolloutTypes
<1>3. RolloutTypes'
  BY <1>1, <1>2, IdleWork DEF RolloutInv, RolloutTypes
<1>4. GensGrow'
  BY <1>1 DEF RolloutInv, RolloutTypes, FedObject, GensGrow, Newest
<1>5. TrueOf(cached)' /\ TrueOf(work.obj)'
  BY <1>1 DEF RolloutInv, TrueOf
<1>6. ReportsTrue' /\ VerifiesSynced'
  BY <1>1 DEF RolloutInv, ReportsTrue, VerifiesSynced
<1> QED
  BY <1>3, <1>4, <1>5, <1>6 DEF RolloutInv

\* The numbers of the invariant are natural numbers.
LEMMA RolloutNumbers ==
  ASSUME RolloutInv
  PROVE  /\ obj.gen \in Nat /\ cached.gen \in Nat /\ work.obj.gen \in Nat /\ Newest \in Nat
         /\ obj.observed \in Nat /\ cached.observed \in Nat /\ work.obj.observed \in Nat
         /\ obj.observed <= cached.gen /\ cached.observed <= cached.gen /\ work.obj.observed <= cached.gen
         /\ FedObject(obj) /\ FedObject(cached) /\ FedObject(work.obj)
         /\ work.at # "idle" => work.obj.gen <= cached.gen /\ obj.observed <= work.obj.gen /\ work.obj.observed <= work.obj.gen
         /\ work.at = "idle" <=> work = P!Idle
BY DEF RolloutInv, RolloutTypes, FedObject, GensGrow, Newest

\* A status other than Synced claims nothing.
LEMMA OtherStatus == ASSUME obj'.sync # "Synced" PROVE TrueOf(obj)'
BY DEF TrueOf

LEMMA BeginsKeep ==
  ASSUME RolloutInv, P!Reconcile \/ P!NoFederation PROVE RolloutInv'
<1>1. CASE P!Reconcile
  <2>1. /\ UNCHANGED <<obj, cached, remote, wiped, up>> /\ work = P!Idle
        /\ work' = [P!Idle EXCEPT !.at = cached.sync, !.obj = cached, !.fed = enabled]
    BY <1>1 DEF P!Reconcile, P!object, P!cluster, P!world
  <2>2. /\ work'.at = cached.sync /\ work'.obj = cached /\ work'.done = <<>> /\ work.at = "idle"
        /\ work' = [at |-> work'.at, obj |-> work'.obj, fed |-> work'.fed, todo |-> work'.todo, done |-> work'.done]
    BY <2>1, IdleWork
  <2>3. work'.done \in Seq({}) /\ work'.at # "idle" /\ work' # P!Idle
    BY <2>2, IdleWork DEF RolloutInv, RolloutTypes, FedObject
  <2>4. RolloutTypes'
    BY <2>1, <2>2, <2>3 DEF RolloutInv, RolloutTypes
  <2>5. Newest = cached.gen /\ Newest' = cached.gen
    BY <2>1, <2>2, <2>3 DEF Newest
  <2>6. GensGrow'
    BY <2>1, <2>2, <2>5 DEF RolloutInv, GensGrow
  <2>7. TrueOf(obj)' /\ TrueOf(cached)' /\ TrueOf(work.obj)'
    BY <2>1, <2>2 DEF RolloutInv, TrueOf
  <2>8. ReportsTrue' /\ VerifiesSynced'
    BY <2>2 DEF ReportsTrue, VerifiesSynced, RolloutInv, RolloutTypes, FedObject
  <2> QED
    BY <2>4, <2>6, <2>7, <2>8 DEF RolloutInv
<1>2. CASE P!NoFederation
  <2>1. UNCHANGED <<cached, remote, wiped, up>> /\ work' = P!Idle /\ Written("Failed", 0, cached.rolled)
    BY <1>2, RolloutNumbers, PatchWrites DEF P!NoFederation, P!cluster, P!world
  <2>2. FedObject(obj') /\ obj'.gen = obj.gen /\ obj'.sync = "Failed" /\ obj'.observed = 0
    BY <2>1, RolloutNumbers, WrittenFacts
  <2> QED
    BY <2>1, <2>2, RolloutNumbers, OtherStatus, EndsKeep
<1> QED
  BY <1>1, <1>2

LEMMA PendingKeeps ==
  ASSUME RolloutInv, P!HandlePending PROVE RolloutInv'
<1> DEFINE o == work.obj
<1>1. UNCHANGED <<cached, remote, wiped, up>> /\ work' = P!Idle
  BY DEF P!HandlePending, P!cluster, P!world
<1>2. FedObject(o) /\ o.gen \in Nat /\ o.gen <= cached.gen
  BY RolloutNumbers DEF P!HandlePending
<1>3. \/ obj' = obj
      \/ Written("Failed", 0, o.rolled)
      \/ Written("Syncing", o.gen, o.rolled)
  BY <1>2, PatchWrites DEF P!HandlePending
<1>4. CASE obj' = obj
  BY <1>1, <1>4, RolloutNumbers, EndsKeep DEF RolloutInv, TrueOf
<1>5. ASSUME NEW v \in {"Failed", "Syncing"}, NEW n \in Nat, n <= cached.gen, Written(v, n, o.rolled)
      PROVE  RolloutInv'
  <2>1. FedObject(obj') /\ obj'.gen = obj.gen /\ obj'.sync = v /\ obj'.observed = n
    BY <1>5, RolloutNumbers, WrittenFacts
  <2> QED
    BY <1>1, <1>5, <2>1, OtherStatus, EndsKeep
<1> QED
  BY <1>2, <1>3, <1>4, <1>5, RolloutNumbers

\* The handlers that start a rollout.
LEMMA RolloutBegins ==
  ASSUME RolloutInv, P!HandleSyncing \/ P!HandleOutOfSync \/ P!HandleFailed PROVE RolloutInv'
<1> DEFINE q == P!Targets(work.obj.spec)
           a == IF q = <<>> THEN "synced" ELSE "secrets"
<1> HIDE DEF q
<1>1. /\ UNCHANGED <<cached, remote, wiped, up>> /\ work.at \in {"Syncing", "OutOfSync", "Failed"}
      /\ work' = [work EXCEPT !.at = a, !.todo = q]
      /\ a \in {"secrets", "post", "synced", "verify", "verified"} /\ a \notin {"verify", "verified"}
  BY DEF P!HandleSyncing, P!HandleOutOfSync, P!HandleFailed, P!StartSync, P!object, P!cluster, P!world, q
<1>2. obj' = obj \/ Written("Syncing", work.obj.observed, work.obj.rolled)
  BY RolloutNumbers, PatchWrites DEF P!HandleSyncing, P!HandleOutOfSync, P!HandleFailed, P!object
<1> HIDE DEF a
<1>3. CASE obj' = obj
  <2>1. FedObject(obj') /\ obj'.gen = obj.gen /\ obj'.observed <= work.obj.gen /\ TrueOf(obj)'
    BY <1>1, <1>3, RolloutNumbers DEF RolloutInv, TrueOf
  <2> QED
    BY <1>1, <2>1, GoesOn
<1>4. CASE Written("Syncing", work.obj.observed, work.obj.rolled)
  <2>1. FedObject(obj') /\ obj'.gen = obj.gen /\ obj'.sync = "Syncing" /\ obj'.observed = work.obj.observed
    BY <1>4, RolloutNumbers, WrittenFacts
  <2>2. obj'.observed <= work.obj.gen /\ TrueOf(obj)'
    BY <1>1, <2>1, RolloutNumbers, OtherStatus
  <2> QED
    BY <1>1, <2>1, <2>2, GoesOn
<1> QED
  BY <1>2, <1>3, <1>4

LEMMA SecretKeeps ==
  ASSUME RolloutInv, P!DistributeSecret PROVE RolloutInv'
<1>1. /\ UNCHANGED <<obj, cached, remote, wiped, up>> /\ work.at = "secrets"
      /\ work' = [work EXCEPT !.at = "post"]
  BY DEF P!DistributeSecret, P!object, P!world
<1>2. work' = [work EXCEPT !.at = "post", !.todo = work.todo]
  BY <1>1 DEF RolloutInv, RolloutTypes
<1>3. FedObject(obj') /\ obj'.gen = obj.gen /\ obj'.observed <= work.obj.gen /\ TrueOf(obj)'
  BY <1>1, RolloutNumbers DEF RolloutInv, TrueOf
<1> QED
  BY <1>1, <1>2, <1>3, GoesOn

\* One report more.
LEMMA Reported ==
  ASSUME NEW done, NEW S, done \in Seq(S), NEW x
  PROVE  /\ Append(done, x) \in Seq(S \cup {x})
         /\ \A i \in DOMAIN Append(done, x) : Append(done, x)[i] = x \/ (i \in DOMAIN done /\ Append(done, x)[i] = done[i])
<1>1. done \in Seq(S \cup {x})
  OBVIOUS
<1> QED
  BY <1>1

LEMMA DeployKeeps ==
  ASSUME RolloutInv, P!DeployToCluster PROVE RolloutInv'
<1> DEFINE c == Head(work.todo)
           g == work.obj.gen
<1>1. PICK reached, answered \in BOOLEAN :
        /\ P!HttpDeploy(c, reached, answered)
        /\ remote' = IF reached THEN [remote EXCEPT ![c] = g] ELSE remote
        /\ wiped' = IF reached THEN wiped \ {c} ELSE wiped
        /\ work' = [work EXCEPT !.at = IF P!Rest(answered) = <<>> THEN "synced" ELSE "secrets",
                                !.todo = P!Rest(answered), !.done = Append(@, P!Status(c, answered))]
  BY DEF P!DeployToCluster
<1>2. UNCHANGED <<obj, cached, up>> /\ work.at = "post"
  BY DEF P!DeployToCluster, P!object
<1> DEFINE x == P!Status(c, answered)
<1>3. x.cluster = c /\ x.synced = answered
  BY DEF P!Status
<1>4. /\ work'.at \in {"synced", "secrets"} /\ work'.obj = work.obj /\ work'.done = Append(work.done, x)
      /\ work' = [at |-> work'.at, obj |-> work'.obj, fed |-> work'.fed, todo |-> work'.todo, done |-> work'.done]
  BY <1>1 DEF RolloutInv, RolloutTypes
<1>5. /\ reached => c \in P!Clusters
      /\ answered => reached
  BY <1>1 DEF P!HttpDeploy, RolloutInv, RolloutTypes
<1> HIDE DEF c, x
<1>6. /\ g \in Nat /\ Newest = g /\ Newest' = g
      /\ remote \in [P!Clusters -> Nat] /\ \A d \in P!Clusters : remote[d] <= g
  BY <1>2, <1>4, RolloutNumbers DEF RolloutInv, RolloutTypes, GensGrow, Newest
<1>7. /\ remote' \in [P!Clusters -> Nat]
      /\ \A d \in P!Clusters : remote[d] <= remote'[d] /\ remote'[d] <= g
      /\ reached => remote'[c] = g
  BY <1>1, <1>5, <1>6
<1>8. \A d : d \notin wiped' => d \notin wiped \/ (reached /\ d = c)
  BY <1>1
<1>9. ASSUME NEW o, o.observed \in Nat, o.observed <= g, TrueOf(o) 
      PROVE  o.sync = "Synced" => \A d \in o.rolled \ wiped' : d \in P!Clusters /\ remote'[d] >= o.observed
  <2> SUFFICES ASSUME o.sync = "Synced", NEW d \in o.rolled \ wiped' PROVE d \in P!Clusters /\ remote'[d] >= o.observed
    OBVIOUS
  <2>1. CASE d \notin wiped
    <3>1. d \in P!Clusters /\ remote[d] >= o.observed
      BY <1>9, <2>1 DEF TrueOf
    <3> QED
      BY <1>6, <1>7, <1>9, <3>1
  <2>2. CASE reached /\ d = c
    BY <1>5, <1>7, <1>9, <2>2
  <2> QED
    BY <1>8, <2>1, <2>2
<1>10. TrueOf(obj)' /\ TrueOf(cached)' /\ TrueOf(work.obj)'
  <2>1. /\ obj.observed \in Nat /\ cached.observed \in Nat /\ work.obj.observed \in Nat
        /\ obj.observed <= g /\ cached.observed <= g /\ work.obj.observed <= g
    BY <1>6, RolloutNumbers DEF RolloutInv, GensGrow
  <2>2. TrueOf(obj) /\ TrueOf(cached) /\ TrueOf(work.obj)
    BY DEF RolloutInv
  <2> QED
    BY <1>2, <1>4, <1>9, <2>1, <2>2 DEF TrueOf
<1>11. PICK S : work.done \in Seq(S)
  BY DEF RolloutInv, RolloutTypes
<1>12. /\ work'.done \in Seq(S \cup {x})
       /\ \A i \in DOMAIN work'.done : work'.done[i] = x \/ (i \in DOMAIN work.done /\ work'.done[i] = work.done[i])
  BY <1>4, <1>11, Reported
<1>13. RolloutTypes'
  <2>1. work'.at # "idle" /\ work' # P!Idle
    BY <1>4, IdleWork
  <2> QED
    BY <1>2, <1>4, <1>7, <1>12, <2>1 DEF RolloutInv, RolloutTypes
<1>14. GensGrow'
  BY <1>2, <1>4, <1>6, <1>7 DEF RolloutInv, GensGrow
<1>15. ReportsTrue'
  <2> SUFFICES ASSUME NEW i \in DOMAIN work'.done, work'.done[i].synced
               PROVE  \/ work'.done[i].cluster \in wiped'
                      \/ work'.done[i].cluster \in P!Clusters /\ remote'[work'.done[i].cluster] >= work'.obj.gen
    BY DEF ReportsTrue
  <2>1. CASE work'.done[i] = x
    BY <1>3, <1>4, <1>5, <1>6, <1>7, <2>1
  <2>2. CASE i \in DOMAIN work.done /\ work'.done[i] = work.done[i]
    <3> DEFINE d == work.done[i].cluster
    <3>1. d \in wiped \/ (d \in P!Clusters /\ remote[d] >= g)
      BY <1>2, <2>2 DEF RolloutInv, ReportsTrue
    <3>2. CASE d \in wiped'
      BY <2>2, <3>2
    <3>3. CASE d \notin wiped' /\ d \notin wiped
      BY <1>4, <1>6, <1>7, <2>2, <3>1, <3>3
    <3>4. CASE reached /\ d = c
      BY <1>4, <1>5, <1>6, <1>7, <2>2, <3>4
    <3> QED
      BY <1>8, <3>2, <3>3, <3>4
  <2> QED
    BY <1>12, <2>1, <2>2
<1>16. VerifiesSynced'
  BY <1>4 DEF VerifiesSynced
<1> QED
  BY <1>10, <1>13, <1>14, <1>15, <1>16 DEF RolloutInv

\* All reports say synced when as many do as there are.
LEMMA AllSynced ==
  ASSUME NEW done, NEW S, done \in Seq(S), P!Count(done, "synced") = Len(done)
  PROVE  \A i \in DOMAIN done : done[i].synced
<1> DEFINE Y == {i \in DOMAIN done : done[i]["synced"]}
<1>1. DOMAIN done = 1 .. Len(done) /\ Len(done) \in Nat
  OBVIOUS
<1>2. IsFiniteSet(1 .. Len(done)) /\ Cardinality(1 .. Len(done)) = Len(done)
  <2> DEFINE n == Len(done)
  <2>1. 1 \in Int /\ n \in Int
    BY <1>1
  <2>2. IsFiniteSet(1 .. n) /\ Cardinality(1 .. n) = IF 1 > n THEN 0 ELSE n - 1 + 1
    BY <2>1, FS_Interval, Zenon
  <2>3. (IF 1 > n THEN 0 ELSE n - 1 + 1) = n
    BY <1>1
  <2> QED
    BY <2>2, <2>3, Zenon
<1>3. Cardinality(Y) = Len(done)
  <2>1. \A X : P!Cardinality(X) = Cardinality(X)
    BY Zenon DEF P!Cardinality, Cardinality
  <2> QED
    BY <2>1 DEF P!Count
<1> HIDE DEF Y
<1>4. Y \subseteq 1 .. Len(done)
  BY <1>1 DEF Y
<1>5. Y = 1 .. Len(done)
  BY <1>2, <1>3, <1>4, FS_Subset, Zenon
<1> QED
  BY <1>1, <1>5 DEF Y

LEMMA FinishKeeps ==
  ASSUME RolloutInv, P!FinishSync PROVE RolloutInv'
<1> DEFINE R == {work.done[i].cluster : i \in DOMAIN work.done}
           v == P!Outcome(work.done)
<1>1. UNCHANGED <<cached, remote, wiped, up>> /\ work' = P!Idle /\ work.at = "synced"
  BY DEF P!FinishSync, P!cluster, P!world
<1>2. Written(v, work.obj.gen, R)
  BY RolloutNumbers, PatchWrites DEF P!FinishSync
<1>3. v \in {"Pending", "Syncing", "Synced", "OutOfSync", "Failed"} /\ (v = "Synced" => P!Count(work.done, "synced") = Len(work.done))
  BY DEF P!Outcome
<1> HIDE DEF v, R
<1>4. /\ FedObject(obj') /\ obj'.gen = obj.gen /\ obj'.sync = v
      /\ obj'.observed = work.obj.gen /\ obj'.rolled = R
  BY <1>2, <1>3, RolloutNumbers, WrittenFacts
<1>5. ASSUME v = "Synced", NEW d \in R \ wiped PROVE d \in P!Clusters /\ remote[d] >= work.obj.gen
  <2>1. PICK S : work.done \in Seq(S)
    BY DEF RolloutInv, RolloutTypes
  <2>2. \A i \in DOMAIN work.done : work.done[i].synced
    BY <1>3, <1>5, <2>1, AllSynced
  <2> QED
    BY <1>1, <1>5, <2>2 DEF R, RolloutInv, ReportsTrue
<1>6. TrueOf(obj)'
  BY <1>1, <1>4, <1>5 DEF TrueOf
<1> QED
  BY <1>1, <1>4, <1>6, RolloutNumbers, EndsKeep

LEMMA SyncedKeeps ==
  ASSUME RolloutInv, P!HandleSynced PROVE RolloutInv'
<1> DEFINE o == work.obj
           q == P!Targets(o.spec)
           a == IF q = <<>> THEN "verified" ELSE "verify"
<1> HIDE DEF q
<1>1. UNCHANGED <<cached, remote, wiped, up>> /\ work.at = "Synced" /\ o.sync = "Synced"
  BY DEF P!HandleSynced, P!cluster, P!world, RolloutInv, VerifiesSynced
<1>2. \/ P!Patch([o EXCEPT !.sync = "OutOfSync"]) /\ work' = P!Idle
      \/ work' = [work EXCEPT !.at = a, !.todo = q] /\ obj' = obj
  BY DEF P!HandleSynced, q
<1>3. a \in {"secrets", "post", "synced", "verify", "verified"} /\ a \in {"verify", "verified"}
  OBVIOUS
<1> HIDE DEF a
<1>4. CASE P!Patch([o EXCEPT !.sync = "OutOfSync"]) /\ work' = P!Idle
  <2>1. Written("OutOfSync", o.observed, o.rolled)
    BY <1>4, RolloutNumbers, PatchWrites
  <2>2. FedObject(obj') /\ obj'.gen = obj.gen /\ obj'.sync = "OutOfSync" /\ obj'.observed = o.observed
    BY <2>1, RolloutNumbers, WrittenFacts
  <2> QED
    BY <1>1, <1>4, <2>2, RolloutNumbers, OtherStatus, EndsKeep
<1>5. CASE work' = [work EXCEPT !.at = a, !.todo = q] /\ obj' = obj
  <2>1. FedObject(obj') /\ obj'.gen = obj.gen /\ obj'.observed <= work.obj.gen /\ TrueOf(obj)'
    BY <1>1, <1>5, RolloutNumbers DEF RolloutInv, TrueOf
  <2> QED
    BY <1>1, <1>3, <1>5, <2>1, GoesOn
<1> QED
  BY <1>2, <1>4, <1>5

LEMMA VerifyKeeps ==
  ASSUME RolloutInv, P!VerifyOnCluster PROVE RolloutInv'
<1> DEFINE x == P!Status(Head(work.todo), P!HttpGetPipelineStatus(Head(work.todo)))
<1>1. /\ UNCHANGED <<obj, cached, remote, wiped, up>> /\ work.at = "verify"
      /\ work' = [work EXCEPT !.at = IF Tail(work.todo) = <<>> THEN "verified" ELSE "verify",
                              !.todo = Tail(@), !.done = Append(@, x)]
  BY DEF P!VerifyOnCluster, P!object, P!cluster, P!world
<1> HIDE DEF x
<1>2. /\ work'.at \in {"verify", "verified"} /\ work'.obj = work.obj /\ work'.done = Append(work.done, x)
      /\ work' = [at |-> work'.at, obj |-> work'.obj, fed |-> work'.fed, todo |-> work'.todo, done |-> work'.done]
  BY <1>1 DEF RolloutInv, RolloutTypes
<1>3. PICK S : work.done \in Seq(S)
  BY DEF RolloutInv, RolloutTypes
<1>4. work'.done \in Seq(S \cup {x})
  BY <1>2, <1>3, Reported
<1>5. RolloutTypes'
  <2>1. work'.at # "idle" /\ work' # P!Idle
    BY <1>2, IdleWork
  <2> QED
    BY <1>1, <1>2, <1>4, <2>1 DEF RolloutInv, RolloutTypes
<1>6. Newest' = Newest
  BY <1>1, <1>2 DEF Newest
<1>7. GensGrow'
  BY <1>1, <1>2, <1>6 DEF RolloutInv, GensGrow
<1>8. TrueOf(obj)' /\ TrueOf(cached)' /\ TrueOf(work.obj)'
  BY <1>1, <1>2 DEF RolloutInv, TrueOf
<1>9. ReportsTrue' /\ VerifiesSynced'
  BY <1>1, <1>2 DEF RolloutInv, ReportsTrue, VerifiesSynced
<1> QED
  BY <1>5, <1>7, <1>8, <1>9 DEF RolloutInv

\* The status that was read is written back, or is taken back.
LEMMA VerifiedKeeps ==
  ASSUME RolloutInv, P!FinishVerify PROVE RolloutInv'
<1> DEFINE o == work.obj
           v == IF P!Count(work.done, "synced") < Len(work.done) THEN "OutOfSync" ELSE "Synced"
<1>1. UNCHANGED <<cached, remote, wiped, up>> /\ work' = P!Idle /\ work.at = "verified"
  BY DEF P!FinishVerify, P!cluster, P!world
<1>2. Written(v, o.observed, o.rolled)
  BY RolloutNumbers, PatchWrites DEF P!FinishVerify
<1>3. v \in {"Pending", "Syncing", "Synced", "OutOfSync", "Failed"}
  OBVIOUS
<1> HIDE DEF v
<1>4. FedObject(obj') /\ obj'.gen = obj.gen /\ obj'.observed = o.observed /\ obj'.rolled = o.rolled
  BY <1>2, <1>3, RolloutNumbers, WrittenFacts
<1>5. o.sync = "Synced" /\ TrueOf(o)
  BY <1>1 DEF RolloutInv, VerifiesSynced
<1>6. TrueOf(obj)'
  BY <1>1, <1>4, <1>5 DEF TrueOf
<1> QED
  BY <1>1, <1>4, <1>6, RolloutNumbers, EndsKeep

\* The watch delivers the object, during a reconciliation or after one that
\* was given up.
LEMMA WatchKeeps ==
  ASSUME RolloutInv, P!Abort \/ P!Watch PROVE RolloutInv'
<1>1. /\ UNCHANGED <<obj, remote, wiped, up>> /\ cached' = obj
      /\ work' = work \/ work' = P!Idle
  BY DEF P!Abort, P!Watch, P!cluster, P!world
<1>2. PICK S : work'.done \in Seq(S)
  <2>1. P!Idle.done \in Seq({})
    BY IdleWork
  <2> QED
    BY <1>1, <2>1 DEF RolloutInv, RolloutTypes
<1>3. RolloutTypes'
  <2>1. FedObject(work'.obj) /\ (work'.at = "idle" <=> work' = P!Idle)
    BY <1>1, IdleWork DEF RolloutInv, RolloutTypes
  <2>2. work' = [at |-> work'.at, obj |-> work'.obj, fed |-> work'.fed, todo |-> work'.todo, done |-> work'.done]
    BY <1>1, IdleWork DEF RolloutInv, RolloutTypes
  <2> QED
    BY <1>1, <1>2, <2>1, <2>2 DEF RolloutInv, RolloutTypes
<1>4. GensGrow'
  <2>1. /\ Newest \in Nat /\ obj.gen \in Nat /\ cached.gen \in Nat /\ obj.observed \in Nat
        /\ remote \in [P!Clusters -> Nat]
    BY RolloutNumbers DEF RolloutInv, RolloutTypes
  <2>2. /\ Newest <= cached.gen /\ cached.gen <= obj.gen /\ obj.observed <= Newest
        /\ \A c \in P!Clusters : remote[c] <= Newest
    BY DEF RolloutInv, GensGrow
  <2>3. CASE work'.at = "idle"
    <3>1. Newest' = obj.gen /\ work'.obj.observed = 0
      BY <1>1, <1>3, <2>3, IdleWork DEF Newest, RolloutTypes
    <3> QED
      BY <1>1, <2>1, <2>2, <3>1 DEF GensGrow
  <2>4. CASE work'.at # "idle"
    <3>1. work' = work /\ Newest' = Newest
      BY <1>1, <2>4, IdleWork DEF Newest
    <3> QED
      BY <1>1, <2>1, <2>2, <3>1 DEF GensGrow, RolloutInv
  <2> QED
    BY <2>3, <2>4
<1>5. TrueOf(obj)' /\ TrueOf(cached)' /\ TrueOf(work.obj)'
  BY <1>1, IdleWork DEF RolloutInv, TrueOf
<1>6. ReportsTrue' /\ VerifiesSynced'
  BY <1>1, IdleWork DEF RolloutInv, ReportsTrue, VerifiesSynced
<1> QED
  BY <1>3, <1>4, <1>5, <1>6 DEF RolloutInv

LEMMA EditKeeps ==
  ASSUME RolloutInv, P!Edit PROVE RolloutInv'
<1>1. UNCHANGED <<cached, work, remote, wiped, up>>
  BY DEF P!Edit, P!cluster, P!world
<1>2. PICK s \in Specs : obj' = [obj EXCEPT !.gen = @ + 1, !.spec = s]
  BY DEF P!Edit
<1>3. obj' = [gen |-> obj.gen + 1, spec |-> s, sync |-> obj.sync, observed |-> obj.observed, rolled |-> obj.rolled]
  BY <1>2 DEF RolloutInv, RolloutTypes, FedObject
<1>4. /\ obj'.gen = obj.gen + 1 /\ obj'.sync = obj.sync /\ obj'.observed = obj.observed /\ obj'.rolled = obj.rolled
      /\ FedObject(obj')
  BY <1>3, RolloutNumbers DEF FedObject
<1>5. RolloutTypes'
  BY <1>1, <1>4 DEF RolloutInv, RolloutTypes
<1>6. Newest' = Newest
  BY <1>1 DEF Newest
<1>7. GensGrow'
  BY <1>1, <1>4, <1>6, RolloutNumbers DEF RolloutInv, GensGrow
<1>8. TrueOf(obj)' /\ TrueOf(cached)' /\ TrueOf(work.obj)'
  BY <1>1, <1>4 DEF RolloutInv, TrueOf
<1>9. ReportsTrue' /\ VerifiesSynced'
  BY <1>1 DEF RolloutInv, ReportsTrue, VerifiesSynced
<1> QED
  BY <1>5, <1>7, <1>8, <1>9 DEF RolloutInv

\* Outages and repairs: at most a cluster loses what it had, and is wiped.
LEMMA WorldKeeps ==
  ASSUME RolloutInv, UNCHANGED <<obj, cached, work>>, up' \subseteq P!Clusters,
         \/ UNCHANGED <<remote, wiped>>
         \/ \E c \in P!Clusters : remote' = [remote EXCEPT ![c] = 0] /\ wiped' = wiped \cup {c}
  PROVE  RolloutInv'
<1>1. remote \in [P!Clusters -> Nat]
  BY DEF RolloutInv, RolloutTypes
<1>2. /\ remote' \in [P!Clusters -> Nat] /\ wiped \subseteq wiped'
      /\ \A d \in P!Clusters : remote'[d] <= remote[d] /\ (d \notin wiped' => remote'[d] = remote[d])
  BY <1>1
<1>3. RolloutTypes'
  BY <1>2 DEF RolloutInv, RolloutTypes
<1>4. Newest' = Newest /\ Newest \in Nat
  BY RolloutNumbers DEF Newest
<1>5. GensGrow'
  BY <1>1, <1>2, <1>4 DEF RolloutInv, GensGrow
<1>6. TrueOf(obj)' /\ TrueOf(cached)' /\ TrueOf(work.obj)'
  BY <1>2 DEF RolloutInv, TrueOf
<1>7. ReportsTrue'
  BY <1>2 DEF RolloutInv, ReportsTrue
<1>8. VerifiesSynced'
  BY DEF RolloutInv, VerifiesSynced
<1> QED
  BY <1>3, <1>5, <1>6, <1>7, <1>8 DEF RolloutInv

LEMMA RolloutKept == RolloutInv /\ [ControlNext]_control => RolloutInv'
<1> SUFFICES ASSUME RolloutInv, P!Next \/ UNCHANGED rollout PROVE RolloutInv'
  BY RolloutSteps
<1>1. CASE P!Controller
  BY <1>1, BeginsKeep, PendingKeeps, RolloutBegins, SecretKeeps, DeployKeeps, FinishKeeps, SyncedKeeps,
     VerifyKeeps, VerifiedKeeps DEF P!Controller
<1>2. CASE P!RotateSecret \/ P!Fault \/ P!Repair \/ UNCHANGED rollout
  <2>1. UNCHANGED <<obj, cached, work>>
    BY <1>2 DEF P!RotateSecret, P!Fault, P!Repair, P!object, rollout
  <2>2. up' \subseteq P!Clusters
    BY <1>2 DEF P!RotateSecret, P!Fault, P!Repair, rollout, RolloutInv, RolloutTypes
  <2>3. \/ UNCHANGED <<remote, wiped>>
        \/ \E c \in P!Clusters : remote' = [remote EXCEPT ![c] = 0] /\ wiped' = wiped \cup {c}
    BY <1>2 DEF P!RotateSecret, P!Fault, P!Repair, P!cluster, rollout
  <2> QED
    BY <2>1, <2>2, <2>3, WorldKeeps
<1> QED
  BY <1>1, <1>2, WatchKeeps, EditKeeps DEF P!Next

LEMMA RolloutTells == RolloutInv => P!SyncedIsRolledOut
BY DEF RolloutInv, TrueOf, P!SyncedIsRolledOut

(***************************************************************************)
(* The statuses of the operator are true, for any clusters, specs, number  *)
(* of edits, failures and retries: a cluster whose status says Running and *)
(* has observed the current spec has that spec's resources, unless it was  *)
(* edited or its controller interrupted while resources were applied, and  *)
(* a federated pipeline that is Synced has been rolled out, at least in    *)
(* the version that was observed, to every cluster of the last rollout     *)
(* that has not lost it since.                                             *)
(***************************************************************************)
THEOREM StatusTrue == ControlSpec => []StatusIsTrue
<1>1. OperatorInv /\ RolloutInv => StatusIsTrue
  BY OperatorTells, RolloutTells DEF StatusIsTrue
<1> QED
  BY <1>1, OperatorStarts, OperatorKept, RolloutStarts, RolloutKept, PTL DEF ControlSpec

=============================================================================
