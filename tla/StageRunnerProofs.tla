---------------------------- MODULE StageRunnerProofs ----------------------------
(***************************************************************************)
(* Theorems about StageRunner for any number of systems, commands and      *)
(* events: the cache of plans, what a stage commits, and the order of its  *)
(* flush.                                                                  *)
(***************************************************************************)
EXTENDS StageRunner, Concatenations

(* Where the running call is: outside a stage nothing of one is left, and  *)
(* a stage that runs is one of the six.                                    *)
RunInv ==
  /\ phase \in {"enter", "next", "exclusive", "parallel", "flush"}
  /\ agenda \in Seq(Stage)
  /\ Idle => phase = "enter"
  /\ flushing # <<>> => phase = "flush"

(* A cached plan is a plan of the systems of its stage, and so is the one  *)
(* of the running stage, which the stage puts back when it ends.           *)
PlansCached ==
  \A stage \in Stage : stagePlans[stage] # NoPlan => stagePlans[stage] \in PlansOf(systems[stage])

PlanInv ==
  /\ systems \in [Stage -> Seq(Descriptor)]
  /\ nextSystemRegistrationIndex \in Nat
  /\ stagePlans = [stage \in Stage |-> stagePlans[stage]]
  /\ PlansCached
  /\ descriptors \in Seq(Descriptor)
  /\ phase # "enter" => plan \in PlansOf(descriptors)

(* A sequence, whatever it is of. *)
IsList(s) == \E S : s \in Seq(S)

(* What systems emitted in this stage is in the stage buffer, and in the   *)
(* system buffer while an exclusive system runs.                           *)
EventsInv ==
  /\ IsList(stageEvents) /\ IsList(systemEvents) /\ IsList(emitted)
  /\ phase = "enter" => emitted = <<>>
  /\ phase \in {"next", "parallel", "flush"} => emitted = stageEvents
  /\ phase = "exclusive" => emitted = stageEvents \o systemEvents

StageInv == RunInv /\ PlanInv /\ EventsInv
-----------------------------------------------------------------------------
(* Lists.                                                                  *)

LEMMA EmptyList == IsList(<<>>)
BY DEF IsList

LEMMA AppendList ==
  ASSUME NEW s, IsList(s), NEW x
  PROVE  IsList(Append(s, x))
<1>1. PICK S : s \in Seq(S)
  BY DEF IsList
<1>2. s \in Seq(S \cup {x})
  BY <1>1
<1>3. Append(s, x) \in Seq(S \cup {x})
  BY <1>2
<1>4. QED
  BY <1>3 DEF IsList

LEMMA ConcatList ==
  ASSUME NEW s, NEW t, IsList(s), IsList(t)
  PROVE  /\ IsList(s \o t)
         /\ s \o <<>> = s
         /\ \A x : Append(s \o t, x) = s \o Append(t, x)
<1>1. PICK S, T : s \in Seq(S) /\ t \in Seq(T)
  BY DEF IsList
<1>2. s \in Seq(S \cup T) /\ t \in Seq(S \cup T)
  BY <1>1
<1>3. s \o t \in Seq(S \cup T) /\ s \o <<>> = s
  BY <1>2
<1>4. ASSUME NEW x PROVE Append(s \o t, x) = s \o Append(t, x)
  <2> DEFINE U == S \cup T \cup {x}
  <2>1. s \in Seq(U) /\ t \in Seq(U) /\ x \in U
    BY <1>1
  <2> HIDE DEF U
  <2>2. QED
    BY <2>1
<1>5. QED
  BY <1>3, <1>4 DEF IsList

-----------------------------------------------------------------------------
(* RunInv.                                                                 *)

LEMMA StageNames ==
  /\ <<>> \in Seq(Stage)
  /\ \A stages \in {<<"Startup">>, <<"Render">>, <<"Shutdown">>,
                    <<"PreUpdate", "Update", "PostUpdate">>} : stages \in Seq(Stage)
BY DEF Stage

LEMMA CallKeepsRun ==
  ASSUME RunInv, NEW stages \in Seq(Stage), Call(stages)
  PROVE  RunInv'
BY DEF RunInv, Call, Idle, commands

LEMMA NextKeepsRun ==
  ASSUME RunInv, [Next]_vars
  PROVE  RunInv'
<1>1. agenda # <<>> => Tail(agenda) \in Seq(Stage)
  BY DEF RunInv
<1>2. Startup \in Seq(Stage)
  BY StageNames DEF Startup
<1>3. ASSUME UNCHANGED <<agenda, phase, flushing>> PROVE RunInv'
  BY <1>3 DEF RunInv, Idle
<1>4. ASSUME NEW stage, NEW kind, AddSystem(stage, kind) PROVE RunInv'
  BY <1>3, <1>4 DEF AddSystem, run, commands
<1>5. ASSUME NEW stage, NEW descriptor, AddSystemDescriptor(stage, descriptor) PROVE RunInv'
  BY <1>3, <1>5 DEF AddSystemDescriptor, run, commands
<1>6. CASE DeferOutside \/ EmitOutside
  BY <1>3, <1>6 DEF DeferOutside, EmitOutside, run, commands
<1>7. CASE Update \/ Render \/ RunStartup \/ Shutdown
  <2>1. /\ Startup \o <<"PreUpdate", "Update", "PostUpdate">> \in Seq(Stage)
        /\ Startup \o <<"Render">> \in Seq(Stage)
        /\ <<"Shutdown">> \in Seq(Stage)
    BY <1>2, StageNames
  <2>2. QED
    BY <1>2, <1>7, <2>1, CallKeepsRun DEF Update, Render, RunStartup, Shutdown
<1>8. CASE HostStep
  BY <1>4, <1>5, <1>6, <1>7, <1>8 DEF HostStep
<1>9. CASE SkipStage
  BY <1>1, <1>9 DEF SkipStage, StageReturns, RunInv, Idle, commands
<1>10. CASE BeginStage
  BY <1>10 DEF BeginStage, TakeSystems, BeginStageCommands, RunInv, Idle
<1>11. CASE PlanPanics
  BY <1>11, StageNames DEF PlanPanics, TakeSystems, RunInv, Idle, commands
<1>12. CASE BeginExclusive \/ EndExclusive \/ BeginParallel \/ Merge
  BY <1>12 DEF BeginExclusive, EndExclusive, BeginParallel, Merge, RunInv, Idle, commands
<1>13. CASE Defer \/ Emit
  BY <1>3, <1>13 DEF Defer, Emit, run, commands
<1>14. ASSUME NEW i, Record(i) \/ Finish(i) PROVE RunInv'
  BY <1>3, <1>14 DEF Record, Finish, run, commands
<1>15. CASE StartFlush \/ TakeStage
  BY <1>15 DEF StartFlush, TakeStage, RunInv, Idle, run, commands
<1>16. ASSUME NEW defers, NEW emits, Execute(defers, emits) PROVE RunInv'
  BY <1>16 DEF Execute, RunInv, Idle, run
<1>17. CASE EndStage
  BY <1>1, <1>17, StageNames DEF EndStage, StageReturns, LeaveStage, RunInv, Idle
<1>18. CASE Panic
  BY <1>18, StageNames DEF Panic, LeaveStage, RunInv, Idle
<1>19. CASE UNCHANGED vars
  BY <1>3, <1>19 DEF vars, run, commands
<1>20. QED
  BY <1>8, <1>9, <1>10, <1>11, <1>12, <1>13, <1>14, <1>15, <1>16, <1>17, <1>18, <1>19 DEF Next

-----------------------------------------------------------------------------
(* PlanInv.                                                                *)

(* A registration drops the plan of its stage, so no plan is ever short of *)
(* a system.                                                               *)
LEMMA RegisterKeepsPlans ==
  ASSUME PlanInv, NEW stage \in Stage, NEW descriptor \in Descriptor,
         Register(stage, descriptor), UNCHANGED run, nextSystemRegistrationIndex' \in Nat
  PROVE  PlanInv'
<1>1. /\ systems' = [s \in Stage |-> IF s = stage THEN Append(systems[s], descriptor) ELSE systems[s]]
      /\ stagePlans' = [s \in Stage |-> IF s = stage THEN NoPlan ELSE stagePlans[s]]
  BY DEF Register, PlanInv
<1>2. PlansCached'
  BY <1>1 DEF PlanInv, PlansCached
<1>3. systems' \in [Stage -> Seq(Descriptor)]
  BY <1>1 DEF PlanInv
<1>4. QED
  BY <1>1, <1>2, <1>3 DEF PlanInv, run

(* The systems and the plan leave the app together.                        *)
LEMMA TakeKeepsPlans ==
  ASSUME PlanInv, TakeSystems, agenda \in Seq(Stage)
  PROVE  /\ systems' \in [Stage -> Seq(Descriptor)]
         /\ nextSystemRegistrationIndex' \in Nat
         /\ stagePlans' = [stage \in Stage |-> stagePlans'[stage]]
         /\ PlansCached'
<1>1. Head(agenda) \in Stage
  BY DEF TakeSystems, Idle
<1>2. /\ systems' = [systems EXCEPT ![Head(agenda)] = NoSystems]
      /\ stagePlans' = [stagePlans EXCEPT ![Head(agenda)] = NoPlan]
  BY DEF TakeSystems
<1>3. /\ systems' = [s \in Stage |-> IF s = Head(agenda) THEN NoSystems ELSE systems[s]]
      /\ stagePlans' = [s \in Stage |-> IF s = Head(agenda) THEN NoPlan ELSE stagePlans[s]]
  BY <1>2 DEF PlanInv
<1>4. PlansCached'
  BY <1>3 DEF PlanInv, PlansCached
<1>5. systems' \in [Stage -> Seq(Descriptor)]
  BY <1>3 DEF PlanInv, NoSystems
<1>6. nextSystemRegistrationIndex' \in Nat
  BY DEF PlanInv, TakeSystems
<1>7. QED
  BY <1>3, <1>4, <1>5, <1>6

LEMMA BeginKeepsPlans ==
  ASSUME RunInv, PlanInv, BeginStage
  PROVE  PlanInv'
<1>1. TakeSystems /\ agenda \in Seq(Stage) /\ Head(agenda) \in Stage
  BY DEF BeginStage, TakeSystems, RunInv, Idle
<1>2. descriptors' = systems[Head(agenda)] /\ phase' = "next"
  BY DEF BeginStage
<1>3. plan' \in PlansOf(systems[Head(agenda)])
  BY <1>1 DEF BeginStage, PlanInv, PlansCached
<1>4. systems[Head(agenda)] \in Seq(Descriptor)
  BY <1>1 DEF PlanInv
<1>5. QED
  BY <1>1, <1>2, <1>3, <1>4, TakeKeepsPlans DEF PlanInv

LEMMA EndKeepsPlans ==
  ASSUME RunInv, PlanInv, EndStage
  PROVE  PlanInv'
<1>1. Head(agenda) \in Stage /\ plan \in PlansOf(descriptors) /\ descriptors \in Seq(Descriptor)
  BY DEF EndStage, RunInv, PlanInv, Idle
<1>2. /\ systems' = [systems EXCEPT ![Head(agenda)] = descriptors]
      /\ stagePlans' = [stagePlans EXCEPT ![Head(agenda)] = plan]
      /\ phase' = "enter" /\ descriptors' = <<>>
      /\ nextSystemRegistrationIndex' = nextSystemRegistrationIndex
  BY DEF EndStage, LeaveStage, NoSystems
<1>3. /\ systems' = [s \in Stage |-> IF s = Head(agenda) THEN descriptors ELSE systems[s]]
      /\ stagePlans' = [s \in Stage |-> IF s = Head(agenda) THEN plan ELSE stagePlans[s]]
  BY <1>2 DEF PlanInv
<1>4. PlansCached'
  BY <1>1, <1>3 DEF PlanInv, PlansCached
<1>5. systems' \in [Stage -> Seq(Descriptor)]
  BY <1>1, <1>3 DEF PlanInv
<1>6. nextSystemRegistrationIndex' \in Nat
  BY <1>2 DEF PlanInv
<1>7. QED
  BY <1>2, <1>3, <1>4, <1>5, <1>6 DEF PlanInv

(* Nothing else touches the systems, the cache or the plan of the stage.   *)
LEMMA NextKeepsPlans ==
  ASSUME RunInv, PlanInv, [Next]_vars
  PROVE  PlanInv'
<1>1. ASSUME UNCHANGED <<systems, stagePlans, nextSystemRegistrationIndex, descriptors, plan>>,
             phase' # "enter" => phase # "enter"
      PROVE  PlanInv'
  BY <1>1 DEF PlanInv, PlansCached
<1>2. ASSUME NEW stage \in Stages, NEW kind \in Kind, AddSystem(stage, kind) PROVE PlanInv'
  <2>1. PICK descriptor : descriptor = [kind |-> kind, registration |-> nextSystemRegistrationIndex]
    OBVIOUS
  <2>2. descriptor \in Descriptor /\ Register(stage, descriptor) /\ UNCHANGED run
    BY <1>2, <2>1 DEF AddSystem, PlanInv, Descriptor
  <2>3. nextSystemRegistrationIndex' \in Nat
    BY <1>2 DEF AddSystem, PlanInv
  <2>4. QED
    BY <2>2, <2>3, StagesAssumption, RegisterKeepsPlans
<1>3. ASSUME NEW stage \in Stages, NEW descriptor \in Own, AddSystemDescriptor(stage, descriptor)
      PROVE  PlanInv'
  BY <1>3, StagesAssumption, RegisterKeepsPlans DEF AddSystemDescriptor, PlanInv
<1>4. CASE HostStep
  <2>1. CASE DeferOutside \/ EmitOutside
    BY <1>1, <2>1 DEF DeferOutside, EmitOutside, app, run
  <2>2. CASE Update \/ Render \/ RunStartup \/ Shutdown
    BY <1>1, <2>2 DEF Update, Render, RunStartup, Shutdown, Call, app
  <2>3. QED
    BY <1>2, <1>3, <1>4, <2>1, <2>2 DEF HostStep
<1>5. CASE SkipStage
  BY <1>1, <1>5 DEF SkipStage
<1>6. CASE BeginStage
  BY <1>6, BeginKeepsPlans
<1>7. CASE PlanPanics
  BY <1>7, TakeKeepsPlans DEF PlanPanics, RunInv, PlanInv
<1>8. CASE BeginExclusive \/ EndExclusive \/ BeginParallel \/ Merge
  BY <1>1, <1>8 DEF BeginExclusive, EndExclusive, BeginParallel, Merge, app
<1>9. CASE Defer \/ Emit \/ TakeStage
  BY <1>1, <1>9 DEF Defer, Emit, TakeStage, app, run
<1>10. ASSUME NEW i, Record(i) \/ Finish(i) PROVE PlanInv'
  BY <1>1, <1>10 DEF Record, Finish, app, run
<1>11. CASE StartFlush
  BY <1>1, <1>11 DEF StartFlush, app
<1>12. ASSUME NEW defers, NEW emits, Execute(defers, emits) PROVE PlanInv'
  BY <1>1, <1>12 DEF Execute, app, run
<1>13. CASE EndStage
  BY <1>13, EndKeepsPlans
<1>14. CASE Panic
  BY <1>14 DEF Panic, LeaveStage, app, PlanInv, PlansCached, NoSystems
<1>15. CASE UNCHANGED vars
  BY <1>1, <1>15 DEF vars, app, run
<1>16. QED
  BY <1>4, <1>5, <1>6, <1>7, <1>8, <1>9, <1>10, <1>11, <1>12, <1>13, <1>14, <1>15 DEF Next

-----------------------------------------------------------------------------
(* EventsInv.                                                              *)

(* Only the running exclusive system adds to what the stage will commit.   *)
LEMMA NextKeepsEvents ==
  ASSUME RunInv, EventsInv, [Next]_vars
  PROVE  EventsInv'
<1>1. ASSUME UNCHANGED <<stageEvents, systemEvents, emitted, phase>> PROVE EventsInv'
  BY <1>1 DEF EventsInv
<1>2. ASSUME UNCHANGED <<stageEvents, emitted, phase>>, IsList(systemEvents'), phase # "exclusive"
      PROVE  EventsInv'
  BY <1>2 DEF EventsInv
<1>3. ASSUME UNCHANGED <<stageEvents, systemEvents, emitted>>,
             phase \in {"next", "parallel", "flush"}, phase' \in {"next", "parallel", "flush"}
      PROVE  EventsInv'
  BY <1>3 DEF EventsInv
<1>4. IsList(<<Stray>>)
  <2>1. <<Stray>> = Append(<<>>, Stray)
    OBVIOUS
  <2>2. QED
    BY <2>1, EmptyList, AppendList
<1>5. ASSUME NEW stage, NEW kind, AddSystem(stage, kind) PROVE EventsInv'
  BY <1>1, <1>5 DEF AddSystem, run, events, history
<1>6. ASSUME NEW stage, NEW descriptor, AddSystemDescriptor(stage, descriptor) PROVE EventsInv'
  BY <1>1, <1>6 DEF AddSystemDescriptor, run, events, history
<1>7. CASE HostStep
  <2>1. CASE DeferOutside
    BY <1>1, <2>1 DEF DeferOutside, run, events, history
  <2>2. CASE EmitOutside
    BY <1>2, <1>4, <2>2 DEF EmitOutside, RunInv, run, history
  <2>3. CASE Update \/ Render \/ RunStartup \/ Shutdown
    BY <1>1, <2>3 DEF Update, Render, RunStartup, Shutdown, Call, events, history
  <2>4. QED
    BY <1>5, <1>6, <1>7, <2>1, <2>2, <2>3 DEF HostStep
<1>8. CASE SkipStage
  BY <1>1, <1>8 DEF SkipStage, events, history
<1>9. CASE BeginStage
  BY <1>9, EmptyList
  DEF BeginStage, BeginStageEvents, TakeSystems, EventsInv, history
<1>10. CASE PlanPanics
  BY <1>1, <1>10 DEF PlanPanics, events, history
<1>11. CASE BeginExclusive
  BY <1>11, EmptyList, ConcatList DEF BeginExclusive, BeginSystemEvents, EventsInv, history
<1>12. CASE Defer
  BY <1>1, <1>12 DEF Defer, run, events
<1>13. CASE Emit
  <2>1. PICK event : /\ systemEvents' = Append(systemEvents, event)
                     /\ emitted' = Append(emitted, event)
    BY <1>13 DEF Emit
  <2>2. phase = "exclusive" /\ phase' = phase /\ stageEvents' = stageEvents
    BY <1>13 DEF Emit, run
  <2>3. Append(stageEvents \o systemEvents, event) = stageEvents \o Append(systemEvents, event)
    BY ConcatList DEF EventsInv
  <2>4. QED
    BY <2>1, <2>2, <2>3, AppendList DEF EventsInv
<1>14. CASE EndExclusive
  BY <1>14, EmptyList, ConcatList DEF EndExclusive, EventsInv, history
<1>15. CASE BeginParallel \/ Merge \/ StartFlush
  BY <1>3, <1>15 DEF BeginParallel, Merge, StartFlush, events, history
<1>16. ASSUME NEW i, Record(i) \/ Finish(i) PROVE EventsInv'
  BY <1>1, <1>16 DEF Record, Finish, run, events, history
<1>17. CASE TakeStage
  BY <1>1, <1>17 DEF TakeStage, run, events, history
<1>18. ASSUME NEW defers, NEW emits, Execute(defers, emits) PROVE EventsInv'
  BY <1>1, <1>2, <1>4, <1>18 DEF Execute, run
<1>19. CASE EndStage
  BY <1>19, EmptyList DEF EndStage, LeaveStage, EventsInv
<1>20. CASE Panic
  BY <1>20, EmptyList DEF Panic, LeaveStage, EventsInv, events
<1>21. CASE UNCHANGED vars
  BY <1>1, <1>21 DEF vars, run, events, history
<1>22. QED
  BY <1>7, <1>8, <1>9, <1>10, <1>11, <1>12, <1>13, <1>14, <1>15, <1>16, <1>17, <1>18, <1>19,
     <1>20, <1>21 DEF Next

-----------------------------------------------------------------------------
(* The theorems.                                                           *)

LEMMA StageInvariant == Spec => []StageInv
<1>1. Init => StageInv
  BY EmptyList, StageNames
  DEF Init, StageInv, RunInv, PlanInv, PlansCached, EventsInv, Idle, NoSystems
<1>2. StageInv /\ [Next]_vars => StageInv'
  BY NextKeepsRun, NextKeepsPlans, NextKeepsEvents DEF StageInv
<1>3. QED
  BY <1>1, <1>2, PTL DEF Spec

(* However systems are registered, by the app or by the caller, and        *)
(* wherever a stage panics, a plan that run_stage finds in the cache has   *)
(* each system of the stage once: the batches never index a system that is *)
(* not there and never leave one out.                                      *)
THEOREM PlansTheorem == Spec => []PlanCovers
<1>1. StageInv => PlanCovers
  BY DEF StageInv, PlanInv, PlansCached, PlanCovers, PlansOf
<1>2. QED
  BY <1>1, StageInvariant, PTL

Commits == EndStage => committed' = emitted

(* A stage commits exactly what its exclusive systems emitted, in order,   *)
(* whatever the host, a command or an earlier panic left in a buffer.      *)
THEOREM EventsTheorem == Spec => EventsCommitted
<1>1. StageInv => Commits
  BY DEF StageInv, EventsInv, EndStage, Commits
<1>2. Spec => [][Commits]_vars
  BY <1>1, StageInvariant, PTL
<1>3. QED
  BY <1>2 DEF EventsCommitted, Commits

-----------------------------------------------------------------------------
(* Names of commands.                                                      *)

Name == Seq(Nat)

CommandsOf(d, by) == {c \in d : Front(c) = by}
CountOf(d, by)    == Cardinality(CommandsOf(d, by))
ListOf(d, by)     == [n \in 1 .. CountOf(d, by) |-> Append(by, n)]

(* The commands that `by' deferred are numbered without a gap; a command   *)
(* is no further from a system than there are commands.                    *)
WellNamed(d) ==
  /\ IsFiniteSet(d) /\ d \subseteq Name
  /\ \A c \in d : Len(c) \in 2 .. Cardinality(d) + 1
  /\ \A by \in Name : CommandsOf(d, by) = {Append(by, n) : n \in 1 .. CountOf(d, by)}

LEMMA FrontOfAppend ==
  ASSUME NEW by \in Name, NEW n \in Nat
  PROVE  /\ Append(by, n) \in Name /\ Len(Append(by, n)) = Len(by) + 1
         /\ Front(Append(by, n)) = by
         /\ Append(by, n)[Len(by) + 1] = n
<1>1. PICK c : c = Append(by, n)
  OBVIOUS
<1>2. c \in Name /\ Len(c) = Len(by) + 1 /\ c[Len(by) + 1] = n
  BY <1>1 DEF Name
<1>3. SubSeq(c, 1, Len(c) - 1) = by
  BY <1>1 DEF Name
<1>4. QED
  BY <1>1, <1>2, <1>3 DEF Front

LEMMA CommandsFinite ==
  ASSUME NEW d, IsFiniteSet(d), NEW by
  PROVE  IsFiniteSet(CommandsOf(d, by)) /\ CountOf(d, by) \in Nat
<1>1. CommandsOf(d, by) \subseteq d
  BY DEF CommandsOf
<1>2. QED
  BY <1>1, FS_Subset, FS_CardinalityType DEF CountOf

LEMMA ListProperties ==
  ASSUME NEW d, WellNamed(d), NEW by \in Name
  PROVE  /\ ListOf(d, by) \in Seq(Name)
         /\ Len(ListOf(d, by)) = CountOf(d, by)
         /\ CountOf(d, by) \in Nat
         /\ \A n \in 1 .. CountOf(d, by) : ListOf(d, by)[n] = Append(by, n)
         /\ \A c : (\E n \in 1 .. CountOf(d, by) : c = ListOf(d, by)[n]) <=> c \in CommandsOf(d, by)
<1>1. CountOf(d, by) \in Nat
  BY CommandsFinite DEF WellNamed
<1>2. PICK k : k = CountOf(d, by)
  OBVIOUS
<1>3. ListOf(d, by) = [n \in 1 .. k |-> Append(by, n)]
  BY <1>2 DEF ListOf
<1>4. \A n \in 1 .. k : Append(by, n) \in Name
  BY <1>1, <1>2 DEF Name
<1>5. ListOf(d, by) \in Seq(Name) /\ Len(ListOf(d, by)) = k
  <2>1. PICK l : l = ListOf(d, by)
    OBVIOUS
  <2>2. k \in Nat /\ l = [n \in 1 .. k |-> Append(by, n)]
    BY <1>1, <1>2, <1>3, <2>1
  <2>3. l \in [1 .. k -> Name]
    BY <1>4, <2>2
  <2>4. l \in Seq(Name) /\ Len(l) = k
    BY ONLY <2>2, <2>3
  <2>5. QED
    BY <2>1, <2>4
<1>6. CommandsOf(d, by) = {Append(by, n) : n \in 1 .. k}
  BY <1>2 DEF WellNamed
<1>7. QED
  BY <1>1, <1>2, <1>3, <1>5, <1>6

OthersDeferAsBefore(d, e, by) ==
  \A other \in Name : other # by => ListOf(e, other) = ListOf(d, other)

(* A system or a command defers one more. *)
DefersNew(d, by, new, e) ==
  /\ by \in Name /\ (Len(by) = 1 \/ by \in d)
  /\ new = Append(by, 1 + CountOf(d, by))
  /\ e = d \cup {new}

(* It has a name of its own.                                               *)
LEMMA NewIsNew ==
  ASSUME NEW d, WellNamed(d), NEW by, NEW new, NEW e, DefersNew(d, by, new, e)
  PROVE  /\ new \in Name /\ Front(new) = by /\ new \notin d
         /\ Cardinality(e) = Cardinality(d) + 1
         /\ WellNamed(e)
         /\ ListOf(e, by) = Append(ListOf(d, by), new)
         /\ OthersDeferAsBefore(d, e, by)
<1> USE DEF DefersNew
<1>1. PICK k : k = CountOf(d, by)
  OBVIOUS
<1>2. k \in Nat /\ IsFiniteSet(CommandsOf(d, by))
  BY <1>1, CommandsFinite DEF WellNamed
<1>3. new \in Name /\ Front(new) = by /\ Len(new) = Len(by) + 1 /\ new[Len(by) + 1] = 1 + k
  <2>1. 1 + k \in Nat /\ new = Append(by, 1 + k)
    BY <1>1, <1>2
  <2>2. QED
    BY <2>1, FrontOfAppend
<1>4. new \notin d
  <2>1. SUFFICES ASSUME new \in d PROVE FALSE
    OBVIOUS
  <2>2. new \in CommandsOf(d, by)
    BY <1>3, <2>1 DEF CommandsOf
  <2>3. PICK n \in 1 .. k : new = Append(by, n)
    BY <1>1, <2>2 DEF WellNamed
  <2>4. new[Len(by) + 1] = n
    BY <1>2, <2>3, FrontOfAppend
  <2>5. QED
    BY <1>2, <1>3, <2>4
<1>5. IsFiniteSet(e) /\ Cardinality(e) = Cardinality(d) + 1 /\ Cardinality(d) \in Nat
  <2>1. IsFiniteSet(d)
    BY DEF WellNamed
  <2>2. QED
    BY <1>4, <2>1, FS_AddElement, FS_CardinalityType
<1>6. CommandsOf(e, by) = CommandsOf(d, by) \cup {new} /\ new \notin CommandsOf(d, by)
  BY <1>3, <1>4 DEF CommandsOf
<1>7. CountOf(e, by) = k + 1
  <2>1. Cardinality(CommandsOf(d, by)) = k
    BY <1>1 DEF CountOf
  <2>2. Cardinality(CommandsOf(d, by) \cup {new}) = k + 1
    BY <1>2, <1>6, <2>1, FS_AddElement
  <2>3. QED
    BY <1>6, <2>2 DEF CountOf
<1>8. ASSUME NEW other \in Name, other # by
      PROVE  CommandsOf(e, other) = CommandsOf(d, other) /\ CountOf(e, other) = CountOf(d, other)
  BY <1>3, <1>8 DEF CommandsOf, CountOf
<1>9. WellNamed(e)
  <2>1. e \subseteq Name
    BY <1>3 DEF WellNamed
  <2>2. ASSUME NEW c \in e PROVE Len(c) \in 2 .. Cardinality(e) + 1
    <3>1. CASE c \in d
      <4>1. Len(c) \in 2 .. Cardinality(d) + 1
        BY <3>1 DEF WellNamed
      <4>2. QED
        BY <1>5, <4>1
    <3>2. CASE c = new
      <4>1. Len(by) \in 1 .. Cardinality(d) + 1
        <5>1. CASE Len(by) = 1
          BY <1>5, <5>1
        <5>2. CASE by \in d
          <6>1. Len(by) \in 2 .. Cardinality(d) + 1
            BY <5>2 DEF WellNamed
          <6>2. QED
            BY <1>5, <6>1
        <5>3. QED
          BY <5>1, <5>2
      <4>2. QED
        BY <1>3, <1>5, <3>2, <4>1
    <3>3. QED
      BY <3>1, <3>2
  <2>3. ASSUME NEW other \in Name
        PROVE  CommandsOf(e, other) = {Append(other, n) : n \in 1 .. CountOf(e, other)}
    <3>1. CASE other = by
      <4>1. CommandsOf(d, by) = {Append(by, n) : n \in 1 .. k}
        BY <1>1 DEF WellNamed
      <4>2. new = Append(by, k + 1)
        BY <1>1, <1>2
      <4>3. 1 .. k + 1 = (1 .. k) \cup {k + 1}
        BY <1>2
      <4>4. {Append(by, n) : n \in 1 .. k + 1} = {Append(by, n) : n \in 1 .. k} \cup {new}
        BY <4>2, <4>3
      <4>5. QED
        <5>1. CommandsOf(e, other) = {Append(by, n) : n \in 1 .. k + 1}
          BY <1>6, <3>1, <4>1, <4>4
        <5>2. CountOf(e, other) = k + 1
          BY <1>7, <3>1
        <5>3. QED
          BY <3>1, <5>1, <5>2
    <3>2. CASE other # by
      <4>1. CommandsOf(d, other) = {Append(other, n) : n \in 1 .. CountOf(d, other)}
        BY DEF WellNamed
      <4>2. QED
        BY <1>8, <3>2, <4>1
    <3>3. QED
      BY <3>1, <3>2
  <2>4. QED
    BY <1>5, <2>1, <2>2, <2>3 DEF WellNamed
<1>10. ListOf(e, by) = Append(ListOf(d, by), new)
  <2>1. PICK l, m : l = ListOf(d, by) /\ m = ListOf(e, by)
    OBVIOUS
  <2>2. l \in Seq(Name) /\ Len(l) = k /\ \A n \in 1 .. k : l[n] = Append(by, n)
    BY <1>1, <2>1, ListProperties
  <2>3. m \in Seq(Name) /\ Len(m) = k + 1 /\ \A n \in 1 .. k + 1 : m[n] = Append(by, n)
    <3>1. PICK j : j = CountOf(e, by)
      OBVIOUS
    <3>2. /\ ListOf(e, by) \in Seq(Name) /\ Len(ListOf(e, by)) = CountOf(e, by)
          /\ \A n \in 1 .. CountOf(e, by) : ListOf(e, by)[n] = Append(by, n)
      <4>1. WellNamed(e) /\ by \in Name
        BY <1>9
      <4>2. QED
        BY ONLY <4>1, ListProperties
    <3>3. m \in Seq(Name) /\ Len(m) = j /\ \A n \in 1 .. j : m[n] = Append(by, n)
      BY <2>1, <3>1, <3>2
    <3>4. j = k + 1
      BY <1>7, <3>1
    <3>5. QED
      BY ONLY <3>3, <3>4
  <2>4. m[k + 1] = new
    BY <1>1, <1>2, <2>3
  <2>5. \A n \in 1 .. k : m[n] = l[n]
    <3>1. \A n \in 1 .. k : n \in 1 .. k + 1
      BY <1>2
    <3>2. QED
      BY <2>2, <2>3, <3>1
  <2>6. m = Append(l, new)
    BY <1>2, <1>3, <2>2, <2>3, <2>4, <2>5
  <2>7. QED
    BY <2>1, <2>6
<1>11. OthersDeferAsBefore(d, e, by)
  BY <1>8 DEF ListOf, OthersDeferAsBefore
<1>12. QED
  BY <1>3, <1>4, <1>5, <1>9, <1>10, <1>11
-----------------------------------------------------------------------------
(* What the members of a sequence deferred, one after another.             *)

Deferrals(d, q) == FlattenSeq([k \in DOMAIN q |-> ListOf(d, q[k])])

Table(d, q) == [k \in DOMAIN q |-> ListOf(d, q[k])]

LEMMA TableType ==
  ASSUME NEW d, WellNamed(d), NEW q \in Seq(Name)
  PROVE  /\ Len(q) \in Nat /\ Table(d, q) \in [1 .. Len(q) -> Seq(Name)]
         /\ Table(d, q) \in Seq(Seq(Name)) /\ Len(Table(d, q)) = Len(q)
         /\ \A k \in 1 .. Len(q) : q[k] \in Name /\ Table(d, q)[k] = ListOf(d, q[k])
<1>1. Len(q) \in Nat /\ DOMAIN q = 1 .. Len(q) /\ \A k \in 1 .. Len(q) : q[k] \in Name
  OBVIOUS
<1>2. \A by \in Name : ListOf(d, by) \in Seq(Name)
  BY ListProperties
<1>3. PICK n, t : n = Len(q) /\ t = Table(d, q)
  OBVIOUS
<1>4. t = [k \in 1 .. n |-> ListOf(d, q[k])]
  BY <1>1, <1>3 DEF Table
<1>5. t \in [1 .. n -> Seq(Name)] /\ n \in Nat
  BY <1>1, <1>2, <1>3, <1>4
<1>6. t \in Seq(Seq(Name)) /\ Len(t) = n
  BY ONLY <1>5
<1>7. QED
  BY <1>1, <1>3, <1>4, <1>5, <1>6

LEMMA DeferralsType ==
  ASSUME NEW d, WellNamed(d), NEW q, q \in Seq(Name)
  PROVE  /\ Deferrals(d, q) \in Seq(Name)
         /\ \A c : c \in ToSet(Deferrals(d, q)) <=> c \in d /\ Front(c) \in ToSet(q)
<1>1. PICK n, t : n = Len(q) /\ t = Table(d, q)
  OBVIOUS
<1>2. /\ n \in Nat /\ t \in [1 .. n -> Seq(Name)]
      /\ \A k \in 1 .. n : q[k] \in Name /\ t[k] = ListOf(d, q[k])
  BY <1>1, TableType
<1>3. Deferrals(d, q) = FlattenSeq(t)
  BY <1>1 DEF Deferrals, Table
<1>4. /\ FlattenSeq(t) \in Seq(Name)
      /\ \A x : x \in ToSet(FlattenSeq(t)) <=> \E a \in 1 .. n : \E r \in 1 .. Len(t[a]) : x = t[a][r]
  <2>1. n \in Nat /\ t \in [1 .. n -> Seq(Name)]
    BY <1>2
  <2>2. QED
    BY ONLY <2>1, FlattenMembers
<1>5. \A x : x \in ToSet(q) <=> \E a \in 1 .. n : x = q[a]
  BY <1>1 DEF ToSet
<1>6. ASSUME NEW c, NEW a \in 1 .. n
      PROVE  (\E r \in 1 .. Len(t[a]) : c = t[a][r]) <=> c \in d /\ Front(c) = q[a]
  <2>1. PICK by, l : by = q[a] /\ l = t[a]
    OBVIOUS
  <2>2. by \in Name /\ l = ListOf(d, by)
    BY <1>2, <2>1
  <2>3. (\E r \in 1 .. Len(l) : c = l[r]) <=> c \in CommandsOf(d, by)
    <3>1. /\ Len(ListOf(d, by)) = CountOf(d, by)
          /\ (\E r \in 1 .. CountOf(d, by) : c = ListOf(d, by)[r]) <=> c \in CommandsOf(d, by)
      BY <2>2, ListProperties
    <3>2. QED
      BY <2>2, <3>1
  <2>4. QED
    BY <2>1, <2>3 DEF CommandsOf
<1>7. ASSUME NEW c PROVE c \in ToSet(Deferrals(d, q)) <=> c \in d /\ Front(c) \in ToSet(q)
  BY <1>3, <1>4, <1>5, <1>6
<1>8. QED
  BY <1>3, <1>4, <1>7

(* What distinct members deferred is distinct.                             *)
LEMMA DeferralsDistinct ==
  ASSUME NEW d, WellNamed(d), NEW q \in Seq(Name), OncePerPlace(q)
  PROVE  OncePerPlace(Deferrals(d, q))
<1>1. PICK n, t : n = Len(q) /\ t = Table(d, q)
  OBVIOUS
<1>2. /\ n \in Nat /\ t \in [1 .. n -> Seq(Name)]
      /\ \A k \in 1 .. n : q[k] \in Name /\ t[k] = ListOf(d, q[k])
  BY <1>1, TableType
<1>3. Deferrals(d, q) = FlattenSeq(t)
  BY <1>1 DEF Deferrals, Table
<1>4. ASSUME NEW a \in 1 .. n, NEW r \in 1 .. Len(t[a])
      PROVE  r \in Nat /\ t[a][r] = Append(q[a], r)
  <2>1. PICK by, l : by = q[a] /\ l = t[a]
    OBVIOUS
  <2>2. by \in Name /\ l = ListOf(d, by)
    BY <1>2, <2>1
  <2>3. Len(l) \in Nat /\ \A i \in 1 .. Len(l) : l[i] = Append(by, i)
    BY <2>2, ListProperties
  <2>4. QED
    BY <2>1, <2>3
<1>5. ASSUME NEW a \in 1 .. n, NEW b \in 1 .. n, NEW r \in 1 .. Len(t[a]), NEW p \in 1 .. Len(t[b]),
             t[a][r] = t[b][p]
      PROVE  a = b /\ r = p
  <2>1. r \in Nat /\ p \in Nat /\ q[a] \in Name /\ q[b] \in Name /\ Append(q[a], r) = Append(q[b], p)
    BY <1>2, <1>4, <1>5
  <2>2. q[a] = q[b] /\ r = p
    <3>1. Front(Append(q[a], r)) = q[a] /\ Front(Append(q[b], p)) = q[b]
      BY ONLY <2>1, FrontOfAppend
    <3>2. q[a] = q[b]
      BY <2>1, <3>1
    <3>3. Append(q[a], r)[Len(q[a]) + 1] = r /\ Append(q[a], p)[Len(q[a]) + 1] = p
      BY ONLY <2>1, FrontOfAppend
    <3>4. QED
      BY <2>1, <3>2, <3>3
  <2>3. QED
    BY <1>1, <2>2 DEF OncePerPlace
<1>6. QED
  BY <1>2, <1>3, <1>5, FlattenDistinct

LEMMA DeferralsConcat ==
  ASSUME NEW d, WellNamed(d), NEW q \in Seq(Name), NEW r \in Seq(Name)
  PROVE  Deferrals(d, q \o r) = Deferrals(d, q) \o Deferrals(d, r)
<1>1. PICK s, t, u : s = Table(d, q) /\ t = Table(d, r) /\ u = Table(d, q \o r)
  OBVIOUS
<1>2. PICK m, n : m = Len(q) /\ n = Len(r)
  OBVIOUS
<1>3. /\ m \in Nat /\ s \in Seq(Seq(Name)) /\ Len(s) = m
      /\ \A k \in 1 .. m : q[k] \in Name /\ s[k] = ListOf(d, q[k])
  BY <1>1, <1>2, TableType
<1>4. /\ n \in Nat /\ t \in Seq(Seq(Name)) /\ Len(t) = n
      /\ \A k \in 1 .. n : r[k] \in Name /\ t[k] = ListOf(d, r[k])
  BY <1>1, <1>2, TableType
<1>5. PICK v : v = q \o r
  OBVIOUS
<1>6. /\ v \in Seq(Name) /\ Len(v) = m + n
      /\ \A k \in 1 .. m : v[k] = q[k]
      /\ \A k \in 1 .. n : v[m + k] = r[k]
  <2>1. PICK T : T = Name
    OBVIOUS
  <2>2. q \in Seq(T) /\ r \in Seq(T) /\ m = Len(q) /\ n = Len(r) /\ v = q \o r
    BY <1>2, <1>5, <2>1
  <2>3. /\ v \in Seq(T) /\ Len(v) = m + n
        /\ \A k \in 1 .. m : v[k] = q[k]
        /\ \A k \in 1 .. n : v[m + k] = r[k]
    BY ONLY <2>2, ConcatPlaces
  <2>4. QED
    BY <2>1, <2>3
<1>7. u \in Seq(Seq(Name)) /\ Len(u) = m + n /\ \A k \in 1 .. m + n : u[k] = ListOf(d, v[k])
  <2>1. u = Table(d, v)
    BY <1>1, <1>5
  <2>2. u \in Seq(Seq(Name)) /\ Len(u) = Len(v) /\ \A k \in 1 .. Len(v) : u[k] = ListOf(d, v[k])
    BY <1>6, <2>1, TableType
  <2>3. QED
    BY <1>6, <2>2
<1>8. ASSUME NEW k \in 1 .. m PROVE u[k] = s[k]
  <2>1. k \in 1 .. m + n
    BY <1>3, <1>4
  <2>2. QED
    BY <1>3, <1>6, <1>7, <2>1
<1>9. \A k \in 1 .. n : u[m + k] = t[k]
  <2>1. ASSUME NEW k \in 1 .. n PROVE u[m + k] = t[k]
    <3>1. m + k \in 1 .. m + n
      BY <1>3, <1>4
    <3>2. QED
      BY <1>4, <1>6, <1>7, <3>1
  <2>2. QED
    BY <2>1
<1>10. u = s \o t
  <2>1. PICK T : T = Seq(Name)
    OBVIOUS
  <2>2. s \in Seq(T) /\ t \in Seq(T) /\ u \in Seq(T)
    BY <1>3, <1>4, <1>7, <2>1
  <2>3. m = Len(s) /\ n = Len(t) /\ Len(u) = m + n
    BY <1>3, <1>4, <1>7
  <2>4. Joins(u, s, m, t, n)
    BY <1>8, <1>9 DEF Joins
  <2>5. QED
    BY ONLY <2>2, <2>3, <2>4, ConcatByPlaces
<1>11. FlattenSeq(s \o t) = FlattenSeq(s) \o FlattenSeq(t)
  BY <1>3, <1>4, FlattenConcat
<1>12. QED
  BY <1>1, <1>10, <1>11 DEF Deferrals, Table

LEMMA DeferralsNone ==
  ASSUME NEW d
  PROVE  Deferrals(d, <<>>) = <<>>
<1>1. [k \in DOMAIN <<>> |-> ListOf(d, <<>>[k])] = <<>>
  OBVIOUS
<1>2. QED
  BY <1>1, FlattenNone DEF Deferrals

LEMMA DeferralsOne ==
  ASSUME NEW d, WellNamed(d), NEW by \in Name
  PROVE  Deferrals(d, <<by>>) = ListOf(d, by)
<1>1. PICK l : l = ListOf(d, by)
  OBVIOUS
<1>2. l \in Seq(Name)
  BY <1>1, ListProperties
<1>3. <<l>> = Append(<<>>, l) /\ <<>> \in Seq(Seq(Name)) /\ <<>> \o l = l
  BY <1>2
<1>4. FlattenSeq(Append(<<>>, l)) = FlattenSeq(<<>>) \o l
  BY <1>2, <1>3, FlattenPush
<1>5. FlattenSeq(<<l>>) = l
  BY <1>3, <1>4, FlattenNone
<1>6. [k \in DOMAIN <<by>> |-> ListOf(d, <<by>>[k])] = <<l>>
  BY <1>1
<1>7. QED
  BY <1>1, <1>5, <1>6 DEF Deferrals

(* What others defer does not change it.                                   *)
LEMMA DeferralsSame ==
  ASSUME NEW d, NEW e, NEW q \in Seq(Name), \A k \in 1 .. Len(q) : ListOf(e, q[k]) = ListOf(d, q[k])
  PROVE  Deferrals(e, q) = Deferrals(d, q)
<1>1. [k \in DOMAIN q |-> ListOf(e, q[k])] = [k \in DOMAIN q |-> ListOf(d, q[k])]
  OBVIOUS
<1>2. QED
  BY <1>1 DEF Deferrals
-----------------------------------------------------------------------------
(* The levels of a flush.                                                  *)

(* The first m levels, from what the systems deferred. *)
AreLevels(level, d, first, m) ==
  \A n \in 1 .. m : level[n] = IF n = 1 THEN first ELSE Deferrals(d, level[n - 1])

LEMMA LevelsExist ==
  ASSUME NEW d, WellNamed(d), NEW first, first \in Seq(Name), NEW m \in Nat
  PROVE  \E level \in [1 .. m -> Seq(Name)] : AreLevels(level, d, first, m)
<1> DEFINE Some(k) == \E level \in [1 .. k -> Seq(Name)] : AreLevels(level, d, first, k)
           Good == {k \in 0 .. m : Some(k)}
<1>1. 0 \in Good
  <2>1. [n \in 1 .. 0 |-> first] \in [1 .. 0 -> Seq(Name)]
    OBVIOUS
  <2>2. AreLevels([n \in 1 .. 0 |-> first], d, first, 0)
    BY DEF AreLevels
  <2>3. Some(0)
    BY <2>1, <2>2
  <2> HIDE DEF Some
  <2>4. QED
    BY <2>3
<1>2. PICK k \in Good : \A j \in Good : j <= k
  <2> HIDE DEF Good
  <2>1. Good \in SUBSET (0 .. m) /\ Good # {}
    BY <1>1 DEF Good
  <2>2. QED
    BY <2>1, GreatestIndex
<1>3. ASSUME k < m PROVE FALSE
  <2>1. PICK level \in [1 .. k -> Seq(Name)] : AreLevels(level, d, first, k)
    BY <1>2
  <2>2. PICK p : p = k + 1
    OBVIOUS
  <2>3. p \in Nat /\ p <= m /\ p \in 1 .. p /\ k \in Nat /\ (p # 1 => k \in 1 .. k /\ p - 1 = k)
    BY <1>2, <1>3, <2>2
  <2>4. PICK new : new = IF p = 1 THEN first ELSE Deferrals(d, level[k])
    OBVIOUS
  <2>5. new \in Seq(Name)
    <3>1. CASE p = 1
      BY <2>4, <3>1
    <3>2. CASE p # 1
      <4>1. level[k] \in Seq(Name)
        BY <2>3, <3>2
      <4>2. Deferrals(d, level[k]) \in Seq(Name)
        BY <4>1, DeferralsType
      <4>3. QED
        BY <2>4, <3>2, <4>2
    <3>3. QED
      BY <3>1, <3>2
  <2>6. PICK longer : longer = [n \in 1 .. p |-> IF n = p THEN new ELSE level[n]]
    OBVIOUS
  <2>7. \A n \in 1 .. p : n # p => n \in 1 .. k /\ (n # 1 => n - 1 \in 1 .. p /\ n - 1 # p)
    BY <2>2, <2>3
  <2>8. longer \in [1 .. p -> Seq(Name)]
    BY <2>5, <2>6, <2>7
  <2>9. ASSUME NEW n \in 1 .. p
        PROVE  longer[n] = IF n = 1 THEN first ELSE Deferrals(d, longer[n - 1])
    <3>1. CASE n # p
      <4>1. longer[n] = level[n] /\ (n # 1 => longer[n - 1] = level[n - 1])
        BY <2>6, <2>7, <3>1
      <4>2. level[n] = IF n = 1 THEN first ELSE Deferrals(d, level[n - 1])
        BY <2>1, <2>7, <3>1 DEF AreLevels
      <4>3. QED
        BY <4>1, <4>2
    <3>2. CASE n = p
      <4>1. longer[n] = new
        BY <2>6, <3>2
      <4>2. n # 1 => longer[n - 1] = level[k]
        BY <2>2, <2>3, <2>6, <3>2
      <4>3. QED
        BY <2>4, <3>2, <4>1, <4>2
    <3>3. QED
      BY <3>1, <3>2
  <2>10. AreLevels(longer, d, first, p)
    BY <2>9 DEF AreLevels
  <2>11. Some(p)
    BY <2>8, <2>10
  <2> HIDE DEF Some
  <2>12. p \in Good
    BY <2>3, <2>11
  <2>13. QED
    BY <1>2, <2>2, <2>3, <2>12
<1>4. k = m
  <2> HIDE DEF Some
  <2>1. k \in 0 .. m
    OBVIOUS
  <2>2. QED
    BY <1>3, <2>1
<1>5. QED
  BY <1>2, <1>4

(* The members of a sequence are commands of so many names at least. *)
Long(q, n) == \A c \in ToSet(q) : Len(c) >= n

(* What a command defers has a longer name than the command.               *)
LEMMA DeferralsLonger ==
  ASSUME NEW d, WellNamed(d), NEW q, q \in Seq(Name), NEW n \in Nat, NEW p \in Nat, p = n + 1, Long(q, n)
  PROVE  Long(Deferrals(d, q), p)
<1>1. ASSUME NEW c \in ToSet(Deferrals(d, q)) PROVE Len(c) >= p
  <2>1. c \in d /\ Front(c) \in ToSet(q)
    BY DeferralsType
  <2>2. c \in Name /\ Len(c) >= 2 /\ Len(c) \in Nat
    BY <2>1 DEF WellNamed, Name
  <2>3. Len(Front(c)) = Len(c) - 1
    BY <2>2 DEF Front, Name
  <2>4. Len(Front(c)) >= n
    BY <2>1 DEF Long
  <2>5. QED
    BY <2>2, <2>3, <2>4
<1>2. QED
  BY <1>1 DEF Long

(* What the first n levels of a flush that executes q have in common with  *)
(* q: they begin it, what they defer are the levels up to n + 1, and what  *)
(* q has after them are names longer than n + 1.                           *)
Reached(level, d, first, q, n) ==
  \E p \in Seq(Name) :
    /\ p = FlattenSeq(SubSeq(level, 1, n))
    /\ first \o Deferrals(d, p) = p \o Deferrals(d, level[n])
    /\ \E rest \in Seq(Name) : q = p \o rest /\ Long(rest, n + 2)

LEMMA NamesAssociate ==
  ASSUME NEW a, NEW b, NEW c, a \in Seq(Name), b \in Seq(Name), c \in Seq(Name)
  PROVE  (a \o b) \o c = a \o (b \o c)
OBVIOUS

LEMMA FirstLevel ==
  ASSUME NEW d, WellNamed(d), NEW q, q \in Seq(Name), NEW first, first \in Seq(Name),
         q = first \o Deferrals(d, q), ToSet(q) \subseteq d,
         NEW m \in Nat, m # 0, NEW level, level \in [1 .. m -> Seq(Name)], AreLevels(level, d, first, m)
  PROVE  Reached(level, d, first, q, 1)
<1>1. 1 \in 1 .. m /\ level \in Seq(Seq(Name)) /\ Len(level) = m
  OBVIOUS
<1>2. level[1] = first
  BY <1>1 DEF AreLevels
<1>3. SubSeq(level, 1, 1) = <<first>>
  <2>1. PICK s, T : s = SubSeq(level, 1, 1) /\ T = Seq(Name)
    OBVIOUS
  <2>2. level \in Seq(T) /\ Len(level) >= 1 /\ Len(level) \in Nat
    BY <1>1, <2>1
  <2>3. s \in Seq(T) /\ Len(s) = 1 /\ s[1] = level[1]
    BY ONLY <2>1, <2>2
  <2>4. s = <<s[1]>>
    BY ONLY <2>3
  <2>5. QED
    BY <1>2, <2>1, <2>3, <2>4
<1>4. FlattenSeq(<<first>>) = first
  <2>1. PICK T : T = Name
    OBVIOUS
  <2>2. first \in Seq(T)
    BY <2>1
  <2>3. <<first>> = Append(<<>>, first) /\ <<>> \in Seq(Seq(T)) /\ <<>> \o first = first
    BY ONLY <2>2
  <2>4. FlattenSeq(Append(<<>>, first)) = FlattenSeq(<<>>) \o first
    BY ONLY <2>2, <2>3, FlattenPush
  <2>5. QED
    BY <2>3, <2>4, FlattenNone
<1>5. PICK rest : rest = Deferrals(d, q)
  OBVIOUS
<1>6. rest \in Seq(Name)
  BY <1>5, DeferralsType
<1>7. Long(rest, 3)
  <2>1. Long(q, 2)
    <3>1. \A c \in d : Len(c) >= 2
      BY DEF WellNamed
    <3>2. QED
      BY <3>1 DEF Long
  <2>2. 2 \in Nat /\ 3 \in Nat /\ 3 = 2 + 1
    OBVIOUS
  <2>3. QED
    BY <1>5, <2>1, <2>2, DeferralsLonger
<1>8. \E r \in Seq(Name) : q = first \o r /\ Long(r, 1 + 2)
  <2>1. 1 + 2 = 3
    OBVIOUS
  <2>2. QED
    BY <1>5, <1>6, <1>7, <2>1
<1>9. QED
  BY <1>2, <1>3, <1>4, <1>8 DEF Reached

LEMMA NextLevel ==
  ASSUME NEW d, WellNamed(d), NEW q, q \in Seq(Name), NEW first, first \in Seq(Name),
         q = first \o Deferrals(d, q),
         NEW m \in Nat, NEW level, level \in [1 .. m -> Seq(Name)], AreLevels(level, d, first, m),
         NEW n \in Nat, n # 0, NEW o, o = n + 1, o \in 1 .. m, Reached(level, d, first, q, n)
  PROVE  Reached(level, d, first, q, o)
<1>1. /\ level \in Seq(Seq(Name)) /\ Len(level) = m /\ n \in 1 .. m /\ o - 1 = n /\ o # 1
      /\ level[n] \in Seq(Name) /\ level[o] \in Seq(Name)
  OBVIOUS
<1>2. level[o] = Deferrals(d, level[n])
  BY <1>1 DEF AreLevels
<1>3. PICK p :
        /\ p \in Seq(Name)
        /\ p = FlattenSeq(SubSeq(level, 1, n))
        /\ first \o Deferrals(d, p) = p \o Deferrals(d, level[n])
        /\ \E rest \in Seq(Name) : q = p \o rest /\ Long(rest, n + 2)
  BY DEF Reached
<1>4. PICK rest : rest \in Seq(Name) /\ q = p \o rest /\ Long(rest, n + 2)
  BY <1>3
<1>5. PICK new, longer : new = level[o] /\ longer = p \o new
  OBVIOUS
<1>6. new \in Seq(Name) /\ longer \in Seq(Name)
  <2>1. new \in Seq(Name) /\ p \in Seq(Name)
    BY <1>1, <1>3, <1>5
  <2>2. QED
    BY ONLY <1>5, <2>1
<1>7. longer = FlattenSeq(SubSeq(level, 1, o))
  <2>1. PICK T, s : T = Name /\ s = SubSeq(level, 1, n)
    OBVIOUS
  <2>2. s \in Seq(Seq(T)) /\ SubSeq(level, 1, o) = Append(s, new)
    BY <1>1, <1>5, <2>1
  <2>3. new \in Seq(T)
    BY <1>6, <2>1
  <2>4. FlattenSeq(Append(s, new)) = FlattenSeq(s) \o new
    BY ONLY <2>2, <2>3, FlattenPush
  <2>5. QED
    BY <1>3, <1>5, <2>1, <2>2, <2>4
<1>8. PICK dp, dn, dr : dp = Deferrals(d, p) /\ dn = Deferrals(d, new) /\ dr = Deferrals(d, rest)
  OBVIOUS
<1>9. dp \in Seq(Name) /\ dn \in Seq(Name) /\ dr \in Seq(Name) /\ p \in Seq(Name) /\ rest \in Seq(Name)
  BY <1>3, <1>4, <1>6, <1>8, DeferralsType
<1>10. first \o dp = longer
  BY <1>2, <1>3, <1>5, <1>8
<1>11. first \o Deferrals(d, longer) = longer \o Deferrals(d, level[o])
  <2>1. Deferrals(d, longer) = dp \o dn
    <3>1. WellNamed(d) /\ p \in Seq(Name) /\ new \in Seq(Name)
      BY <1>6, <1>9
    <3>2. Deferrals(d, p \o new) = Deferrals(d, p) \o Deferrals(d, new)
      BY ONLY <3>1, DeferralsConcat
    <3>3. QED
      BY <1>5, <1>8, <3>2
  <2>2. first \in Seq(Name) /\ dp \in Seq(Name) /\ dn \in Seq(Name)
    BY <1>9
  <2>3. (first \o dp) \o dn = first \o (dp \o dn)
    BY ONLY <2>2, NamesAssociate
  <2>4. QED
    BY <1>5, <1>8, <1>10, <2>1, <2>3
<1>12. q = longer \o dr
  <2>1. Deferrals(d, q) = dp \o dr
    <3>1. WellNamed(d) /\ p \in Seq(Name) /\ rest \in Seq(Name)
      BY <1>9
    <3>2. Deferrals(d, p \o rest) = Deferrals(d, p) \o Deferrals(d, rest)
      BY ONLY <3>1, DeferralsConcat
    <3>3. QED
      BY <1>4, <1>8, <3>2
  <2>2. first \in Seq(Name) /\ dp \in Seq(Name) /\ dr \in Seq(Name)
    BY <1>9
  <2>3. (first \o dp) \o dr = first \o (dp \o dr)
    BY ONLY <2>2, NamesAssociate
  <2>4. QED
    BY <1>10, <2>1, <2>3
<1>13. Long(dr, o + 2)
  <2>1. PICK i, j : i = n + 2 /\ j = o + 2
    OBVIOUS
  <2>2. i \in Nat /\ j \in Nat /\ j = i + 1
    BY <2>1
  <2>3. Long(rest, i)
    BY <1>4, <2>1
  <2>4. Long(dr, j)
    BY <1>8, <1>9, <2>2, <2>3, DeferralsLonger
  <2>5. QED
    BY <2>1, <2>4
<1>14. QED
  BY <1>6, <1>7, <1>9, <1>11, <1>12, <1>13 DEF Reached

(* A sequence that is what the systems deferred and then what its members  *)
(* deferred is the sequence of the levels.                                 *)
LEMMA LevelsFlatten ==
  ASSUME NEW d, WellNamed(d), NEW q, q \in Seq(Name), NEW first, first \in Seq(Name),
         q = first \o Deferrals(d, q), ToSet(q) \subseteq d,
         NEW m \in Nat, Cardinality(d) <= m,
         NEW level, level \in [1 .. m -> Seq(Name)], AreLevels(level, d, first, m)
  PROVE  FlattenSeq(level) = q
<1>1. level \in Seq(Seq(Name)) /\ Len(level) = m
  OBVIOUS
<1>2. Cardinality(d) \in Nat /\ \A c \in d : Len(c) \in 2 .. Cardinality(d) + 1
  BY FS_CardinalityType DEF WellNamed
<1>3. CASE m = 0
  <2>1. level = <<>>
    <3>1. level \in Seq(Seq(Name)) /\ Len(level) = 0
      BY <1>1, <1>3
    <3>2. QED
      BY ONLY <3>1
  <2>2. ToSet(q) = {}
    <3>1. \A c \in d : FALSE
      BY <1>2, <1>3
    <3>2. QED
      BY <3>1
  <2>3. q = <<>>
    <3>1. Len(q) \in Nat /\ DOMAIN q = 1 .. Len(q)
      OBVIOUS
    <3>2. \A i \in 1 .. Len(q) : FALSE
      BY <2>2, <3>1 DEF ToSet
    <3>3. Len(q) = 0 /\ q \in Seq(Name)
      BY <3>1, <3>2
    <3>4. QED
      BY ONLY <3>3
  <2>4. QED
    BY <2>1, <2>3, FlattenNone
<1>4. CASE m # 0
  <2> DEFINE Good == {n \in 0 .. m : n # 0 /\ Reached(level, d, first, q, n)}
  <2>1. Reached(level, d, first, q, 1)
    BY <1>4, FirstLevel
  <2>2. 1 \in Good
    BY <1>4, <2>1
  <2>3. PICK n \in Good : \A k \in Good : k <= n
    <3> HIDE DEF Good
    <3>1. Good \in SUBSET (0 .. m) /\ Good # {}
      BY <2>2 DEF Good
    <3>2. QED
      BY <3>1, GreatestIndex
  <2>4. n \in Nat /\ n <= m /\ n # 0 /\ Reached(level, d, first, q, n)
    OBVIOUS
  <2>5. ASSUME n < m PROVE FALSE
    <3>1. PICK o : o = n + 1
      OBVIOUS
    <3>2. o \in 1 .. m /\ o \in 0 .. m /\ o # 0 /\ ~ (o <= n)
      BY <2>4, <2>5, <3>1
    <3>3. Reached(level, d, first, q, o)
      BY <2>4, <3>1, <3>2, NextLevel
    <3>4. o \in Good
      BY <3>2, <3>3
    <3>5. QED
      BY <2>3, <3>2, <3>4
  <2>6. Reached(level, d, first, q, m)
    BY <2>4, <2>5
  <2>7. PICK p \in Seq(Name) :
          /\ p = FlattenSeq(SubSeq(level, 1, m))
          /\ \E rest \in Seq(Name) : q = p \o rest /\ Long(rest, m + 2)
    BY <2>6 DEF Reached
  <2>8. PICK rest \in Seq(Name) : q = p \o rest /\ Long(rest, m + 2)
    BY <2>7
  <2>9. SubSeq(level, 1, m) = level
    BY <1>1
  <2>10. rest = <<>>
    <3>1. SUFFICES ASSUME rest # <<>> PROVE FALSE
      OBVIOUS
    <3>2. PICK c : c = rest[1]
      OBVIOUS
    <3>3. Len(rest) \in Nat /\ 1 \in 1 .. Len(rest)
      BY <3>1
    <3>4. c \in ToSet(rest)
      BY <3>2, <3>3 DEF ToSet
    <3>5. c \in ToSet(q)
      <4>1. PICK T, i, j : T = Name /\ i = Len(p) /\ j = Len(rest)
        OBVIOUS
      <4>2. p \in Seq(T) /\ rest \in Seq(T)
        BY <4>1
      <4>3. i \in Nat /\ j \in Nat /\ q \in Seq(T) /\ Len(q) = i + j /\ \A k \in 1 .. j : q[i + k] = rest[k]
        BY ONLY <2>8, <4>1, <4>2, ConcatPlaces
      <4>4. i + 1 \in 1 .. Len(q) /\ q[i + 1] = c
        BY <3>2, <3>3, <4>1, <4>3
      <4>5. QED
        BY <4>3, <4>4 DEF ToSet
    <3>6. Len(c) \in 2 .. Cardinality(d) + 1
      BY <1>2, <3>5
    <3>7. Len(c) >= m + 2
      BY <2>8, <3>4 DEF Long
    <3>8. QED
      BY <1>2, <3>6, <3>7
  <2>11. p \o <<>> = p
    OBVIOUS
  <2>12. QED
    BY <2>7, <2>8, <2>9, <2>10, <2>11
<1>5. QED
  BY <1>3, <1>4

-----------------------------------------------------------------------------
(* A flush.                                                                *)

(* The systems of a sequence of positions, as those who defer. *)
Names(s) == [k \in DOMAIN s |-> <<s[k]>>]

LEMMA NamesProperties ==
  ASSUME NEW s, s \in Seq(Nat)
  PROVE  /\ Names(s) \in Seq(Name) /\ Len(Names(s)) = Len(s)
         /\ \A k \in 1 .. Len(s) : Names(s)[k] = <<s[k]>>
         /\ \A c \in ToSet(Names(s)) : Len(c) = 1
         /\ \A c : c \in ToSet(Names(s)) <=> \E i \in ToSet(s) : c = <<i>>
         /\ OncePerPlace(s) => OncePerPlace(Names(s))
<1>1. PICK n, t : n = Len(s) /\ t = Names(s)
  OBVIOUS
<1>2. n \in Nat /\ DOMAIN s = 1 .. n /\ \A k \in 1 .. n : s[k] \in Nat
  BY <1>1
<1>3. t = [k \in 1 .. n |-> <<s[k]>>]
  BY <1>1, <1>2 DEF Names
<1>4. \A k \in 1 .. n : <<s[k]>> \in Name /\ Len(<<s[k]>>) = 1
  BY <1>2 DEF Name
<1>5. t \in [1 .. n -> Name] /\ \A k \in 1 .. n : t[k] = <<s[k]>>
  BY <1>3, <1>4
<1>6. t \in Seq(Name) /\ Len(t) = n
  BY ONLY <1>2, <1>5
<1>7. \A c \in ToSet(t) : Len(c) = 1
  BY <1>4, <1>5 DEF ToSet
<1>8. \A c : c \in ToSet(t) <=> \E i \in ToSet(s) : c = <<i>>
  BY <1>2, <1>3 DEF ToSet
<1>9. OncePerPlace(s) => OncePerPlace(t)
  <2>1. SUFFICES ASSUME OncePerPlace(s), NEW j \in 1 .. n, NEW k \in 1 .. n, t[j] = t[k]
                 PROVE  j = k
    BY <1>6 DEF OncePerPlace
  <2>2. <<s[j]>>[1] = <<s[k]>>[1]
    BY <1>5, <2>1
  <2>3. QED
    BY <1>1, <2>1, <2>2 DEF OncePerPlace
<1>10. QED
  BY <1>1, <1>5, <1>6, <1>7, <1>8, <1>9

AreSystems(base) == base \in Seq(Name) /\ \A c \in ToSet(base) : Len(c) = 1

(* The commands q of a flush, those executed first: what the systems       *)
(* `base' deferred and then what those executed deferred.                  *)
Flushes(d, base, executed, q) ==
  /\ executed \in Seq(Name) /\ q \in Seq(Name)
  /\ q = Deferrals(d, base \o executed)
  /\ OncePerPlace(q) /\ ToSet(q) \subseteq d
  /\ \A c \in d : Front(c) \in ToSet(base \o executed)

(* What is yet to be executed has deferred nothing. *)
LEMMA WaitingDeferredNothing ==
  ASSUME NEW d, WellNamed(d), NEW base, AreSystems(base),
         NEW executed, NEW rest, rest \in Seq(Name), NEW q, q = executed \o rest,
         Flushes(d, base, executed, q)
  PROVE  /\ \A c \in ToSet(rest) : c \in d /\ c \notin ToSet(base \o executed)
         /\ \A c \in d : Front(c) \notin ToSet(rest)
<1>1. executed \in Seq(Name) /\ base \in Seq(Name)
  BY DEF Flushes, AreSystems
<1>2. ToSet(base \o executed) = ToSet(base) \cup ToSet(executed)
  BY <1>1, ConcatMembers
<1>3. ToSet(q) = ToSet(executed) \cup ToSet(rest)
  BY <1>1, ConcatMembers
<1>4. ToSet(executed) \cap ToSet(rest) = {}
  <2>1. OncePerPlace(executed \o rest)
    BY DEF Flushes
  <2>2. executed \in Seq(Name) /\ rest \in Seq(Name)
    BY <1>1
  <2>3. QED
    BY ONLY <2>1, <2>2, ConcatApart
<1>5. ASSUME NEW c \in ToSet(rest) PROVE c \in d /\ c \notin ToSet(base \o executed)
  <2>1. c \in d
    BY <1>3 DEF Flushes
  <2>2. Len(c) >= 2
    BY <2>1 DEF WellNamed
  <2>3. ASSUME c \in ToSet(base) PROVE FALSE
    <3>1. Len(c) = 1
      BY <2>3 DEF AreSystems
    <3>2. QED
      BY <2>2, <3>1
  <2>4. QED
    BY <1>2, <1>4, <2>1, <2>3
<1>6. ASSUME NEW c \in d PROVE Front(c) \notin ToSet(rest)
  BY <1>5 DEF Flushes
<1>7. QED
  BY <1>5, <1>6

LEMMA EmptyByMembers ==
  ASSUME NEW T, NEW s, s \in Seq(T), ToSet(s) = {}
  PROVE  s = <<>>
<1>1. Len(s) \in Nat /\ DOMAIN s = 1 .. Len(s)
  OBVIOUS
<1>2. \A i \in 1 .. Len(s) : FALSE
  BY <1>1 DEF ToSet
<1>3. Len(s) = 0 /\ s \in Seq(T)
  BY <1>1, <1>2
<1>4. QED
  BY ONLY <1>3

(* So the whole is what the systems deferred and then what it deferred     *)
(* itself.                                                                 *)
LEMMA FlushClosed ==
  ASSUME NEW d, WellNamed(d), NEW base, AreSystems(base),
         NEW executed, NEW rest, rest \in Seq(Name), NEW q, q = executed \o rest,
         Flushes(d, base, executed, q)
  PROVE  q = Deferrals(d, base) \o Deferrals(d, q)
<1>1. WellNamed(d) /\ base \in Seq(Name) /\ executed \in Seq(Name) /\ rest \in Seq(Name)
  BY DEF Flushes, AreSystems
<1>2. Deferrals(d, base \o executed) = Deferrals(d, base) \o Deferrals(d, executed)
  BY ONLY <1>1, DeferralsConcat
<1>3. Deferrals(d, executed \o rest) = Deferrals(d, executed) \o Deferrals(d, rest)
  BY ONLY <1>1, DeferralsConcat
<1>4. Deferrals(d, rest) = <<>>
  <2>1. PICK s : s = Deferrals(d, rest)
    OBVIOUS
  <2>2. s \in Seq(Name) /\ \A c : c \in ToSet(s) <=> c \in d /\ Front(c) \in ToSet(rest)
    BY <1>1, <2>1, DeferralsType
  <2>3. \A c \in d : Front(c) \notin ToSet(rest)
    BY WaitingDeferredNothing
  <2>4. ToSet(s) = {}
    BY <2>2, <2>3
  <2>5. QED
    BY <2>1, <2>2, <2>4, EmptyByMembers
<1>5. Deferrals(d, executed) \in Seq(Name)
  BY <1>1, DeferralsType
<1>6. Deferrals(d, executed) \o <<>> = Deferrals(d, executed)
  <2>1. PICK s : s = Deferrals(d, executed)
    OBVIOUS
  <2>2. s \in Seq(Name)
    BY <1>5, <2>1
  <2>3. s \o <<>> = s
    BY ONLY <2>2
  <2>4. QED
    BY <2>1, <2>3
<1>7. q = Deferrals(d, base \o executed)
  BY DEF Flushes
<1>8. QED
  BY <1>2, <1>3, <1>4, <1>6, <1>7

(* A command is executed.  It defers nothing. *)
LEMMA FlushExecutes ==
  ASSUME NEW d, WellNamed(d), NEW base, AreSystems(base),
         NEW executed, NEW rest, rest \in Seq(Name), NEW q, q = executed \o rest,
         Flushes(d, base, executed, q), NEW c, c \in ToSet(rest)
  PROVE  Flushes(d, base, executed \o <<c>>, q)
<1>1. WellNamed(d) /\ base \in Seq(Name) /\ executed \in Seq(Name)
  BY DEF Flushes, AreSystems
<1>2. /\ c \in d /\ c \notin ToSet(base \o executed) /\ \A b \in d : Front(b) # c
      /\ c \in Name /\ <<c>> \in Seq(Name)
  <2>1. c \in d /\ c \notin ToSet(base \o executed) /\ \A b \in d : Front(b) # c
    <3>1. /\ \A b \in ToSet(rest) : b \in d /\ b \notin ToSet(base \o executed)
          /\ \A b \in d : Front(b) \notin ToSet(rest)
      BY WaitingDeferredNothing
    <3>2. QED
      BY <3>1
  <2>2. c \in Name
    BY <2>1 DEF WellNamed
  <2>3. QED
    BY <2>1, <2>2
<1>3. ListOf(d, c) = <<>>
  <2>1. PICK s : s = ListOf(d, c)
    OBVIOUS
  <2>2. CommandsOf(d, c) = {}
    BY <1>2 DEF CommandsOf
  <2>3. s \in Seq(Name) /\ Len(s) = 0
    <3>1. CountOf(d, c) = 0
      BY <2>2, FS_EmptySet DEF CountOf
    <3>2. QED
      BY <1>1, <1>2, <2>1, <3>1, ListProperties
  <2>4. QED
    BY ONLY <2>1, <2>3
<1>4. PICK front, e : front = base \o executed /\ e = executed \o <<c>>
  OBVIOUS
<1>5. front \in Seq(Name) /\ e \in Seq(Name) /\ base \o e = front \o <<c>>
  <2>1. base \in Seq(Name) /\ executed \in Seq(Name) /\ <<c>> \in Seq(Name)
    BY <1>1, <1>2
  <2>2. (base \o executed) \o <<c>> = base \o (executed \o <<c>>)
    BY ONLY <2>1, NamesAssociate
  <2>3. base \o executed \in Seq(Name) /\ executed \o <<c>> \in Seq(Name)
    BY ONLY <2>1
  <2>4. QED
    BY <1>4, <2>2, <2>3
<1>6. Deferrals(d, front \o <<c>>) = Deferrals(d, front) \o Deferrals(d, <<c>>)
  <2>1. WellNamed(d) /\ front \in Seq(Name) /\ <<c>> \in Seq(Name)
    BY <1>1, <1>2, <1>5
  <2>2. QED
    BY ONLY <2>1, DeferralsConcat
<1>7. Deferrals(d, <<c>>) = <<>>
  BY <1>1, <1>2, <1>3, DeferralsOne
<1>8. q \o <<>> = q /\ q \in Seq(Name)
  BY DEF Flushes
<1>9. q = Deferrals(d, base \o e)
  BY <1>4, <1>5, <1>6, <1>7, <1>8 DEF Flushes
<1>10. ToSet(front \o <<c>>) = ToSet(front) \cup ToSet(<<c>>)
  <2>1. PICK one : one = <<c>>
    OBVIOUS
  <2>2. front \in Seq(Name) /\ one \in Seq(Name)
    BY <1>2, <1>5, <2>1
  <2>3. ToSet(front \o one) = ToSet(front) \cup ToSet(one)
    BY ONLY <2>2, ConcatMembers
  <2>4. QED
    BY <2>1, <2>3
<1>11. \A b \in d : Front(b) \in ToSet(base \o e)
  BY <1>4, <1>5, <1>10 DEF Flushes
<1>12. QED
  BY <1>4, <1>5, <1>8, <1>9, <1>11 DEF Flushes

LEMMA OneMember ==
  ASSUME NEW x
  PROVE  ToSet(<<x>>) = {x} /\ OncePerPlace(<<x>>)
<1>1. DOMAIN <<x>> = {1} /\ <<x>>[1] = x /\ Len(<<x>>) = 1
  OBVIOUS
<1>2. QED
  BY <1>1 DEF ToSet, OncePerPlace

(* It defers one. *)
LEMMA FlushDefers ==
  ASSUME NEW d, WellNamed(d), NEW base, AreSystems(base),
         NEW executed, NEW rest, rest \in Seq(Name), NEW q, q = executed \o rest,
         Flushes(d, base, executed, q), NEW c, c \in ToSet(rest),
         NEW new, new = Append(c, 1 + CountOf(d, c)), NEW e, e = d \cup {new}
  PROVE  WellNamed(e) /\ Flushes(e, base, executed \o <<c>>, q \o <<new>>)
<1>1. WellNamed(d) /\ base \in Seq(Name) /\ executed \in Seq(Name) /\ q \in Seq(Name)
  BY DEF Flushes, AreSystems
<1>2. /\ c \in d /\ c \notin ToSet(base \o executed) /\ \A b \in d : Front(b) # c
      /\ c \in Name /\ <<c>> \in Seq(Name)
  <2>1. c \in d /\ c \notin ToSet(base \o executed) /\ \A b \in d : Front(b) # c
    <3>1. /\ \A b \in ToSet(rest) : b \in d /\ b \notin ToSet(base \o executed)
          /\ \A b \in d : Front(b) \notin ToSet(rest)
      BY WaitingDeferredNothing
    <3>2. QED
      BY <3>1
  <2>2. c \in Name
    BY <2>1 DEF WellNamed
  <2>3. QED
    BY <2>1, <2>2
<1>3. ListOf(d, c) = <<>>
  <2>1. PICK s : s = ListOf(d, c)
    OBVIOUS
  <2>2. CommandsOf(d, c) = {}
    BY <1>2 DEF CommandsOf
  <2>3. s \in Seq(Name) /\ Len(s) = 0
    <3>1. CountOf(d, c) = 0
      BY <2>2, FS_EmptySet DEF CountOf
    <3>2. QED
      BY <1>1, <1>2, <2>1, <3>1, ListProperties
  <2>4. QED
    BY ONLY <2>1, <2>3
<1>4. /\ new \in Name /\ Front(new) = c /\ new \notin d
      /\ WellNamed(e)
      /\ ListOf(e, c) = Append(ListOf(d, c), new)
      /\ OthersDeferAsBefore(d, e, c)
  <2>1. WellNamed(d) /\ DefersNew(d, c, new, e)
    BY <1>1, <1>2 DEF DefersNew
  <2>2. QED
    BY ONLY <2>1, NewIsNew
<1>5. PICK front, x, one : front = base \o executed /\ x = executed \o <<c>> /\ one = <<c>>
  OBVIOUS
<1>6. /\ front \in Seq(Name) /\ x \in Seq(Name) /\ one \in Seq(Name)
      /\ base \o x = front \o one
  <2>1. base \in Seq(Name) /\ executed \in Seq(Name) /\ one \in Seq(Name)
    BY <1>1, <1>2, <1>5
  <2>2. (base \o executed) \o one = base \o (executed \o one)
    BY ONLY <2>1, NamesAssociate
  <2>3. base \o executed \in Seq(Name) /\ executed \o one \in Seq(Name)
    BY ONLY <2>1
  <2>4. QED
    BY <1>5, <2>1, <2>2, <2>3
<1>7. Deferrals(e, front \o one) = Deferrals(e, front) \o Deferrals(e, one)
  <2>1. WellNamed(e) /\ front \in Seq(Name) /\ one \in Seq(Name)
    BY <1>4, <1>6
  <2>2. QED
    BY ONLY <2>1, DeferralsConcat
<1>8. Deferrals(e, one) = <<new>>
  <2>1. Append(<<>>, new) = <<new>>
    OBVIOUS
  <2>2. Deferrals(e, <<c>>) = ListOf(e, c)
    BY <1>2, <1>4, DeferralsOne
  <2>3. QED
    BY <1>3, <1>4, <1>5, <2>1, <2>2
<1>9. Deferrals(e, front) = Deferrals(d, front)
  <2>1. ASSUME NEW k \in 1 .. Len(front) PROVE ListOf(e, front[k]) = ListOf(d, front[k])
    <3>1. front[k] \in Name /\ front[k] \in ToSet(front)
      <4>1. k \in DOMAIN front
        BY <1>6
      <4>2. QED
        BY <1>6, <4>1 DEF ToSet
    <3>2. front[k] # c
      BY <1>2, <1>5, <3>1
    <3>3. QED
      BY <1>4, <3>1, <3>2 DEF OthersDeferAsBefore
  <2>2. front \in Seq(Name) /\ \A k \in 1 .. Len(front) : ListOf(e, front[k]) = ListOf(d, front[k])
    BY <1>6, <2>1
  <2>3. QED
    BY ONLY <2>2, DeferralsSame
<1>10. q = Deferrals(d, front)
  BY <1>5 DEF Flushes
<1>11. PICK last, w : last = <<new>> /\ w = q \o last
  OBVIOUS
<1>12. w = Deferrals(e, base \o x)
  BY <1>6, <1>7, <1>8, <1>9, <1>10, <1>11
<1>13. last \in Seq(Name) /\ ToSet(last) = {new} /\ OncePerPlace(last)
  <2>1. last \in Seq(Name)
    BY <1>4, <1>11
  <2>2. ToSet(last) = {new} /\ OncePerPlace(last)
    BY <1>11, OneMember
  <2>3. QED
    BY <2>1, <2>2
<1>14. w \in Seq(Name) /\ ToSet(w) = ToSet(q) \cup {new}
  <2>1. q \in Seq(Name) /\ last \in Seq(Name)
    BY <1>1, <1>13
  <2>2. q \o last \in Seq(Name) /\ ToSet(q \o last) = ToSet(q) \cup ToSet(last)
    BY ONLY <2>1, ConcatMembers
  <2>3. QED
    BY <1>11, <1>13, <2>2
<1>15. OncePerPlace(w)
  <2>1. q \in Seq(Name) /\ last \in Seq(Name) /\ OncePerPlace(q) /\ OncePerPlace(last)
    BY <1>1, <1>13 DEF Flushes
  <2>2. ToSet(q) \cap ToSet(last) = {}
    BY <1>4, <1>13 DEF Flushes
  <2>3. OncePerPlace(q \o last)
    BY ONLY <2>1, <2>2, ConcatTogether
  <2>4. QED
    BY <1>11, <2>3
<1>16. ToSet(w) \subseteq e
  BY <1>14 DEF Flushes
<1>17. ToSet(front \o one) = ToSet(front) \cup {c}
  <2>1. ToSet(one) = {c}
    BY <1>5, OneMember
  <2>2. front \in Seq(Name) /\ one \in Seq(Name)
    BY <1>6
  <2>3. ToSet(front \o one) = ToSet(front) \cup ToSet(one)
    BY ONLY <2>2, ConcatMembers
  <2>4. QED
    BY <2>1, <2>3
<1>18. \A b \in e : Front(b) \in ToSet(base \o x)
  BY <1>4, <1>5, <1>6, <1>17 DEF Flushes
<1>19. Flushes(e, base, x, w)
  BY <1>6, <1>12, <1>14, <1>15, <1>16, <1>18 DEF Flushes
<1>20. QED
  BY <1>4, <1>5, <1>11, <1>19

(* It begins when the systems have deferred all there is. *)
LEMMA FlushBegins ==
  ASSUME NEW d, WellNamed(d), NEW base, AreSystems(base), OncePerPlace(base),
         \A c \in d : Front(c) \in ToSet(base), NEW q, q = Deferrals(d, base)
  PROVE  Flushes(d, base, <<>>, q)
<1>1. base \in Seq(Name)
  BY DEF AreSystems
<1>2. base \o <<>> = base /\ <<>> \in Seq(Name)
  BY <1>1
<1>3. q \in Seq(Name) /\ \A c : c \in ToSet(q) <=> c \in d /\ Front(c) \in ToSet(base)
  BY <1>1, DeferralsType
<1>4. OncePerPlace(q)
  BY <1>1, DeferralsDistinct
<1>5. QED
  BY <1>2, <1>3, <1>4 DEF Flushes

(* The property of the stage runner in these terms. *)
LEMMA LevelsAre ==
  ASSUME WellNamed(deferred), NEW order, order = FlattenSeq(plan), order \in Seq(Nat),
         NEW first, first = Deferrals(deferred, Names(order))
  PROVE  \E level \in [1 .. MaxCommands -> Seq(Name)] :
           AreLevels(level, deferred, first, MaxCommands) /\ Levels = FlattenSeq(level)
<1>1. PICK d, m : d = deferred /\ m = MaxCommands
  OBVIOUS
<1>2. m \in Nat /\ WellNamed(d)
  BY <1>1, BoundsAssumption
<1>3. Names(order) \in Seq(Name)
  BY NamesProperties
<1>4. first \in Seq(Name)
  BY <1>1, <1>2, <1>3, DeferralsType
<1>5. \A by : DeferredBy(by) = ListOf(d, by)
  BY <1>1 DEF DeferredBy, ListOf, CountOf, CommandsOf
<1>6. \A s : Deferrals(d, s) = FlattenSeq([k \in DOMAIN s |-> DeferredBy(s[k])])
  BY <1>5 DEF Deferrals
<1>7. first = FlattenSeq([k \in DOMAIN order |-> DeferredBy(<<order[k]>>)])
  <2>1. DOMAIN Names(order) = DOMAIN order /\ \A k \in DOMAIN order : Names(order)[k] = <<order[k]>>
    BY DEF Names
  <2>2. [k \in DOMAIN Names(order) |-> DeferredBy(Names(order)[k])]
          = [k \in DOMAIN order |-> DeferredBy(<<order[k]>>)]
    BY <2>1
  <2>3. QED
    BY <1>1, <1>6, <2>2
<1>8. PICK level \in [1 .. m -> Seq(Name)] : AreLevels(level, d, first, m)
  BY <1>2, <1>4, LevelsExist
<1>9. level = [n \in 1 .. m |-> IF n = 1 THEN first ELSE Deferrals(d, level[n - 1])]
  BY <1>8 DEF AreLevels
<1>10. PICK f : /\ f = [n \in 1 .. m |-> IF n = 1 THEN first ELSE Deferrals(d, f[n - 1])]
                /\ Levels = FlattenSeq(f)
  <2>1. PICK f :
          /\ f = [n \in 1 .. m |->
                   IF n = 1 THEN FlattenSeq([k \in DOMAIN order |-> DeferredBy(<<order[k]>>)])
                   ELSE FlattenSeq([k \in DOMAIN f[n - 1] |-> DeferredBy(f[n - 1][k])])]
          /\ Levels = FlattenSeq(f)
    <3>1. level = [n \in 1 .. m |->
                   IF n = 1 THEN FlattenSeq([k \in DOMAIN order |-> DeferredBy(<<order[k]>>)])
                   ELSE FlattenSeq([k \in DOMAIN level[n - 1] |-> DeferredBy(level[n - 1][k])])]
      BY <1>6, <1>7, <1>9
    <3>2. Levels = FlattenSeq(CHOOSE f : f = [n \in 1 .. m |->
                   IF n = 1 THEN FlattenSeq([k \in DOMAIN order |-> DeferredBy(<<order[k]>>)])
                   ELSE FlattenSeq([k \in DOMAIN f[n - 1] |-> DeferredBy(f[n - 1][k])])])
      BY <1>1 DEF Levels
    <3>3. QED
      BY <3>1, <3>2
  <2>2. \A n \in 1 .. m : Deferrals(d, f[n - 1]) =
                          FlattenSeq([k \in DOMAIN f[n - 1] |-> DeferredBy(f[n - 1][k])])
    BY <1>6
  <2>3. f = [n \in 1 .. m |-> IF n = 1 THEN first ELSE Deferrals(d, f[n - 1])]
    BY <1>7, <2>1, <2>2
  <2>4. QED
    BY <2>1, <2>3
<1>11. f = level
  <2> DEFINE Good == {n \in 0 .. m : \A k \in 1 .. n : f[k] = level[k]}
  <2>1. 0 \in Good
    BY <1>2
  <2>2. PICK n \in Good : \A k \in Good : k <= n
    <3> HIDE DEF Good
    <3>1. Good \in SUBSET (0 .. m) /\ Good # {}
      BY <2>1 DEF Good
    <3>2. QED
      BY <1>2, <3>1, GreatestIndex
  <2>3. n \in Nat /\ n <= m /\ \A k \in 1 .. n : f[k] = level[k]
    BY <1>2
  <2>4. ASSUME n < m PROVE FALSE
    <3>1. PICK p : p = n + 1
      OBVIOUS
    <3>2. p \in 1 .. m /\ p \in 0 .. m /\ ~ (p <= n) /\ p - 1 = n /\ (p # 1 => n \in 1 .. n)
      BY <1>2, <2>3, <2>4, <3>1
    <3>3. f[p] = IF p = 1 THEN first ELSE Deferrals(d, f[n])
      BY <1>10, <3>2
    <3>4. level[p] = IF p = 1 THEN first ELSE Deferrals(d, level[n])
      BY <1>9, <3>2
    <3>5. f[p] = level[p]
      BY <2>3, <3>2, <3>3, <3>4
    <3>6. \A k \in 1 .. p : k \in 1 .. n \/ k = p
      BY <2>3, <3>1
    <3>7. \A k \in 1 .. p : f[k] = level[k]
      BY <2>3, <3>5, <3>6
    <3>8. p \in Good
      BY <3>2, <3>7
    <3>9. QED
      BY <2>2, <3>2, <3>8
  <2>5. n = m
    BY <1>2, <2>3, <2>4
  <2>6. f = [k \in 1 .. m |-> f[k]]
    BY <1>10
  <2>7. level = [k \in 1 .. m |-> level[k]]
    OBVIOUS
  <2>8. QED
    BY <2>3, <2>5, <2>6, <2>7
<1>12. QED
  BY <1>1, <1>8, <1>10, <1>11

-----------------------------------------------------------------------------
(* Plans and groups.                                                       *)

(* What a batch of a plan is. *)
IsBatch(D, batch) ==
  /\ batch \in Seq(Nat) /\ batch # <<>>
  /\ \A k \in 1 .. Len(batch) : batch[k] \in DOMAIN D
  /\ Ascending(D, batch)

(* What runs together: an exclusive system runs alone. *)
IsGroup(D, group) ==
  /\ IsBatch(D, group)
  /\ D[group[1]].kind = "exclusive" => Len(group) = 1

LEMMA BatchesOfPlan ==
  ASSUME NEW D, D \in Seq(Descriptor), NEW p, p \in PlansOf(D)
  PROVE  /\ p \in Seq(Seq(Nat)) /\ Covers(D, p)
         /\ \A b \in 1 .. Len(p) : IsBatch(D, p[b])
<1>1. PICK n : n = Len(D)
  OBVIOUS
<1>2. n \in Nat /\ DOMAIN D = 1 .. n
  BY <1>1
<1> DEFINE Batches == {batch \in UNION {SetToSeqs(S) : S \in (SUBSET DOMAIN D) \ {{}}} :
                         Ascending(D, batch)}
<1>3. p \in UNION {[1 .. l -> Batches] : l \in DOMAIN D} /\ Covers(D, p)
  BY DEF PlansOf
<1>4. ASSUME NEW batch \in Batches PROVE IsBatch(D, batch)
  <2>1. PICK S \in (SUBSET DOMAIN D) \ {{}} : batch \in SetToSeqs(S)
    OBVIOUS
  <2>2. batch \in [1 .. Cardinality(S) -> S]
    BY <2>1 DEF SetToSeqs
  <2>3. IsFiniteSet(S) /\ Cardinality(S) \in Nat /\ Cardinality(S) # 0
    <3>1. IsFiniteSet(1 .. n)
      BY <1>2, FS_Interval
    <3>2. S \subseteq 1 .. n /\ S # {}
      BY <1>2
    <3>3. IsFiniteSet(S)
      BY <3>1, <3>2, FS_Subset
    <3>4. QED
      BY <3>2, <3>3, FS_CardinalityType, FS_EmptySet
  <2>4. PICK c : c = Cardinality(S)
    OBVIOUS
  <2>5. c \in Nat /\ c # 0 /\ batch \in [1 .. c -> S] /\ \A x \in S : x \in Nat /\ x \in DOMAIN D
    BY <1>2, <2>2, <2>3, <2>4
  <2>6. batch \in Seq(Nat) /\ Len(batch) = c /\ \A k \in 1 .. c : batch[k] \in DOMAIN D
    <3>1. batch \in [1 .. c -> Nat]
      BY <2>5
    <3>2. batch \in Seq(Nat) /\ Len(batch) = c
      BY ONLY <2>5, <3>1
    <3>3. QED
      BY <2>5, <3>2
  <2>7. batch # <<>>
    BY <2>5, <2>6
  <2>8. QED
    BY <2>6, <2>7 DEF IsBatch
<1> HIDE DEF Batches
<1>5. PICK l : l \in DOMAIN D /\ p \in [1 .. l -> Batches]
  BY <1>3
<1>6. l \in Nat
  BY <1>2, <1>5
<1>7. p \in [1 .. l -> Seq(Nat)]
  BY <1>4, <1>5 DEF IsBatch
<1>8. p \in Seq(Seq(Nat)) /\ Len(p) = l
  BY ONLY <1>6, <1>7
<1>9. \A b \in 1 .. Len(p) : IsBatch(D, p[b])
  BY <1>4, <1>5, <1>8
<1>10. QED
  BY <1>3, <1>8, <1>9

(* A plan has every system in one place. *)
LEMMA PlanDistinct ==
  ASSUME NEW D, D \in Seq(Descriptor), NEW p, p \in PlansOf(D)
  PROVE  FlattenSeq(p) \in Seq(Nat) /\ OncePerPlace(FlattenSeq(p))
<1>1. PICK order, n, N : order = FlattenSeq(p) /\ n = Len(p) /\ N = 1 .. Len(D)
  OBVIOUS
<1>2. p \in Seq(Seq(Nat)) /\ Covers(D, p)
  BY BatchesOfPlan
<1>3. order \in Seq(Nat)
  <2>1. n \in Nat /\ p \in [1 .. n -> Seq(Nat)]
    BY <1>1, <1>2
  <2>2. FlattenSeq(p) \in Seq(Nat)
    BY ONLY <2>1, FlattenProperties
  <2>3. QED
    BY <1>1, <2>2
<1>4. Range(order) = N /\ Len(order) = Len(D) /\ Len(D) \in Nat
  <2>1. DOMAIN D = N
    BY <1>1
  <2>2. QED
    BY <1>1, <1>2, <2>1 DEF Covers
<1>5. DOMAIN order = N /\ order \in [N -> N]
  BY <1>1, <1>3, <1>4 DEF Range
<1>6. order \in Surjection(N, N)
  BY <1>4, <1>5 DEF Surjection, Range
<1>7. IsFiniteSet(N)
  BY <1>1, <1>4, FS_Interval
<1>8. order \in Injection(N, N)
  BY <1>6, <1>7, FS_Surjection
<1>9. OncePerPlace(order)
  BY <1>1, <1>4, <1>5, <1>8 DEF Injection, IsInjective, OncePerPlace
<1>10. QED
  BY <1>1, <1>3, <1>9

LEMMA GroupsOfPlan ==
  ASSUME NEW D, D \in Seq(Descriptor), NEW p, p \in PlansOf(D), NEW todoes, todoes = Groups(D, p)
  PROVE  /\ todoes \in Seq(Seq(Nat)) /\ \A g \in ToSet(todoes) : IsGroup(D, g)
         /\ FlattenSeq(todoes) = FlattenSeq(p)
<1>1. PICK n : n = Len(p)
  OBVIOUS
<1>2. p \in Seq(Seq(Nat)) /\ \A b \in 1 .. n : IsBatch(D, p[b])
  BY <1>1, BatchesOfPlan
<1>3. n \in Nat /\ DOMAIN p = 1 .. n
  BY <1>1, <1>2
<1>4. PICK parts : parts = [b \in 1 .. n |->
        IF CanRunParallel(D, p[b]) THEN <<p[b]>> ELSE [k \in DOMAIN p[b] |-> <<p[b][k]>>]]
  OBVIOUS
<1>5. todoes = FlattenSeq(parts)
  BY <1>3, <1>4 DEF Groups
<1>6. ASSUME NEW b \in 1 .. n
      PROVE  /\ parts[b] \in Seq(Seq(Nat)) /\ FlattenSeq(parts[b]) = p[b]
             /\ \A r \in 1 .. Len(parts[b]) : IsGroup(D, parts[b][r])
  <2>1. PICK batch, part : batch = p[b] /\ part = parts[b]
    OBVIOUS
  <2>2. /\ batch \in Seq(Nat) /\ batch # <<>> /\ 1 \in 1 .. Len(batch)
        /\ \A k \in 1 .. Len(batch) : batch[k] \in DOMAIN D
        /\ Ascending(D, batch)
    <3>1. batch \in Seq(Nat) /\ batch # <<>> /\ \A k \in 1 .. Len(batch) : batch[k] \in DOMAIN D
      BY <1>2, <2>1 DEF IsBatch
    <3>2. Ascending(D, batch)
      BY <1>2, <2>1 DEF IsBatch
    <3>3. QED
      BY <3>1, <3>2
  <2>3. part = IF CanRunParallel(D, batch) THEN <<batch>> ELSE [k \in DOMAIN batch |-> <<batch[k]>>]
    BY <1>4, <2>1
  <2>4. CASE CanRunParallel(D, batch)
    <3>1. part = <<batch>> /\ Len(part) = 1 /\ part[1] = batch
      BY <2>3, <2>4
    <3>2. part \in Seq(Seq(Nat))
      BY <2>2, <3>1
    <3>3. FlattenSeq(part) = batch
      BY <2>2, <3>1, FlattenOne
    <3>4. D[batch[1]].kind = "declared"
      <4>1. 1 \in DOMAIN batch
        BY <2>2
      <4>2. QED
        BY <2>4, <4>1 DEF CanRunParallel
    <3>5. IsGroup(D, batch)
      BY <2>2, <3>4 DEF IsGroup, IsBatch
    <3>6. QED
      BY <2>1, <3>1, <3>2, <3>3, <3>5
  <2>5. CASE ~ CanRunParallel(D, batch)
    <3>1. part = [k \in DOMAIN batch |-> <<batch[k]>>]
      BY <2>3, <2>5
    <3>2. part \in Seq(Seq(Nat)) /\ Len(part) = Len(batch) /\ FlattenSeq(part) = batch
      BY <2>2, <3>1, FlattenSingles
    <3>3. ASSUME NEW r \in 1 .. Len(part) PROVE IsGroup(D, part[r])
      <4>1. PICK i, g : i = batch[r] /\ g = <<i>>
        OBVIOUS
      <4>2. r \in 1 .. Len(batch) /\ r \in DOMAIN batch
        BY <2>2, <3>2
      <4>3. i \in Nat /\ i \in DOMAIN D /\ part[r] = g
        BY <2>2, <3>1, <4>1, <4>2
      <4>4. g \in Seq(Nat) /\ g # <<>> /\ Len(g) = 1 /\ \A k \in 1 .. Len(g) : g[k] \in DOMAIN D
        BY <4>1, <4>3
      <4>5. Ascending(D, g)
        BY <4>4 DEF Ascending
      <4>6. QED
        BY <4>3, <4>4, <4>5 DEF IsGroup, IsBatch
    <3>4. QED
      BY <2>1, <3>2, <3>3
  <2>6. QED
    BY <2>4, <2>5
<1>7. parts \in [1 .. n -> Seq(Seq(Nat))]
  BY <1>4, <1>6
<1>8. parts \in Seq(Seq(Seq(Nat))) /\ Len(parts) = n
  BY ONLY <1>3, <1>7
<1>9. /\ FlattenSeq(parts) \in Seq(Seq(Nat))
      /\ \A x : x \in ToSet(FlattenSeq(parts)) <=>
           \E a \in 1 .. n : \E r \in 1 .. Len(parts[a]) : x = parts[a][r]
  BY ONLY <1>3, <1>7, FlattenMembers
<1>10. ASSUME NEW g \in ToSet(todoes) PROVE IsGroup(D, g)
  <2>1. PICK a \in 1 .. n : \E r \in 1 .. Len(parts[a]) : g = parts[a][r]
    BY <1>5, <1>9
  <2>2. PICK r \in 1 .. Len(parts[a]) : g = parts[a][r]
    BY <2>1
  <2>3. QED
    BY <1>6, <2>2
<1>11. FlattenSeq(FlattenSeq(parts)) = FlattenSeq(p)
  <2>1. /\ parts \in Seq(Seq(Seq(Nat))) /\ p \in Seq(Seq(Nat)) /\ Len(parts) = Len(p)
        /\ \A k \in 1 .. Len(parts) : FlattenSeq(parts[k]) = p[k]
    BY <1>1, <1>2, <1>6, <1>8
  <2>2. QED
    BY ONLY <2>1, FlattenTwice
<1>12. QED
  BY <1>5, <1>9, <1>10, <1>11

-----------------------------------------------------------------------------
(* Merging.                                                                *)

(* An order that rises from place to place leaves every place where it is. *)
LEMMA RisingIsIdentity ==
  ASSUME NEW n, n \in Nat, NEW f, f \in [1 .. n -> 1 .. n],
         \A j, k \in 1 .. n : j < k => f[j] < f[k],
         \A j \in 1 .. n : \E k \in 1 .. n : f[k] = j
  PROVE  \A k \in 1 .. n : f[k] = k
<1> DEFINE Moved == {k \in 1 .. n : f[k] # k}
<1>1. SUFFICES ASSUME Moved # {} PROVE FALSE
  OBVIOUS
<1>2. PICK k : k \in Moved /\ \A j \in Moved : j <= k
  <2> HIDE DEF Moved
  <2>1. Moved \in SUBSET (0 .. n)
    BY DEF Moved
  <2>2. QED
    BY <1>1, <2>1, GreatestIndex
<1>3. k \in 1 .. n /\ f[k] \in 1 .. n /\ f[k] # k
  BY <1>2
<1>4. CASE f[k] > k
  <2>1. PICK l : l = f[k]
    OBVIOUS
  <2>2. l \in 1 .. n /\ l > k /\ l \notin Moved
    BY <1>2, <1>3, <1>4, <2>1
  <2>3. f[l] = l /\ f[k] < f[l]
    BY <1>3, <2>2
  <2>4. QED
    BY <2>1, <2>2, <2>3
<1>5. CASE f[k] < k
  <2>1. PICK l \in 1 .. n : f[l] = k
    BY <1>3
  <2>2. CASE l < k
    <3>1. f[l] < f[k]
      BY <1>3, <2>2
    <3>2. QED
      BY <1>3, <1>5, <2>1, <3>1
  <2>3. CASE l = k
    BY <1>3, <2>1, <2>3
  <2>4. CASE l > k
    <3>1. l \notin Moved
      BY <1>2, <1>3, <2>4
    <3>2. QED
      BY <2>1, <2>4, <3>1
  <2>5. QED
    BY <1>3, <2>2, <2>3, <2>4
<1>6. QED
  BY <1>3, <1>4, <1>5

(* The registrations of a batch do not fall. *)
LEMMA AscendingMonotone ==
  ASSUME NEW D, D \in Seq(Descriptor), NEW g, IsBatch(D, g)
  PROVE  /\ \A k \in 1 .. Len(g) : D[g[k]].registration \in Nat
         /\ \A j, k \in 1 .. Len(g) : j <= k => D[g[j]].registration <= D[g[k]].registration
<1>1. PICK n : n = Len(g)
  OBVIOUS
<1>2. n \in Nat /\ \A k \in 1 .. n : g[k] \in DOMAIN D
  BY <1>1 DEF IsBatch
<1>3. ASSUME NEW k \in 1 .. n PROVE D[g[k]].registration \in Nat
  <2>1. D[g[k]] \in Descriptor
    BY <1>2
  <2>2. QED
    BY <2>1 DEF Descriptor
<1>4. PICK R : R = [k \in 1 .. n |-> D[g[k]].registration]
  OBVIOUS
<1>5. R \in [1 .. n -> Nat] /\ \A k \in 1 .. n : R[k] = D[g[k]].registration
  BY <1>3, <1>4
<1>6. ASSUME NEW k \in 1 .. n, k + 1 \in 1 .. n PROVE R[k] <= R[k + 1]
  <2>1. k \in 1 .. n - 1
    BY <1>2, <1>6
  <2>2. D[g[k]].registration <= D[g[k + 1]].registration
    BY <1>1, <2>1 DEF IsBatch, Ascending
  <2>3. QED
    BY <1>5, <1>6, <2>2
<1>7. ASSUME NEW j \in 1 .. n, NEW k \in 1 .. n, j <= k PROVE R[j] <= R[k]
  <2> DEFINE Good == {l \in 0 .. n : j <= l /\ l <= k /\ R[j] <= R[l]}
  <2>1. j \in Good
    BY <1>2, <1>5, <1>7
  <2>2. PICK l : l \in Good /\ \A i \in Good : i <= l
    <3> HIDE DEF Good
    <3>1. Good \in SUBSET (0 .. n) /\ Good # {}
      BY <2>1 DEF Good
    <3>2. QED
      BY <1>2, <3>1, GreatestIndex
  <2>3. l \in 1 .. n /\ l <= k /\ R[j] <= R[l]
    BY <1>2, <2>2
  <2>4. ASSUME l < k PROVE FALSE
    <3>1. PICK i : i = l + 1
      OBVIOUS
    <3>2. i \in 1 .. n /\ i <= k /\ j <= i /\ ~ (i <= l)
      BY <1>2, <2>2, <2>3, <2>4, <3>1
    <3>3. R[l] <= R[i]
      BY <1>6, <2>3, <3>1, <3>2
    <3>4. R[j] \in Nat /\ R[l] \in Nat /\ R[i] \in Nat
      BY <1>5, <2>3, <3>2
    <3>5. R[j] <= R[i]
      BY <2>3, <3>3, <3>4
    <3>6. i \in Good
      BY <3>2, <3>5
    <3>7. QED
      BY <2>2, <3>2, <3>6
  <2>5. l = k
    BY <1>2, <2>3, <2>4
  <2>6. QED
    BY <2>3, <2>5
<1>8. QED
  BY <1>1, <1>3, <1>5, <1>7

(* A batch is merged in its own order. *)
LEMMA MergeKeepsOrder ==
  ASSUME descriptors \in Seq(Descriptor), NEW g, IsBatch(descriptors, g)
  PROVE  MergeOrder(g) = g
<1>1. PICK n, D : n = Len(g) /\ D = descriptors
  OBVIOUS
<1>2. n \in Nat /\ g \in Seq(Nat) /\ DOMAIN g = 1 .. n
  BY <1>1 DEF IsBatch
<1>3. PICK R : R = [k \in 1 .. n |-> D[g[k]].registration]
  OBVIOUS
<1>4. /\ R \in [1 .. n -> Nat]
      /\ \A j, k \in 1 .. n : j <= k => R[j] <= R[k]
  <2>1. /\ \A k \in 1 .. n : D[g[k]].registration \in Nat
        /\ \A j, k \in 1 .. n : j <= k => D[g[j]].registration <= D[g[k]].registration
    BY <1>1, AscendingMonotone
  <2>2. QED
    BY <1>3, <2>1
<1> DEFINE Before(j, k) == \/ D[g[j]].registration < D[g[k]].registration
                           \/ D[g[j]].registration = D[g[k]].registration /\ j < k
           Sorted(places) == \A j, k \in DOMAIN places : j < k => Before(places[j], places[k])
<1>5. ASSUME NEW j \in 1 .. n, NEW k \in 1 .. n PROVE Before(j, k) <=> j < k
  <2>1. R[j] \in Nat /\ R[k] \in Nat /\ (j <= k => R[j] <= R[k]) /\ (k <= j => R[k] <= R[j])
    BY <1>4
  <2>2. R[j] = D[g[j]].registration /\ R[k] = D[g[k]].registration
    BY <1>3
  <2>3. QED
    BY <1>2, <2>1, <2>2
<1> HIDE DEF Before
<1>6. IsFiniteSet(1 .. n) /\ Cardinality(1 .. n) = n
  <2>1. 1 \in Int /\ n \in Int /\ (IF 1 > n THEN 0 ELSE n - 1 + 1) = n
    BY <1>2
  <2>2. QED
    BY <2>1, FS_Interval
<1>7. PICK same : same = [k \in 1 .. n |-> k]
  OBVIOUS
<1>8. same \in SetToSeqs(1 .. n) /\ Sorted(same)
  <2>1. same \in SetToSeqs(1 .. n)
    BY <1>6, <1>7 DEF SetToSeqs
  <2>2. Sorted(same)
    BY <1>5, <1>7
  <2>3. QED
    BY <2>1, <2>2
<1>9. ASSUME NEW places, places \in SetToSeqs(1 .. n), Sorted(places) PROVE places = same
  <2>1. /\ places \in [1 .. n -> 1 .. n]
        /\ \A j, k \in 1 .. n : j # k => places[j] # places[k]
    BY <1>6, <1>9 DEF SetToSeqs
  <2>2. ASSUME NEW j \in 1 .. n, NEW k \in 1 .. n, j < k PROVE places[j] < places[k]
    <3>1. Before(places[j], places[k])
      BY <1>9, <2>1, <2>2
    <3>2. QED
      BY <1>5, <2>1, <3>1
  <2>3. places \in Injection(1 .. n, 1 .. n)
    BY <2>1 DEF Injection, IsInjective
  <2>4. places \in Surjection(1 .. n, 1 .. n)
    BY <1>6, <2>3, FS_Injection
  <2>5. \A j \in 1 .. n : \E k \in 1 .. n : places[k] = j
    BY <2>4 DEF Surjection
  <2>6. \A k \in 1 .. n : places[k] = k
    BY <1>2, <2>1, <2>2, <2>5, RisingIsIdentity
  <2>7. QED
    BY <1>7, <2>1, <2>6
<1> HIDE DEF Sorted
<1>10. PICK order : order = (CHOOSE places \in SetToSeqs(1 .. n) : Sorted(places))
  OBVIOUS
<1>11. order = same
  BY <1>8, <1>9, <1>10
<1>12. MergeOrder(g) = [k \in DOMAIN order |-> g[order[k]]]
  BY <1>1, <1>2, <1>10 DEF MergeOrder, Sorted, Before
<1>13. [k \in DOMAIN order |-> g[order[k]]] = [k \in 1 .. n |-> g[k]]
  BY <1>7, <1>11
<1>14. QED
  BY <1>2, <1>12, <1>13

-----------------------------------------------------------------------------
(* The systems of a stage run.                                             *)

(* Those of `order' that have run, those left, and those running now, with *)
(* what the ones that have run deferred in the buffer.                     *)
Ran(d, order, done, left, busy, buffer) ==
  /\ done \in Seq(Nat) /\ left \in Seq(Seq(Nat)) /\ busy \in Seq(Nat)
  /\ order = done \o FlattenSeq(left)
  /\ buffer = Deferrals(d, Names(done))
  /\ \A c \in d : Front(c) \in ToSet(Names(done \o busy))

LEMMA NamesConcat ==
  ASSUME NEW s, s \in Seq(Nat), NEW t, t \in Seq(Nat)
  PROVE  s \o t \in Seq(Nat) /\ Names(s \o t) = Names(s) \o Names(t)
<1>1. PICK m, n, u, v : m = Len(s) /\ n = Len(t) /\ u = s \o t /\ v = Names(u)
  OBVIOUS
<1>2. /\ m \in Nat /\ n \in Nat /\ u \in Seq(Nat) /\ Len(u) = m + n
      /\ \A k \in 1 .. m : u[k] = s[k]
      /\ \A k \in 1 .. n : u[m + k] = t[k]
  BY <1>1, ConcatPlaces
<1>3. PICK a, b : a = Names(s) /\ b = Names(t)
  OBVIOUS
<1>4. a \in Seq(Name) /\ Len(a) = m /\ \A k \in 1 .. m : a[k] = <<s[k]>>
  BY <1>1, <1>3, NamesProperties
<1>5. b \in Seq(Name) /\ Len(b) = n /\ \A k \in 1 .. n : b[k] = <<t[k]>>
  BY <1>1, <1>3, NamesProperties
<1>6. v \in Seq(Name) /\ Len(v) = m + n /\ \A k \in 1 .. m + n : v[k] = <<u[k]>>
  <2>1. v \in Seq(Name) /\ Len(v) = Len(u) /\ \A k \in 1 .. Len(u) : v[k] = <<u[k]>>
    BY <1>1, <1>2, NamesProperties
  <2>2. QED
    BY <1>2, <2>1
<1>7. \A k \in 1 .. m : v[k] = a[k]
  <2>1. \A k \in 1 .. m : k \in 1 .. m + n
    BY <1>2
  <2>2. QED
    BY <1>2, <1>4, <1>6, <2>1
<1>8. ASSUME NEW k \in 1 .. n PROVE v[m + k] = b[k]
  <2>1. m + k \in 1 .. m + n
    BY <1>2
  <2>2. QED
    BY <1>2, <1>5, <1>6, <2>1
<1>9. v = a \o b
  <2>1. PICK T : T = Name
    OBVIOUS
  <2>2. a \in Seq(T) /\ b \in Seq(T) /\ v \in Seq(T)
    BY <1>4, <1>5, <1>6, <2>1
  <2>3. m = Len(a) /\ n = Len(b) /\ Len(v) = m + n
    BY <1>4, <1>5, <1>6
  <2>4. Joins(v, a, m, b, n)
    BY <1>7, <1>8 DEF Joins
  <2>5. QED
    BY ONLY <2>2, <2>3, <2>4, ConcatByPlaces
<1>10. QED
  BY <1>1, <1>2, <1>3, <1>9

LEMMA NamesMember ==
  ASSUME NEW s, s \in Seq(Nat), NEW i
  PROVE  <<i>> \in ToSet(Names(s)) <=> i \in ToSet(s)
<1>1. \A c : c \in ToSet(Names(s)) <=> \E j \in ToSet(s) : c = <<j>>
  BY NamesProperties
<1>2. ASSUME NEW j, <<i>> = <<j>> PROVE i = j
  <2>1. <<i>>[1] = <<j>>[1]
    BY <1>2
  <2>2. QED
    BY <2>1
<1>3. QED
  BY <1>1, <1>2

LEMMA RanNothing ==
  ASSUME NEW order, order \in Seq(Nat), NEW left, left \in Seq(Seq(Nat)), order = FlattenSeq(left)
  PROVE  Ran({}, order, <<>>, left, <<>>, <<>>)
<1>1. <<>> \in Seq(Nat) /\ <<>> \o order = order
  OBVIOUS
<1>2. Names(<<>>) = <<>>
  BY DEF Names
<1>3. Deferrals({}, Names(<<>>)) = <<>>
  BY <1>2, DeferralsNone
<1>4. QED
  BY <1>1, <1>3 DEF Ran

Begins(order, done, g, left) == order = (done \o g) \o FlattenSeq(Tail(left))

(* The group at the head: apart from those that have run. *)
LEMMA HeadOfLeft ==
  ASSUME NEW d, NEW order, OncePerPlace(order), NEW done, NEW left, left # <<>>, NEW busy, NEW buffer,
         Ran(d, order, done, left, busy, buffer), NEW g, g = Head(left)
  PROVE  /\ g \in Seq(Nat) /\ OncePerPlace(g)
         /\ done \in Seq(Nat) /\ Tail(left) \in Seq(Seq(Nat))
         /\ ToSet(g) \subseteq Nat \ ToSet(done)
         /\ Begins(order, done, g, left)
<1>1. done \in Seq(Nat) /\ left \in Seq(Seq(Nat)) /\ order = done \o FlattenSeq(left)
  BY DEF Ran
<1>2. PICK t, f : t = Tail(left) /\ f = FlattenSeq(t)
  OBVIOUS
<1>3. g \in Seq(Nat) /\ t \in Seq(Seq(Nat))
  BY <1>1, <1>2
<1>4. f \in Seq(Nat)
  <2>1. PICK l : l = Len(t)
    OBVIOUS
  <2>2. l \in Nat /\ t \in [1 .. l -> Seq(Nat)]
    BY <1>3, <2>1
  <2>3. FlattenSeq(t) \in Seq(Nat)
    BY ONLY <2>2, FlattenProperties
  <2>4. QED
    BY <1>2, <2>3
<1>5. FlattenSeq(left) = g \o f
  <2>1. left \in Seq(Seq(Nat)) /\ left # <<>>
    BY <1>1
  <2>2. FlattenSeq(left) = Head(left) \o FlattenSeq(Tail(left))
    BY ONLY <2>1, FlattenHead
  <2>3. QED
    BY <1>2, <2>2
<1>6. done \in Seq(Nat) /\ g \in Seq(Nat) /\ f \in Seq(Nat)
  BY <1>1, <1>3, <1>4
<1>7. done \o (g \o f) = (done \o g) \o f /\ done \o g \in Seq(Nat)
  BY ONLY <1>6, SMTT(30)
<1>8. OncePerPlace((done \o g) \o f)
  BY <1>1, <1>5, <1>7
<1>9. OncePerPlace(done \o g)
  <2>1. PICK s : s = done \o g
    OBVIOUS
  <2>2. s \in Seq(Nat) /\ f \in Seq(Nat) /\ OncePerPlace(s \o f)
    BY <1>4, <1>7, <1>8, <2>1
  <2>3. OncePerPlace(s)
    BY ONLY <2>2, ConcatApart
  <2>4. QED
    BY <2>1, <2>3
<1>10. OncePerPlace(g) /\ ToSet(done) \cap ToSet(g) = {}
  <2>1. done \in Seq(Nat) /\ g \in Seq(Nat) /\ OncePerPlace(done \o g)
    BY <1>6, <1>9
  <2>2. QED
    BY ONLY <2>1, ConcatApart
<1>11. ToSet(g) \subseteq Nat \ ToSet(done)
  <2>1. ToSet(g) \subseteq Nat
    BY <1>3 DEF ToSet
  <2>2. QED
    BY <1>10, <2>1
<1>12. QED
  BY <1>1, <1>2, <1>3, <1>5, <1>7, <1>10, <1>11 DEF Begins

(* A group begins: none of its systems has deferred anything. *)
LEMMA RanBegins ==
  ASSUME NEW d, WellNamed(d), NEW order, OncePerPlace(order), NEW done, NEW left, left # <<>>,
         NEW buffer, Ran(d, order, done, left, <<>>, buffer), NEW g, g = Head(left)
  PROVE  /\ Ran(d, order, done, left, g, buffer)
         /\ \A i \in ToSet(g) : ListOf(d, <<i>>) = <<>>
<1>1. /\ g \in Seq(Nat) /\ done \in Seq(Nat)
      /\ ToSet(g) \subseteq Nat \ ToSet(done)
  <2>1. /\ OncePerPlace(order) /\ left # <<>> /\ Ran(d, order, done, left, <<>>, buffer)
        /\ g = Head(left)
    OBVIOUS
  <2>2. QED
    BY ONLY <2>1, HeadOfLeft
<1>2. done \o <<>> = done
  BY <1>1
<1>3. \A c \in d : Front(c) \in ToSet(Names(done))
  BY <1>2 DEF Ran
<1>4. ToSet(Names(done \o g)) = ToSet(Names(done)) \cup ToSet(Names(g))
  <2>1. PICK a, b : a = Names(done) /\ b = Names(g)
    OBVIOUS
  <2>2. a \in Seq(Name) /\ b \in Seq(Name)
    BY <1>1, <2>1, NamesProperties
  <2>3. ToSet(a \o b) = ToSet(a) \cup ToSet(b)
    BY ONLY <2>2, ConcatMembers
  <2>4. Names(done \o g) = a \o b
    BY <1>1, <2>1, NamesConcat
  <2>5. QED
    BY <2>1, <2>3, <2>4
<1>5. Ran(d, order, done, left, g, buffer)
  BY <1>1, <1>3, <1>4 DEF Ran
<1>6. ASSUME NEW i \in ToSet(g) PROVE ListOf(d, <<i>>) = <<>>
  <2>1. i \in Nat /\ <<i>> \notin ToSet(Names(done))
    BY <1>1, NamesMember
  <2>2. CommandsOf(d, <<i>>) = {}
    BY <1>3, <2>1 DEF CommandsOf
  <2>3. CountOf(d, <<i>>) = 0
    BY <2>2, FS_EmptySet DEF CountOf
  <2>4. ListOf(d, <<i>>) = [n \in 1 .. 0 |-> Append(<<i>>, n)]
    BY <2>3 DEF ListOf
  <2>5. QED
    BY <2>4
<1>7. QED
  BY <1>5, <1>6

(* The system i of the group g, named `by', defers one more. *)
SystemDefers(d, g, i, by, new, e) ==
  /\ i \in ToSet(g) /\ by = <<i>>
  /\ new = Append(by, 1 + CountOf(d, by))
  /\ e = d \cup {new}

LEMMA RanDefers ==
  ASSUME NEW d, WellNamed(d), NEW order, OncePerPlace(order), NEW done, NEW left, left # <<>>,
         NEW buffer, NEW g, g = Head(left), Ran(d, order, done, left, g, buffer),
         NEW i, NEW by, NEW new, NEW e, SystemDefers(d, g, i, by, new, e)
  PROVE  DefersNew(d, by, new, e) /\ Ran(e, order, done, left, g, buffer)
<1>1. /\ i \in ToSet(g) /\ by = <<i>>
      /\ new = Append(by, 1 + CountOf(d, by)) /\ e = d \cup {new}
  BY DEF SystemDefers
<1>2. /\ g \in Seq(Nat) /\ done \in Seq(Nat)
      /\ ToSet(g) \subseteq Nat \ ToSet(done)
  <2>1. /\ OncePerPlace(order) /\ left # <<>> /\ Ran(d, order, done, left, g, buffer)
        /\ g = Head(left)
    OBVIOUS
  <2>2. QED
    BY ONLY <2>1, HeadOfLeft
<1>3. by \in Name /\ Len(by) = 1
  BY <1>1, <1>2 DEF Name
<1>4. DefersNew(d, by, new, e)
  BY <1>1, <1>3 DEF DefersNew
<1>5. /\ Front(new) = by
      /\ Cardinality(e) = Cardinality(d) + 1
      /\ WellNamed(e)
      /\ ListOf(e, by) = Append(ListOf(d, by), new)
      /\ OthersDeferAsBefore(d, e, by)
  BY ONLY WellNamed(d), <1>4, NewIsNew
<1>6. PICK base : base = Names(done)
  OBVIOUS
<1>7. base \in Seq(Name) /\ by \notin ToSet(base)
  BY <1>1, <1>2, <1>6, NamesProperties, NamesMember
<1>8. Deferrals(e, base) = Deferrals(d, base)
  <2>1. ASSUME NEW k \in 1 .. Len(base) PROVE ListOf(e, base[k]) = ListOf(d, base[k])
    <3>1. base[k] \in Name /\ base[k] \in ToSet(base)
      <4>1. k \in DOMAIN base
        BY <1>7
      <4>2. QED
        BY <1>7, <4>1 DEF ToSet
    <3>2. QED
      BY <1>5, <1>7, <3>1 DEF OthersDeferAsBefore
  <2>2. base \in Seq(Name) /\ \A k \in 1 .. Len(base) : ListOf(e, base[k]) = ListOf(d, base[k])
    BY <1>7, <2>1
  <2>3. QED
    BY ONLY <2>2, DeferralsSame
<1>9. by \in ToSet(Names(done \o g))
  <2>1. done \o g \in Seq(Nat) /\ ToSet(done \o g) = ToSet(done) \cup ToSet(g)
    BY <1>2, ConcatMembers
  <2>2. PICK s : s = done \o g
    OBVIOUS
  <2>3. s \in Seq(Nat) /\ i \in ToSet(s)
    BY <1>1, <2>1, <2>2
  <2>4. <<i>> \in ToSet(Names(s))
    BY <2>3, NamesMember
  <2>5. QED
    BY <1>1, <2>2, <2>4
<1>10. \A c \in e : Front(c) \in ToSet(Names(done \o g))
  BY <1>1, <1>5, <1>9 DEF Ran
<1>11. Ran(e, order, done, left, g, buffer)
  BY <1>6, <1>8, <1>10 DEF Ran
<1>12. QED
  BY <1>4, <1>11

(* The group is done, and what it deferred goes into the buffer.           *)
LEMMA RanEnds ==
  ASSUME NEW d, WellNamed(d), NEW order, OncePerPlace(order), NEW done, NEW left, left # <<>>,
         NEW buffer, NEW g, g = Head(left), Ran(d, order, done, left, g, buffer),
         NEW more, more = Deferrals(d, Names(g))
  PROVE  Ran(d, order, done \o g, Tail(left), <<>>, buffer \o more)
<1>1. /\ g \in Seq(Nat) /\ done \in Seq(Nat) /\ Tail(left) \in Seq(Seq(Nat))
      /\ Begins(order, done, g, left)
  <2>1. /\ OncePerPlace(order) /\ left # <<>> /\ Ran(d, order, done, left, g, buffer)
        /\ g = Head(left)
    OBVIOUS
  <2>2. QED
    BY ONLY <2>1, HeadOfLeft
<1>2. PICK a, b, s : a = Names(done) /\ b = Names(g) /\ s = done \o g
  OBVIOUS
<1>3. a \in Seq(Name) /\ b \in Seq(Name)
  BY <1>1, <1>2, NamesProperties
<1>4. s \in Seq(Nat) /\ Names(s) = a \o b
  BY <1>1, <1>2, NamesConcat
<1>5. Deferrals(d, a \o b) = Deferrals(d, a) \o Deferrals(d, b)
  BY ONLY WellNamed(d), <1>3, DeferralsConcat
<1>6. buffer \o more = Deferrals(d, Names(s))
  BY <1>2, <1>4, <1>5 DEF Ran
<1>7. s \o <<>> = s /\ <<>> \in Seq(Nat)
  BY <1>4
<1>8. \A c \in d : Front(c) \in ToSet(Names(s \o <<>>))
  BY <1>2, <1>7 DEF Ran
<1>9. Ran(d, order, s, Tail(left), <<>>, buffer \o more)
  BY <1>1, <1>2, <1>4, <1>6, <1>7, <1>8 DEF Ran, Begins
<1>10. QED
  BY <1>2, <1>9

(* All groups are done. *)
LEMMA RanAll ==
  ASSUME NEW d, WellNamed(d), NEW order, OncePerPlace(order), NEW done,
         NEW buffer, Ran(d, order, done, <<>>, <<>>, buffer)
  PROVE  /\ AreSystems(Names(order)) /\ buffer \in Seq(Name)
         /\ Flushes(d, Names(order), <<>>, buffer)
<1>1. done \in Seq(Nat) /\ order = done \o FlattenSeq(<<>>)
  BY DEF Ran
<1>2. done \o <<>> = done
  BY <1>1
<1>3. order = done
  BY <1>1, <1>2, FlattenNone
<1>4. PICK base : base = Names(order)
  OBVIOUS
<1>5. AreSystems(base) /\ OncePerPlace(base)
  BY <1>1, <1>3, <1>4, NamesProperties DEF AreSystems
<1>6. buffer = Deferrals(d, base) /\ \A c \in d : Front(c) \in ToSet(base)
  BY <1>2, <1>3, <1>4 DEF Ran
<1>7. Flushes(d, base, <<>>, buffer)
  BY <1>5, <1>6, FlushBegins
<1>8. buffer \in Seq(Name)
  BY <1>7 DEF Flushes
<1>9. QED
  BY <1>4, <1>5, <1>7, <1>8

-----------------------------------------------------------------------------
(* Where a stage is, for systems D with the plan p, the groups `left' and  *)
(* the commands d deferred so far.                                         *)

AreGroups(D, left) == \A g \in ToSet(left) : IsGroup(D, g)

AtNext(D, p, left, d, buffer) ==
  /\ AreGroups(D, left)
  /\ \E done : Ran(d, FlattenSeq(p), done, left, <<>>, buffer)

InExclusive(D, p, left, d, buffer, system) ==
  /\ AreGroups(D, left) /\ left # <<>>
  /\ Len(Head(left)) = 1
  /\ system = ListOf(d, Head(left))
  /\ \E done : Ran(d, FlattenSeq(p), done, left, Head(left), buffer)

InParallel(D, p, left, d, buffer, recorded) ==
  /\ AreGroups(D, left) /\ left # <<>>
  /\ recorded = [i \in Range(Head(left)) |-> ListOf(d, <<i>>)]
  /\ \E done : Ran(d, FlattenSeq(p), done, left, Head(left), buffer)

InFlush(p, d, executed, taken, buffer) ==
  /\ taken \in Seq(Name) /\ buffer \in Seq(Name)
  /\ Flushes(d, Names(FlattenSeq(p)), executed, executed \o (taken \o buffer))

LEMMA StageBegins ==
  ASSUME NEW D, D \in Seq(Descriptor), NEW p, p \in PlansOf(D), NEW left, left = Groups(D, p)
  PROVE  AtNext(D, p, left, {}, <<>>)
<1>1. PICK order : order = FlattenSeq(p)
  OBVIOUS
<1>2. order \in Seq(Nat)
  BY <1>1, PlanDistinct
<1>3. left \in Seq(Seq(Nat)) /\ AreGroups(D, left) /\ order = FlattenSeq(left)
  BY <1>1, GroupsOfPlan DEF AreGroups
<1>4. Ran({}, order, <<>>, left, <<>>, <<>>)
  BY ONLY <1>2, <1>3, RanNothing
<1>5. QED
  BY <1>1, <1>3, <1>4 DEF AtNext

LEMMA HeadIsGroup ==
  ASSUME NEW D, NEW left, left \in Seq(Seq(Nat)), left # <<>>, AreGroups(D, left)
  PROVE  IsGroup(D, Head(left)) /\ AreGroups(D, Tail(left))
<1>1. Head(left) \in ToSet(left)
  BY DEF ToSet
<1>2. ASSUME NEW g \in ToSet(Tail(left)) PROVE g \in ToSet(left)
  <2>1. PICK k \in 1 .. Len(Tail(left)) : g = Tail(left)[k]
    BY DEF ToSet
  <2>2. k + 1 \in 1 .. Len(left) /\ g = left[k + 1]
    BY <2>1
  <2>3. QED
    BY <2>2 DEF ToSet
<1>3. QED
  BY <1>1, <1>2 DEF AreGroups

LEMMA ExclusiveBegins ==
  ASSUME NEW D, D \in Seq(Descriptor), NEW p, p \in PlansOf(D), NEW d, WellNamed(d),
         NEW left, left # <<>>, NEW buffer, AtNext(D, p, left, d, buffer),
         D[Head(left)[1]].kind = "exclusive"
  PROVE  InExclusive(D, p, left, d, buffer, <<>>)
<1>1. PICK order, g : order = FlattenSeq(p) /\ g = Head(left)
  OBVIOUS
<1>2. OncePerPlace(order)
  BY <1>1, PlanDistinct
<1>3. PICK done : Ran(d, order, done, left, <<>>, buffer)
  BY <1>1 DEF AtNext
<1>4. Ran(d, order, done, left, g, buffer) /\ \A i \in ToSet(g) : ListOf(d, <<i>>) = <<>>
  <2>1. /\ WellNamed(d) /\ OncePerPlace(order) /\ left # <<>>
        /\ Ran(d, order, done, left, <<>>, buffer) /\ g = Head(left)
    BY <1>1, <1>2, <1>3
  <2>2. QED
    BY ONLY <2>1, RanBegins
<1>5. IsGroup(D, g)
  <2>1. left \in Seq(Seq(Nat)) /\ AreGroups(D, left)
    BY <1>3 DEF Ran, AtNext
  <2>2. QED
    BY <1>1, <2>1, HeadIsGroup
<1>6. Len(g) = 1 /\ g \in Seq(Nat)
  BY <1>1, <1>5 DEF IsGroup, IsBatch
<1>7. PICK i : i = g[1]
  OBVIOUS
<1>8. g = <<i>> /\ i \in ToSet(g)
  BY <1>6, <1>7 DEF ToSet
<1>9. ListOf(d, g) = <<>>
  BY <1>4, <1>8
<1>10. QED
  BY <1>1, <1>4, <1>6, <1>9 DEF InExclusive, AtNext

LEMMA ParallelBegins ==
  ASSUME NEW D, D \in Seq(Descriptor), NEW p, p \in PlansOf(D), NEW d, WellNamed(d),
         NEW left, left # <<>>, NEW buffer, AtNext(D, p, left, d, buffer),
         NEW recorded, recorded = [i \in Range(Head(left)) |-> <<>>]
  PROVE  InParallel(D, p, left, d, buffer, recorded)
<1>1. PICK order, g : order = FlattenSeq(p) /\ g = Head(left)
  OBVIOUS
<1>2. OncePerPlace(order)
  BY <1>1, PlanDistinct
<1>3. PICK done : Ran(d, order, done, left, <<>>, buffer)
  BY <1>1 DEF AtNext
<1>4. Ran(d, order, done, left, g, buffer) /\ \A i \in ToSet(g) : ListOf(d, <<i>>) = <<>>
  <2>1. /\ WellNamed(d) /\ OncePerPlace(order) /\ left # <<>>
        /\ Ran(d, order, done, left, <<>>, buffer) /\ g = Head(left)
    BY <1>1, <1>2, <1>3
  <2>2. QED
    BY ONLY <2>1, RanBegins
<1>5. ToSet(g) = Range(g)
  BY DEF ToSet, Range
<1>6. recorded = [i \in Range(g) |-> ListOf(d, <<i>>)]
  BY <1>1, <1>4, <1>5
<1>7. QED
  BY <1>1, <1>4, <1>6 DEF InParallel, AtNext

(* The groups left are those after the first. *)
LEMMA LeftAreGroups ==
  ASSUME NEW d, NEW order, NEW done, NEW left, NEW busy, NEW buffer,
         Ran(d, order, done, left, busy, buffer), left # <<>>, NEW D, AreGroups(D, left)
  PROVE  IsGroup(D, Head(left)) /\ AreGroups(D, Tail(left)) /\ Head(left) \in Seq(Nat)
<1>1. left \in Seq(Seq(Nat))
  BY DEF Ran
<1>2. IsGroup(D, Head(left)) /\ AreGroups(D, Tail(left))
  BY <1>1, HeadIsGroup
<1>3. QED
  BY <1>1, <1>2

LEMMA NewAddsOne ==
  ASSUME NEW d, WellNamed(d), NEW by, NEW new, NEW e, DefersNew(d, by, new, e)
  PROVE  /\ WellNamed(e) /\ Cardinality(e) <= Cardinality(d) + 1
         /\ ListOf(e, by) = Append(ListOf(d, by), new)
         /\ OthersDeferAsBefore(d, e, by)
<1>1. /\ WellNamed(e) /\ Cardinality(e) = Cardinality(d) + 1
      /\ ListOf(e, by) = Append(ListOf(d, by), new)
      /\ OthersDeferAsBefore(d, e, by)
  BY NewIsNew
<1>2. Cardinality(d) \in Nat
  BY FS_CardinalityType DEF WellNamed
<1>3. QED
  BY <1>1, <1>2

(* `by' defers one more. *)
Adds(d, by, new, e) == new = Append(by, 1 + CountOf(d, by)) /\ e = d \cup {new}

LEMMA ExclusiveDefers ==
  ASSUME NEW D, D \in Seq(Descriptor), NEW p, p \in PlansOf(D), NEW d, WellNamed(d),
         NEW left, NEW buffer, NEW system, InExclusive(D, p, left, d, buffer, system),
         NEW g, g = Head(left), NEW new, NEW e, Adds(d, g, new, e),
         NEW longer, longer = Append(system, new)
  PROVE  /\ WellNamed(e) /\ Cardinality(e) <= Cardinality(d) + 1
         /\ InExclusive(D, p, left, e, buffer, longer)
<1>1. PICK order : order = FlattenSeq(p)
  OBVIOUS
<1>2. OncePerPlace(order)
  BY <1>1, PlanDistinct
<1>3. PICK done : Ran(d, order, done, left, g, buffer)
  BY <1>1 DEF InExclusive
<1>4. left # <<>> /\ Len(g) = 1 /\ g \in Seq(Nat) /\ AreGroups(D, left) /\ system = ListOf(d, g)
  BY <1>1, <1>3, LeftAreGroups DEF InExclusive
<1>5. PICK i : i = g[1]
  OBVIOUS
<1>6. g = <<i>> /\ i \in ToSet(g)
  BY <1>4, <1>5 DEF ToSet
<1>7. /\ WellNamed(e) /\ Cardinality(e) <= Cardinality(d) + 1
      /\ Ran(e, order, done, left, g, buffer)
      /\ ListOf(e, g) = Append(ListOf(d, g), new)
  <2>1. /\ WellNamed(d) /\ OncePerPlace(order) /\ left # <<>> /\ g = Head(left)
        /\ Ran(d, order, done, left, g, buffer) /\ SystemDefers(d, g, i, g, new, e)
    BY <1>1, <1>2, <1>3, <1>4, <1>6 DEF SystemDefers, Adds
  <2>2. DefersNew(d, g, new, e) /\ Ran(e, order, done, left, g, buffer)
    BY ONLY <2>1, RanDefers
  <2>3. QED
    BY ONLY <2>1, <2>2, NewAddsOne
<1>8. ListOf(e, g) = Append(system, new)
  BY <1>4, <1>6, <1>7
<1>9. QED
  BY <1>1, <1>4, <1>7, <1>8 DEF InExclusive

LEMMA ParallelDefers ==
  ASSUME NEW D, D \in Seq(Descriptor), NEW p, p \in PlansOf(D), NEW d, WellNamed(d),
         NEW left, NEW buffer, NEW recorded, InParallel(D, p, left, d, buffer, recorded),
         NEW i, i \in DOMAIN recorded, NEW by, by = <<i>>, NEW new, NEW e, Adds(d, by, new, e),
         NEW longer, longer = [recorded EXCEPT ![i] = Append(@, new)]
  PROVE  /\ WellNamed(e) /\ Cardinality(e) <= Cardinality(d) + 1
         /\ InParallel(D, p, left, e, buffer, longer)
<1>1. PICK order, g : order = FlattenSeq(p) /\ g = Head(left)
  OBVIOUS
<1>2. OncePerPlace(order)
  BY <1>1, PlanDistinct
<1>3. PICK done : Ran(d, order, done, left, g, buffer)
  BY <1>1 DEF InParallel
<1>4. /\ left # <<>> /\ g \in Seq(Nat) /\ AreGroups(D, left)
      /\ recorded = [j \in Range(g) |-> ListOf(d, <<j>>)]
  BY <1>1, <1>3, LeftAreGroups DEF InParallel
<1>5. i \in ToSet(g) /\ Range(g) = ToSet(g) /\ ToSet(g) \subseteq Nat
  BY <1>4 DEF ToSet, Range
<1>6. /\ WellNamed(e) /\ Cardinality(e) <= Cardinality(d) + 1
      /\ Ran(e, order, done, left, g, buffer)
      /\ ListOf(e, by) = Append(ListOf(d, by), new)
      /\ OthersDeferAsBefore(d, e, by)
  <2>1. /\ WellNamed(d) /\ OncePerPlace(order) /\ left # <<>> /\ g = Head(left)
        /\ Ran(d, order, done, left, g, buffer) /\ SystemDefers(d, g, i, by, new, e)
    BY <1>1, <1>2, <1>3, <1>4, <1>5 DEF SystemDefers, Adds
  <2>2. DefersNew(d, by, new, e) /\ Ran(e, order, done, left, g, buffer)
    BY ONLY <2>1, RanDefers
  <2>3. QED
    BY ONLY <2>1, <2>2, NewAddsOne
<1>7. ASSUME NEW j \in Range(g), j # i PROVE ListOf(e, <<j>>) = ListOf(d, <<j>>)
  <2>1. <<j>> \in Name /\ <<j>> # by
    BY <1>1, <1>5, <1>7 DEF Name
  <2>2. QED
    BY <1>6, <2>1 DEF OthersDeferAsBefore
<1>8. [recorded EXCEPT ![i] = Append(@, new)] = [j \in Range(g) |-> ListOf(e, <<j>>)]
  BY <1>1, <1>4, <1>5, <1>6, <1>7
<1>9. QED
  BY <1>1, <1>4, <1>6, <1>8 DEF InParallel

(* A group ends, with what its systems deferred.                           *)
LEMMA GroupEnds ==
  ASSUME NEW D, D \in Seq(Descriptor), NEW p, p \in PlansOf(D), NEW d, WellNamed(d),
         NEW left, left # <<>>, NEW done, NEW buffer,
         Ran(d, FlattenSeq(p), done, left, Head(left), buffer), AreGroups(D, left),
         NEW more, more = Deferrals(d, Names(Head(left)))
  PROVE  AtNext(D, p, Tail(left), d, buffer \o more)
<1>1. PICK order, g : order = FlattenSeq(p) /\ g = Head(left)
  OBVIOUS
<1>2. OncePerPlace(order)
  BY <1>1, PlanDistinct
<1>3. Ran(d, order, done \o g, Tail(left), <<>>, buffer \o more)
  <2>1. /\ WellNamed(d) /\ OncePerPlace(order) /\ left # <<>> /\ g = Head(left)
        /\ Ran(d, order, done, left, g, buffer) /\ more = Deferrals(d, Names(g))
    BY <1>1, <1>2
  <2>2. QED
    BY ONLY <2>1, RanEnds
<1>4. AreGroups(D, Tail(left))
  BY LeftAreGroups
<1>5. QED
  BY <1>1, <1>3, <1>4 DEF AtNext

LEMMA ExclusiveEnds ==
  ASSUME NEW D, D \in Seq(Descriptor), NEW p, p \in PlansOf(D), NEW d, WellNamed(d),
         NEW left, NEW buffer, NEW system, InExclusive(D, p, left, d, buffer, system)
  PROVE  AtNext(D, p, Tail(left), d, buffer \o system)
<1>1. PICK g : g = Head(left)
  OBVIOUS
<1>2. PICK done : Ran(d, FlattenSeq(p), done, left, g, buffer)
  BY <1>1 DEF InExclusive
<1>3. left # <<>> /\ Len(g) = 1 /\ g \in Seq(Nat) /\ AreGroups(D, left) /\ system = ListOf(d, g)
  BY <1>1, <1>2, LeftAreGroups DEF InExclusive
<1>4. g \in Name /\ Names(g) = <<g>>
  <2>1. PICK i : i = g[1]
    OBVIOUS
  <2>2. g = <<i>>
    BY <1>3, <2>1
  <2>3. Names(<<i>>) = << <<i>> >>
    BY DEF Names
  <2>4. QED
    BY <1>3, <2>2, <2>3 DEF Name
<1>5. system = Deferrals(d, Names(g))
  BY <1>3, <1>4, DeferralsOne
<1>6. QED
  BY <1>1, <1>2, <1>3, <1>5, GroupEnds

LEMMA ParallelEnds ==
  ASSUME NEW D, D \in Seq(Descriptor), NEW p, p \in PlansOf(D), NEW d, WellNamed(d),
         NEW left, NEW buffer, NEW recorded, InParallel(D, p, left, d, buffer, recorded),
         NEW g, g = Head(left),
         NEW more, more = FlattenSeq([k \in DOMAIN g |-> recorded[g[k]]])
  PROVE  AtNext(D, p, Tail(left), d, buffer \o more)
<1>1. PICK done : Ran(d, FlattenSeq(p), done, left, g, buffer)
  BY DEF InParallel
<1>2. /\ left # <<>> /\ g \in Seq(Nat) /\ AreGroups(D, left)
      /\ recorded = [j \in Range(g) |-> ListOf(d, <<j>>)]
  BY <1>1, LeftAreGroups DEF InParallel
<1>3. PICK q : q = Names(g)
  OBVIOUS
<1>4. DOMAIN q = DOMAIN g /\ \A k \in DOMAIN g : q[k] = <<g[k]>>
  BY <1>3 DEF Names
<1>5. \A k \in DOMAIN g : recorded[g[k]] = ListOf(d, q[k])
  BY <1>2, <1>4 DEF Range
<1>6. more = Deferrals(d, q)
  BY <1>4, <1>5 DEF Deferrals
<1>7. QED
  BY <1>1, <1>2, <1>3, <1>6, GroupEnds

-----------------------------------------------------------------------------
(* The flush of a stage.                                                   *)

LEMMA PlanSystems ==
  ASSUME NEW D, D \in Seq(Descriptor), NEW p, p \in PlansOf(D), NEW base, base = Names(FlattenSeq(p))
  PROVE  AreSystems(base)
<1>1. PICK order : order = FlattenSeq(p)
  OBVIOUS
<1>2. order \in Seq(Nat)
  BY <1>1, PlanDistinct
<1>3. QED
  BY <1>1, <1>2, NamesProperties DEF AreSystems

LEMMA FlushStarts ==
  ASSUME NEW D, D \in Seq(Descriptor), NEW p, p \in PlansOf(D), NEW d, WellNamed(d),
         NEW buffer, AtNext(D, p, <<>>, d, buffer)
  PROVE  InFlush(p, d, <<>>, <<>>, buffer)
<1>1. PICK order, none : order = FlattenSeq(p) /\ none = <<>>
  OBVIOUS
<1>2. OncePerPlace(order)
  BY <1>1, PlanDistinct
<1>3. PICK done : Ran(d, order, done, <<>>, <<>>, buffer)
  BY <1>1 DEF AtNext
<1>4. buffer \in Seq(Name) /\ Flushes(d, Names(order), <<>>, buffer)
  BY <1>2, <1>3, RanAll
<1>5. none \in Seq(Name) /\ none \o (none \o buffer) = buffer
  BY <1>1, <1>4
<1>6. QED
  BY <1>1, <1>4, <1>5 DEF InFlush

LEMMA StageTaken ==
  ASSUME NEW p, NEW d, NEW executed, NEW buffer, InFlush(p, d, executed, <<>>, buffer)
  PROVE  InFlush(p, d, executed, buffer, <<>>)
<1>1. buffer \in Seq(Name) /\ <<>> \in Seq(Name)
  BY DEF InFlush
<1>2. <<>> \o buffer = buffer \o <<>>
  BY <1>1
<1>3. QED
  BY <1>1, <1>2 DEF InFlush

(* The command at the head of those taken is executed. *)
HeadExecutes(executed, rest, taken, buffer, one, after, left) ==
  /\ executed \in Seq(Name) /\ taken \in Seq(Name) /\ buffer \in Seq(Name) /\ taken # <<>>
  /\ rest = taken \o buffer
  /\ one = <<Head(taken)>> /\ after = executed \o one /\ left = Tail(taken)

Moved(executed, rest, taken, buffer, one, after, left) ==
  /\ Head(taken) \in Name /\ Head(taken) \in ToSet(rest) /\ one \in Seq(Name)
  /\ after \in Seq(Name) /\ left \in Seq(Name) /\ rest \in Seq(Name)
  /\ executed \o rest = after \o (left \o buffer)

LEMMA HeadMoves ==
  ASSUME NEW s, NEW rest, NEW taken, NEW buffer, NEW one, NEW after, NEW left,
         HeadExecutes(s, rest, taken, buffer, one, after, left)
  PROVE  Moved(s, rest, taken, buffer, one, after, left)
<1> USE DEF HeadExecutes
<1>1. PICK T, t, c : T = Name /\ t = Tail(taken) /\ c = Head(taken)
  OBVIOUS
<1>2. /\ s \in Seq(T) /\ taken \in Seq(T) /\ buffer \in Seq(T) /\ t \in Seq(T)
      /\ c \in T /\ one \in Seq(T) /\ taken = one \o t
  BY <1>1
<1>3. taken \o buffer = one \o (t \o buffer) /\ taken \o buffer \in Seq(T)
  BY ONLY <1>2, SMTT(30)
<1>4. t \o buffer \in Seq(T) /\ s \o one \in Seq(T)
  BY ONLY <1>2, SMTT(30)
<1>5. s \o (one \o (t \o buffer)) = (s \o one) \o (t \o buffer)
  BY ONLY <1>2, <1>4, SMTT(30)
<1>6. c \in ToSet(rest)
  <2>1. c \in ToSet(taken)
    <3>1. 1 \in DOMAIN taken /\ taken[1] = c
      BY <1>1, <1>2
    <3>2. QED
      BY <3>1 DEF ToSet
  <2>2. taken \in Seq(T) /\ buffer \in Seq(T)
    BY <1>2
  <2>3. ToSet(taken \o buffer) = ToSet(taken) \cup ToSet(buffer)
    BY ONLY <2>2, ConcatMembers
  <2>4. QED
    BY <2>1, <2>3
<1>7. QED
  BY <1>1, <1>2, <1>3, <1>4, <1>5, <1>6 DEF Moved

LEMMA AppendIsConcat ==
  ASSUME NEW s, s \in Seq(Name), NEW x, x \in Name
  PROVE  Append(s, x) = s \o <<x>> /\ Append(s, x) \in Seq(Name)
<1>1. PICK T : T = Name
  OBVIOUS
<1>2. s \in Seq(T) /\ x \in T
  BY <1>1
<1>3. Append(s, x) = s \o <<x>> /\ Append(s, x) \in Seq(T)
  BY ONLY <1>2
<1>4. QED
  BY <1>1, <1>3

LEMMA CommandExecutes ==
  ASSUME NEW p, NEW base, base = Names(FlattenSeq(p)), AreSystems(base), NEW d, WellNamed(d),
         NEW executed, NEW taken, taken # <<>>, NEW buffer, InFlush(p, d, executed, taken, buffer),
         NEW c, c = Head(taken)
  PROVE  InFlush(p, d, Append(executed, c), Tail(taken), buffer)
<1>1. PICK rest, q, one : rest = taken \o buffer /\ q = executed \o rest /\ one = <<c>>
  OBVIOUS
<1>2. /\ executed \in Seq(Name) /\ taken \in Seq(Name) /\ buffer \in Seq(Name)
      /\ Flushes(d, base, executed, q)
  BY <1>1 DEF InFlush, Flushes
<1>3. /\ c \in Name /\ c \in ToSet(rest) /\ one \in Seq(Name) /\ executed \o one \in Seq(Name)
      /\ Tail(taken) \in Seq(Name) /\ rest \in Seq(Name)
      /\ q = (executed \o one) \o (Tail(taken) \o buffer)
  <2>1. PICK after, left : after = executed \o one /\ left = Tail(taken)
    OBVIOUS
  <2>2. HeadExecutes(executed, rest, taken, buffer, one, after, left)
    BY <1>1, <1>2, <2>1 DEF HeadExecutes
  <2>3. Moved(executed, rest, taken, buffer, one, after, left)
    BY ONLY <2>2, HeadMoves
  <2>4. QED
    BY <1>1, <2>1, <2>3 DEF Moved
<1>4. Flushes(d, base, executed \o one, q)
  <2>1. /\ WellNamed(d) /\ AreSystems(base) /\ rest \in Seq(Name) /\ q = executed \o rest
        /\ Flushes(d, base, executed, q) /\ c \in ToSet(rest)
    BY <1>1, <1>2, <1>3
  <2>2. Flushes(d, base, executed \o <<c>>, q)
    BY ONLY <2>1, FlushExecutes
  <2>3. QED
    BY <1>1, <2>2
<1>5. Append(executed, c) = executed \o one
  BY <1>1, <1>2, <1>3, AppendIsConcat
<1>6. QED
  BY <1>2, <1>3, <1>4, <1>5 DEF InFlush

LEMMA CommandDefers ==
  ASSUME NEW p, NEW base, base = Names(FlattenSeq(p)), AreSystems(base), NEW d, WellNamed(d),
         NEW executed, NEW taken, taken # <<>>, NEW buffer, InFlush(p, d, executed, taken, buffer),
         NEW c, c = Head(taken), NEW new, new = Append(c, 1 + CountOf(d, c)), NEW e, e = d \cup {new}
  PROVE  /\ WellNamed(e) /\ Cardinality(e) <= Cardinality(d) + 1
         /\ InFlush(p, e, Append(executed, c), Tail(taken), Append(buffer, new))
<1>1. PICK rest, q, one, last : /\ rest = taken \o buffer /\ q = executed \o rest
                                /\ one = <<c>> /\ last = <<new>>
  OBVIOUS
<1>2. /\ executed \in Seq(Name) /\ taken \in Seq(Name) /\ buffer \in Seq(Name)
      /\ Flushes(d, base, executed, q)
  BY <1>1 DEF InFlush, Flushes
<1>3. /\ c \in Name /\ c \in ToSet(rest) /\ one \in Seq(Name) /\ executed \o one \in Seq(Name)
      /\ Tail(taken) \in Seq(Name) /\ rest \in Seq(Name)
      /\ q = (executed \o one) \o (Tail(taken) \o buffer)
  <2>1. PICK after, left : after = executed \o one /\ left = Tail(taken)
    OBVIOUS
  <2>2. HeadExecutes(executed, rest, taken, buffer, one, after, left)
    BY <1>1, <1>2, <2>1 DEF HeadExecutes
  <2>3. Moved(executed, rest, taken, buffer, one, after, left)
    BY ONLY <2>2, HeadMoves
  <2>4. QED
    BY <1>1, <2>1, <2>3 DEF Moved
<1>4. WellNamed(e) /\ Flushes(e, base, executed \o one, q \o last)
  <2>1. /\ WellNamed(d) /\ AreSystems(base) /\ rest \in Seq(Name) /\ q = executed \o rest
        /\ Flushes(d, base, executed, q) /\ c \in ToSet(rest)
        /\ new = Append(c, 1 + CountOf(d, c)) /\ e = d \cup {new}
    BY <1>1, <1>2, <1>3
  <2>2. WellNamed(e) /\ Flushes(e, base, executed \o <<c>>, q \o <<new>>)
    BY ONLY <2>1, FlushDefers
  <2>3. QED
    BY <1>1, <2>2
<1>5. new \in Name /\ last \in Seq(Name)
  <2>1. CountOf(d, c) \in Nat
    BY CommandsFinite DEF WellNamed
  <2>2. 1 + CountOf(d, c) \in Nat
    BY <2>1
  <2>3. new \in Name
    BY <1>3, <2>2, FrontOfAppend
  <2>4. QED
    BY <1>1, <2>3
<1>6. /\ Append(executed, c) = executed \o one /\ executed \o one \in Seq(Name)
      /\ Append(buffer, new) = buffer \o last /\ buffer \o last \in Seq(Name)
  <2>1. Append(executed, c) = executed \o <<c>>
    BY <1>2, <1>3, AppendIsConcat
  <2>2. Append(buffer, new) = buffer \o <<new>> /\ Append(buffer, new) \in Seq(Name)
    <3>1. buffer \in Seq(Name) /\ new \in Name
      BY <1>2, <1>5
    <3>2. QED
      BY ONLY <3>1, AppendIsConcat
  <2>3. QED
    BY <1>1, <1>3, <2>1, <2>2
<1>7. q \o last = (executed \o one) \o (Tail(taken) \o (buffer \o last))
  <2>1. PICK T, s, t : T = Name /\ s = executed \o one /\ t = Tail(taken)
    OBVIOUS
  <2>2. s \in Seq(T) /\ t \in Seq(T) /\ buffer \in Seq(T) /\ last \in Seq(T)
    BY <1>2, <1>3, <1>5, <1>6, <2>1
  <2>3. t \o buffer \in Seq(T) /\ (t \o buffer) \o last = t \o (buffer \o last)
    BY ONLY <2>2, SMTT(30)
  <2>4. (s \o (t \o buffer)) \o last = s \o ((t \o buffer) \o last)
    BY ONLY <2>2, <2>3, SMTT(30)
  <2>5. QED
    BY <1>3, <2>1, <2>3, <2>4
<1>8. Cardinality(e) <= Cardinality(d) + 1
  <2>1. IsFiniteSet(d)
    BY DEF WellNamed
  <2>2. Cardinality(d) \in Nat /\ (Cardinality(e) = Cardinality(d) \/ Cardinality(e) = Cardinality(d) + 1)
    BY <2>1, FS_CardinalityType, FS_AddElement
  <2>3. QED
    BY <2>2
<1>9. QED
  BY <1>3, <1>4, <1>6, <1>7, <1>8 DEF InFlush

(* What is executed, taken and buffered is the levels. *)
LEMMA FlushIsLevels ==
  ASSUME descriptors \in Seq(Descriptor), plan \in PlansOf(descriptors),
         WellNamed(deferred), Cardinality(deferred) <= MaxCommands,
         InFlush(plan, deferred, applied, flushing, stageBuffer)
  PROVE  applied \o flushing \o stageBuffer = Levels
<1>1. PICK order, base, d, q, first :
        /\ order = FlattenSeq(plan) /\ base = Names(order) /\ d = deferred
        /\ q = applied \o (flushing \o stageBuffer) /\ first = Deferrals(d, base)
  OBVIOUS
<1>2. order \in Seq(Nat) /\ AreSystems(base)
  BY <1>1, PlanDistinct, PlanSystems
<1>3. applied \in Seq(Name) /\ flushing \in Seq(Name) /\ stageBuffer \in Seq(Name)
  BY DEF InFlush, Flushes
<1>4. flushing \o stageBuffer \in Seq(Name) /\ q = applied \o flushing \o stageBuffer
  <2>1. PICK T, a, f, b : T = Name /\ a = applied /\ f = flushing /\ b = stageBuffer
    OBVIOUS
  <2>2. a \in Seq(T) /\ f \in Seq(T) /\ b \in Seq(T)
    BY <1>3, <2>1
  <2>3. f \o b \in Seq(T) /\ (a \o f) \o b = a \o (f \o b)
    BY ONLY <2>2
  <2>4. QED
    BY <1>1, <2>1, <2>3
<1>5. Flushes(d, base, applied, q)
  BY <1>1 DEF InFlush
<1>6. q = first \o Deferrals(d, q)
  <2>1. PICK rest : rest = flushing \o stageBuffer
    OBVIOUS
  <2>2. /\ WellNamed(d) /\ AreSystems(base) /\ rest \in Seq(Name) /\ q = applied \o rest
        /\ Flushes(d, base, applied, q)
    BY <1>1, <1>2, <1>4, <1>5, <2>1
  <2>3. q = Deferrals(d, base) \o Deferrals(d, q)
    BY ONLY <2>2, FlushClosed
  <2>4. QED
    BY <1>1, <2>3
<1>7. q \in Seq(Name) /\ ToSet(q) \subseteq d
  BY <1>5 DEF Flushes
<1>8. first \in Seq(Name)
  BY <1>1, <1>2, DeferralsType DEF AreSystems
<1>9. PICK level \in [1 .. MaxCommands -> Seq(Name)] :
        AreLevels(level, d, first, MaxCommands) /\ Levels = FlattenSeq(level)
  BY <1>1, <1>2, LevelsAre
<1>10. FlattenSeq(level) = q
  <2>1. PICK m : m = MaxCommands
    OBVIOUS
  <2>2. /\ WellNamed(d) /\ q \in Seq(Name) /\ first \in Seq(Name)
        /\ q = first \o Deferrals(d, q) /\ ToSet(q) \subseteq d
        /\ m \in Nat /\ Cardinality(d) <= m
        /\ level \in [1 .. m -> Seq(Name)] /\ AreLevels(level, d, first, m)
    BY <1>1, <1>6, <1>7, <1>8, <1>9, <2>1, BoundsAssumption
  <2>3. QED
    BY ONLY <2>2, LevelsFlatten
<1>11. QED
  BY <1>4, <1>9, <1>10

(* The commands of a flush were deferred by systems, or by their commands. *)
LEMMA NoneOfHost ==
  ASSUME descriptors \in Seq(Descriptor), plan \in PlansOf(descriptors),
         WellNamed(deferred), InFlush(plan, deferred, applied, flushing, stageBuffer),
         NEW q, q = applied \o (flushing \o stageBuffer)
  PROVE  q \in Seq(Name) /\ \A k \in 1 .. Len(q) : q[k][1] # Host
<1>1. PICK order, base, d, N : /\ order = FlattenSeq(plan) /\ base = Names(order)
                               /\ d = deferred /\ N = Cardinality(d) + 1
  OBVIOUS
<1>2. order \in Seq(Nat) /\ AreSystems(base)
  BY <1>1, PlanDistinct, PlanSystems
<1>3. Flushes(d, base, applied, q)
  BY <1>1 DEF InFlush
<1>4. N \in Nat
  BY <1>1, FS_CardinalityType DEF WellNamed
<1>5. ASSUME NEW c \in ToSet(base) PROVE Len(c) = 1 /\ c[1] # Host
  <2>1. PICK i \in ToSet(order) : c = <<i>>
    BY <1>1, <1>2, NamesProperties
  <2>2. i \in 1 .. Len(descriptors)
    <3>1. Covers(descriptors, plan)
      BY BatchesOfPlan
    <3>2. Range(order) = DOMAIN descriptors
      BY <1>1, <3>1 DEF Covers
    <3>3. DOMAIN descriptors = 1 .. Len(descriptors)
      OBVIOUS
    <3>4. QED
      BY <3>2, <3>3 DEF Range, ToSet
  <2>3. QED
    BY <2>1, <2>2 DEF Host
<1>6. ASSUME NEW c \in d
      PROVE  /\ Len(c) \in 2 .. N /\ Len(Front(c)) = Len(c) - 1 /\ Front(c)[1] = c[1]
             /\ Front(c) \in d \/ Front(c)[1] # Host
  <2>1. c \in Seq(Nat) /\ Len(c) \in 2 .. N
    BY <1>1 DEF WellNamed, Name
  <2>2. Len(Front(c)) = Len(c) - 1 /\ Front(c)[1] = c[1]
    BY <2>1 DEF Front
  <2>3. Front(c) \in ToSet(base) \cup ToSet(applied)
    <3>1. base \in Seq(Name) /\ applied \in Seq(Name) /\ Front(c) \in ToSet(base \o applied)
      BY <1>2, <1>3 DEF AreSystems, Flushes
    <3>2. QED
      BY <3>1, ConcatMembers
  <2>4. ToSet(applied) \subseteq d
    <3>1. PICK T, a, rest : T = Name /\ a = applied /\ rest = flushing \o stageBuffer
      OBVIOUS
    <3>2. a \in Seq(T) /\ rest \in Seq(T) /\ q = a \o rest
      <4>1. PICK f, b : f = flushing /\ b = stageBuffer
        OBVIOUS
      <4>2. f \in Seq(T) /\ b \in Seq(T)
        BY <3>1, <4>1 DEF InFlush
      <4>3. f \o b \in Seq(T)
        BY ONLY <4>2
      <4>4. QED
        BY <1>3, <3>1, <4>1, <4>3 DEF Flushes
    <3>3. ToSet(q) = ToSet(a) \cup ToSet(rest)
      BY ONLY <3>2, ConcatMembers
    <3>4. QED
      BY <1>3, <3>1, <3>3 DEF Flushes
  <2>5. QED
    BY <1>5, <2>1, <2>2, <2>3, <2>4
<1> DEFINE Room == {m \in 0 .. N : \E c \in d : c[1] = Host /\ m = N - Len(c)}
<1>7. ASSUME NEW b \in d, b[1] = Host PROVE FALSE
  <2>1. Room # {} /\ Room \in SUBSET (0 .. N)
    <3>1. N - Len(b) \in 0 .. N
      BY <1>4, <1>6
    <3>2. QED
      BY <1>7, <3>1
  <2>2. PICK m \in Room : \A k \in Room : k <= m
    <3> HIDE DEF Room
    <3>1. QED
      BY <1>4, <2>1, GreatestIndex
  <2>3. PICK c \in d : c[1] = Host /\ m = N - Len(c)
    OBVIOUS
  <2>4. Front(c) \in d /\ Front(c)[1] = Host /\ Len(Front(c)) = Len(c) - 1 /\ Len(c) \in 2 .. N
    BY <1>6, <2>3
  <2>5. PICK l : l = N - Len(Front(c))
    OBVIOUS
  <2>6. l \in 0 .. N /\ l = m + 1 /\ m \in Nat
    BY <1>4, <2>3, <2>4, <2>5
  <2>7. l \in Room
    BY <2>4, <2>5, <2>6
  <2>8. QED
    BY <2>2, <2>6, <2>7
<1>8. q \in Seq(Name) /\ ToSet(q) \subseteq d
  BY <1>3 DEF Flushes
<1>9. \A k \in 1 .. Len(q) : q[k] \in d
  BY <1>8 DEF ToSet
<1>10. QED
  BY <1>7, <1>8, <1>9

-----------------------------------------------------------------------------
(* FlushInv.                                                               *)

(* What is deferred and what of it is in which buffer, phase by phase.     *)
FlushInv ==
  /\ WellNamed(deferred) /\ Cardinality(deferred) <= MaxCommands
  /\ phase = "enter" => deferred = {}
  /\ phase # "flush" => applied = <<>>
  /\ phase \in {"next", "parallel", "flush"} => ~collectingSystem
  /\ phase = "next" => AtNext(descriptors, plan, todo, deferred, stageBuffer)
  /\ phase = "exclusive" =>
       InExclusive(descriptors, plan, todo, deferred, stageBuffer, systemBuffer)
  /\ phase = "parallel" =>
       InParallel(descriptors, plan, todo, deferred, stageBuffer, recorders)
  /\ phase = "flush" => InFlush(plan, deferred, applied, flushing, stageBuffer)

LEMMA NothingDeferred == WellNamed({}) /\ Cardinality({}) = 0
<1>1. IsFiniteSet({}) /\ Cardinality({}) = 0
  BY FS_EmptySet
<1>2. ASSUME NEW by \in Name PROVE CommandsOf({}, by) = {Append(by, n) : n \in 1 .. CountOf({}, by)}
  <2>1. CommandsOf({}, by) = {}
    BY DEF CommandsOf
  <2>2. CountOf({}, by) = 0
    BY <1>1, <2>1 DEF CountOf
  <2>3. 1 .. 0 = {}
    OBVIOUS
  <2>4. QED
    BY <2>1, <2>2, <2>3
<1>3. QED
  BY <1>1, <1>2 DEF WellNamed

LEMMA OutsideFlush ==
  ASSUME phase' = "enter", deferred' = {}, applied' = <<>>
  PROVE  FlushInv'
<1>1. WellNamed(deferred') /\ Cardinality(deferred') <= MaxCommands
  BY NothingDeferred, BoundsAssumption
<1>2. QED
  BY <1>1 DEF FlushInv

(* What a running stage has: systems, a plan of them, commands within the  *)
(* bound.                                                                  *)
LEMMA InStage ==
  ASSUME PlanInv, FlushInv, phase # "enter"
  PROVE  /\ descriptors \in Seq(Descriptor) /\ plan \in PlansOf(descriptors)
         /\ WellNamed(deferred) /\ Cardinality(deferred) <= MaxCommands
         /\ Cardinality(deferred) \in Nat
<1>1. IsFiniteSet(deferred)
  BY DEF FlushInv, WellNamed
<1>2. QED
  BY <1>1, FS_CardinalityType DEF PlanInv, FlushInv

LEMMA StillWithinBound ==
  ASSUME NEW d, Cardinality(d) \in Nat, Cardinality(d) < MaxCommands,
         NEW e, WellNamed(e), Cardinality(e) <= Cardinality(d) + 1
  PROVE  Cardinality(e) <= MaxCommands
<1>1. Cardinality(e) \in Nat
  BY FS_CardinalityType DEF WellNamed
<1>2. QED
  BY <1>1, BoundsAssumption

LEMMA BeginStageKeepsFlush ==
  ASSUME FlushInv, PlanInv', BeginStage
  PROVE  FlushInv'
<1>1. /\ phase = "enter" /\ phase' = "next" /\ ~collectingSystem'
      /\ stageBuffer' = <<>> /\ todo' = Groups(descriptors', plan')
      /\ deferred' = deferred /\ applied' = applied
  BY DEF BeginStage, TakeSystems, BeginStageCommands, history
<1>2. deferred = {} /\ applied = <<>>
  BY <1>1 DEF FlushInv
<1>3. PICK D, p, left : D = descriptors' /\ p = plan' /\ left = todo'
  OBVIOUS
<1>4. D \in Seq(Descriptor) /\ p \in PlansOf(D)
  BY <1>1, <1>3 DEF PlanInv
<1>5. AtNext(D, p, left, {}, <<>>)
  BY <1>1, <1>3, <1>4, StageBegins
<1>6. AtNext(descriptors', plan', todo', deferred', stageBuffer')
  BY <1>1, <1>2, <1>3, <1>5
<1>7. WellNamed(deferred') /\ Cardinality(deferred') <= MaxCommands
  BY <1>1 DEF FlushInv
<1>8. QED
  BY <1>1, <1>2, <1>6, <1>7 DEF FlushInv

LEMMA BeginGroupKeepsFlush ==
  ASSUME PlanInv, FlushInv, BeginExclusive \/ BeginParallel
  PROVE  FlushInv'
<1>1. /\ phase = "next" /\ todo # <<>>
      /\ UNCHANGED <<descriptors, plan, todo, deferred, applied, stageBuffer>>
  BY DEF BeginExclusive, BeginParallel, commands, history
<1>2. /\ descriptors \in Seq(Descriptor) /\ plan \in PlansOf(descriptors)
      /\ WellNamed(deferred) /\ Cardinality(deferred) <= MaxCommands
  BY <1>1, InStage
<1>3. AtNext(descriptors, plan, todo, deferred, stageBuffer) /\ applied = <<>> /\ ~collectingSystem
  BY <1>1 DEF FlushInv
<1>4. CASE BeginExclusive
  <2>1. descriptors[Head(todo)[1]].kind = "exclusive" /\ phase' = "exclusive" /\ systemBuffer' = <<>>
    BY <1>4 DEF BeginExclusive
  <2>2. InExclusive(descriptors, plan, todo, deferred, stageBuffer, <<>>)
    BY <1>1, <1>2, <1>3, <2>1, ExclusiveBegins
  <2>3. QED
    BY <1>1, <1>2, <1>3, <2>1, <2>2 DEF FlushInv
<1>5. CASE BeginParallel
  <2>1. /\ recorders' = [i \in Range(Head(todo)) |-> <<>>] /\ phase' = "parallel"
        /\ collectingSystem' = collectingSystem
    BY <1>5 DEF BeginParallel, commands
  <2>2. PICK recorded : recorded = [i \in Range(Head(todo)) |-> <<>>]
    OBVIOUS
  <2>3. InParallel(descriptors, plan, todo, deferred, stageBuffer, recorded)
    BY <1>1, <1>2, <1>3, <2>2, ParallelBegins
  <2>4. QED
    BY <1>1, <1>2, <1>3, <2>1, <2>2, <2>3 DEF FlushInv
<1>6. QED
  BY <1>4, <1>5

LEMMA DeferKeepsFlush ==
  ASSUME PlanInv, FlushInv, Defer
  PROVE  FlushInv'
<1>1. PICK g, new, e, longer :
        /\ g = Head(todo) /\ new = Append(g, 1 + CountOf(deferred, g))
        /\ e = deferred \cup {new} /\ longer = Append(systemBuffer, new)
  OBVIOUS
<1>2. /\ phase = "exclusive" /\ systemBuffer' = longer /\ deferred' = e
      /\ Cardinality(deferred) < MaxCommands
      /\ UNCHANGED <<phase, descriptors, plan, todo, applied, stageBuffer>>
  BY <1>1 DEF Defer, NewCommand, RoomForCommand, CountOf, CommandsOf, run
<1>3. /\ descriptors \in Seq(Descriptor) /\ plan \in PlansOf(descriptors)
      /\ WellNamed(deferred) /\ Cardinality(deferred) \in Nat
  BY <1>2, InStage
<1>4. InExclusive(descriptors, plan, todo, deferred, stageBuffer, systemBuffer) /\ applied = <<>>
  BY <1>2 DEF FlushInv
<1>5. /\ WellNamed(e) /\ Cardinality(e) <= Cardinality(deferred) + 1
      /\ InExclusive(descriptors, plan, todo, e, stageBuffer, longer)
  <2>1. /\ descriptors \in Seq(Descriptor) /\ plan \in PlansOf(descriptors) /\ WellNamed(deferred)
        /\ InExclusive(descriptors, plan, todo, deferred, stageBuffer, systemBuffer)
        /\ g = Head(todo) /\ Adds(deferred, g, new, e) /\ longer = Append(systemBuffer, new)
    BY <1>1, <1>3, <1>4 DEF Adds
  <2>2. QED
    BY ONLY <2>1, ExclusiveDefers
<1>6. Cardinality(e) <= MaxCommands
  BY <1>2, <1>3, <1>5, StillWithinBound
<1>7. QED
  BY <1>2, <1>4, <1>5, <1>6 DEF FlushInv

LEMMA RecordKeepsFlush ==
  ASSUME PlanInv, FlushInv, NEW i, Record(i)
  PROVE  FlushInv'
<1>1. PICK by, new, e, longer :
        /\ by = <<i>> /\ new = Append(by, 1 + CountOf(deferred, by))
        /\ e = deferred \cup {new} /\ longer = [recorders EXCEPT ![i] = Append(@, new)]
  OBVIOUS
<1>2. /\ phase = "parallel" /\ i \in DOMAIN recorders /\ deferred' = e
      /\ recorders' = longer
      /\ Cardinality(deferred) < MaxCommands
      /\ UNCHANGED <<phase, descriptors, plan, todo, applied, stageBuffer, collectingSystem>>
  BY <1>1 DEF Record, Running, NewCommand, RoomForCommand, CountOf, CommandsOf, run, commands
<1>3. /\ descriptors \in Seq(Descriptor) /\ plan \in PlansOf(descriptors)
      /\ WellNamed(deferred) /\ Cardinality(deferred) \in Nat
  BY <1>2, InStage
<1>4. /\ InParallel(descriptors, plan, todo, deferred, stageBuffer, recorders)
      /\ applied = <<>> /\ ~collectingSystem
  BY <1>2 DEF FlushInv
<1>5. /\ WellNamed(e) /\ Cardinality(e) <= Cardinality(deferred) + 1
      /\ InParallel(descriptors, plan, todo, e, stageBuffer, longer)
  <2>1. /\ descriptors \in Seq(Descriptor) /\ plan \in PlansOf(descriptors) /\ WellNamed(deferred)
        /\ InParallel(descriptors, plan, todo, deferred, stageBuffer, recorders)
        /\ i \in DOMAIN recorders /\ by = <<i>> /\ Adds(deferred, by, new, e)
        /\ longer = [recorders EXCEPT ![i] = Append(@, new)]
    BY <1>1, <1>2, <1>3, <1>4 DEF Adds
  <2>2. QED
    BY ONLY <2>1, ParallelDefers
<1>6. Cardinality(e) <= MaxCommands
  BY <1>2, <1>3, <1>5, StillWithinBound
<1>7. QED
  BY <1>2, <1>4, <1>5, <1>6 DEF FlushInv

LEMMA EndExclusiveKeepsFlush ==
  ASSUME PlanInv, FlushInv, EndExclusive
  PROVE  FlushInv'
<1>1. /\ phase = "exclusive" /\ phase' = "next" /\ ~collectingSystem'
      /\ stageBuffer' = stageBuffer \o systemBuffer /\ todo' = Tail(todo)
      /\ UNCHANGED <<descriptors, plan, deferred, applied>>
  BY DEF EndExclusive, history
<1>2. /\ descriptors \in Seq(Descriptor) /\ plan \in PlansOf(descriptors)
      /\ WellNamed(deferred) /\ Cardinality(deferred) <= MaxCommands
  BY <1>1, InStage
<1>3. InExclusive(descriptors, plan, todo, deferred, stageBuffer, systemBuffer) /\ applied = <<>>
  BY <1>1 DEF FlushInv
<1>4. AtNext(descriptors, plan, Tail(todo), deferred, stageBuffer \o systemBuffer)
  BY <1>2, <1>3, ExclusiveEnds
<1>5. QED
  BY <1>1, <1>2, <1>3, <1>4 DEF FlushInv

LEMMA MergeKeepsFlush ==
  ASSUME PlanInv, FlushInv, Merge
  PROVE  FlushInv'
<1>1. PICK g, more : g = Head(todo) /\ more = FlattenSeq([k \in DOMAIN g |-> recorders[g[k]]])
  OBVIOUS
<1>2. /\ phase = "parallel" /\ phase' = "next" /\ todo' = Tail(todo)
      /\ UNCHANGED <<descriptors, plan, deferred, applied, collectingSystem>>
  BY DEF Merge, history
<1>3. /\ descriptors \in Seq(Descriptor) /\ plan \in PlansOf(descriptors)
      /\ WellNamed(deferred) /\ Cardinality(deferred) <= MaxCommands
  BY <1>2, InStage
<1>4. /\ InParallel(descriptors, plan, todo, deferred, stageBuffer, recorders)
      /\ applied = <<>> /\ ~collectingSystem
  BY <1>2 DEF FlushInv
<1>5. MergeOrder(g) = g
  <2>1. PICK done : Ran(deferred, FlattenSeq(plan), done, todo, g, stageBuffer)
    BY <1>1, <1>4 DEF InParallel
  <2>2. todo # <<>> /\ AreGroups(descriptors, todo)
    BY <1>4 DEF InParallel
  <2>3. IsGroup(descriptors, g)
    BY <1>1, <2>1, <2>2, LeftAreGroups
  <2>4. QED
    BY <1>3, <2>3, MergeKeepsOrder DEF IsGroup
<1>6. stageBuffer' = stageBuffer \o more
  <2>1. PICK order : order = MergeOrder(g)
    OBVIOUS
  <2>2. stageBuffer' = stageBuffer \o FlattenSeq([k \in DOMAIN order |-> recorders[order[k]]])
    BY <1>1, <2>1 DEF Merge
  <2>3. QED
    BY <1>1, <1>5, <2>1, <2>2
<1>7. AtNext(descriptors, plan, Tail(todo), deferred, stageBuffer \o more)
  BY <1>1, <1>3, <1>4, ParallelEnds
<1>8. QED
  BY <1>2, <1>3, <1>4, <1>6, <1>7 DEF FlushInv

LEMMA StartFlushKeepsFlush ==
  ASSUME RunInv, PlanInv, FlushInv, StartFlush \/ TakeStage
  PROVE  FlushInv'
<1>1. /\ phase' = "flush" /\ phase # "enter"
      /\ UNCHANGED <<descriptors, plan, deferred, applied, collectingSystem>>
  BY DEF StartFlush, TakeStage, commands, history, run
<1>2. /\ descriptors \in Seq(Descriptor) /\ plan \in PlansOf(descriptors)
      /\ WellNamed(deferred) /\ Cardinality(deferred) <= MaxCommands
  BY <1>1, InStage
<1>3. CASE StartFlush
  <2>1. phase = "next" /\ todo = <<>> /\ UNCHANGED <<flushing, stageBuffer>>
    BY <1>3 DEF StartFlush, commands
  <2>2. flushing = <<>> /\ applied = <<>> /\ ~collectingSystem
    BY <2>1 DEF RunInv, FlushInv
  <2>3. AtNext(descriptors, plan, <<>>, deferred, stageBuffer)
    BY <2>1 DEF FlushInv
  <2>4. InFlush(plan, deferred, <<>>, <<>>, stageBuffer)
    BY <1>2, <2>3, FlushStarts
  <2>5. QED
    BY <1>1, <1>2, <2>1, <2>2, <2>4 DEF FlushInv
<1>4. CASE TakeStage
  <2>1. phase = "flush" /\ flushing = <<>> /\ flushing' = stageBuffer /\ stageBuffer' = <<>>
    BY <1>4 DEF TakeStage
  <2>2. InFlush(plan, deferred, applied, <<>>, stageBuffer) /\ ~collectingSystem
    BY <2>1 DEF FlushInv
  <2>3. InFlush(plan, deferred, applied, stageBuffer, <<>>)
    BY <2>2, StageTaken
  <2>4. QED
    BY <1>1, <1>2, <2>1, <2>2, <2>3 DEF FlushInv
<1>5. QED
  BY <1>3, <1>4

LEMMA ExecuteKeepsFlush ==
  ASSUME PlanInv, FlushInv, NEW defers, NEW emits, Execute(defers, emits)
  PROVE  FlushInv'
<1>1. PICK c, new, e, base :
        /\ c = Head(flushing) /\ new = Append(c, 1 + CountOf(deferred, c))
        /\ e = deferred \cup {new} /\ base = Names(FlattenSeq(plan))
  OBVIOUS
<1>2. /\ phase = "flush" /\ flushing # <<>>
      /\ applied' = Append(applied, c) /\ flushing' = Tail(flushing)
      /\ UNCHANGED <<phase, descriptors, plan, collectingSystem>>
  BY <1>1 DEF Execute, run
<1>3. /\ descriptors \in Seq(Descriptor) /\ plan \in PlansOf(descriptors)
      /\ WellNamed(deferred) /\ Cardinality(deferred) <= MaxCommands
      /\ Cardinality(deferred) \in Nat
  BY <1>2, InStage
<1>4. InFlush(plan, deferred, applied, flushing, stageBuffer) /\ ~collectingSystem
  BY <1>2 DEF FlushInv
<1>5. AreSystems(base)
  BY <1>1, <1>3, PlanSystems
<1>6. CASE defers
  <2>1. /\ Cardinality(deferred) < MaxCommands /\ deferred' = e
        /\ stageBuffer' = Append(stageBuffer, new)
    BY <1>1, <1>4, <1>6 DEF Execute, RoomForCommand, NewCommand, CountOf, CommandsOf
  <2>2. /\ WellNamed(e) /\ Cardinality(e) <= Cardinality(deferred) + 1
        /\ InFlush(plan, e, Append(applied, c), Tail(flushing), Append(stageBuffer, new))
    BY <1>1, <1>2, <1>3, <1>4, <1>5, CommandDefers
  <2>3. Cardinality(e) <= MaxCommands
    BY <1>3, <2>1, <2>2, StillWithinBound
  <2>4. QED
    BY <1>2, <1>4, <2>1, <2>2, <2>3 DEF FlushInv
<1>7. CASE ~ defers
  <2>1. deferred' = deferred /\ stageBuffer' = stageBuffer
    BY <1>7 DEF Execute
  <2>2. InFlush(plan, deferred, Append(applied, c), Tail(flushing), stageBuffer)
    BY <1>1, <1>2, <1>3, <1>4, <1>5, CommandExecutes
  <2>3. QED
    BY <1>2, <1>3, <1>4, <2>1, <2>2 DEF FlushInv
<1>8. QED
  BY <1>6, <1>7

LEMMA NextKeepsFlush ==
  ASSUME RunInv, PlanInv, FlushInv, PlanInv', [Next]_vars
  PROVE  FlushInv'
<1>1. ASSUME UNCHANGED <<phase, descriptors, plan, todo, recorders, stageBuffer, systemBuffer,
                         collectingSystem, flushing, deferred, applied>>
      PROVE  FlushInv'
  BY <1>1 DEF FlushInv
<1>2. ASSUME phase = "enter", UNCHANGED <<phase, deferred, applied>>
      PROVE  FlushInv'
  BY <1>2, OutsideFlush DEF FlushInv
<1>3. ASSUME NEW stage, NEW kind, AddSystem(stage, kind) PROVE FlushInv'
  BY <1>1, <1>3 DEF AddSystem, run, parallel, commands, history
<1>4. ASSUME NEW stage, NEW descriptor, AddSystemDescriptor(stage, descriptor) PROVE FlushInv'
  BY <1>1, <1>4 DEF AddSystemDescriptor, run, parallel, commands, history
<1>5. CASE HostStep
  <2>1. CASE DeferOutside
    BY <1>2, <2>1 DEF DeferOutside, RunInv, run, history
  <2>2. CASE EmitOutside
    BY <1>1, <2>2 DEF EmitOutside, run, parallel, commands, history
  <2>3. CASE Update \/ Render \/ RunStartup \/ Shutdown
    BY <1>1, <2>3 DEF Update, Render, RunStartup, Shutdown, Call, parallel, commands, history
  <2>4. QED
    BY <1>3, <1>4, <1>5, <2>1, <2>2, <2>3 DEF HostStep
<1>6. CASE SkipStage
  BY <1>1, <1>6 DEF SkipStage, parallel, commands, history
<1>7. CASE BeginStage
  BY <1>7, BeginStageKeepsFlush
<1>8. CASE PlanPanics
  BY <1>1, <1>8 DEF PlanPanics, parallel, commands, history
<1>9. CASE BeginExclusive \/ BeginParallel
  BY <1>9, BeginGroupKeepsFlush
<1>10. CASE Defer
  BY <1>10, DeferKeepsFlush
<1>11. CASE Emit
  BY <1>1, <1>11 DEF Emit, run, parallel, commands
<1>12. CASE EndExclusive
  BY <1>12, EndExclusiveKeepsFlush
<1>13. ASSUME NEW i, Record(i) PROVE FlushInv'
  BY <1>13, RecordKeepsFlush
<1>14. ASSUME NEW i, Finish(i) PROVE FlushInv'
  BY <1>1, <1>14 DEF Finish, run, commands, history
<1>15. CASE Merge
  BY <1>15, MergeKeepsFlush
<1>16. CASE StartFlush \/ TakeStage
  BY <1>16, StartFlushKeepsFlush
<1>17. ASSUME NEW defers, NEW emits, Execute(defers, emits) PROVE FlushInv'
  BY <1>17, ExecuteKeepsFlush
<1>18. CASE EndStage
  BY <1>18, OutsideFlush DEF EndStage, LeaveStage
<1>19. CASE Panic
  BY <1>19, OutsideFlush DEF Panic, LeaveStage
<1>20. CASE UNCHANGED vars
  BY <1>1, <1>20 DEF vars, run, parallel, commands, history
<1>21. QED
  BY <1>5, <1>6, <1>7, <1>8, <1>9, <1>10, <1>11, <1>12, <1>13, <1>14, <1>15, <1>16, <1>17, <1>18,
     <1>19, <1>20 DEF Next

LEMMA FlushInvariant == Spec => []FlushInv
<1>1. Init => FlushInv
  BY NothingDeferred, BoundsAssumption DEF Init, FlushInv
<1>2. StageInv /\ StageInv' /\ FlushInv /\ [Next]_vars => FlushInv'
  BY NextKeepsFlush DEF StageInv
<1>3. QED
  BY <1>1, <1>2, StageInvariant, PTL DEF Spec

(* However the systems of a parallel batch interleave and whichever        *)
(* finishes first, a flush executes every command of the stage's systems   *)
(* once: in the order of the plan, each system's in the order it deferred  *)
(* them, then what those commands deferred, level by level (merge_buffers  *)
(* and flush_commands).  What the host deferred is left aside here.        *)
THEOREM FlushTheorem == Spec => []FlushOrdered
<1>1. StageInv /\ FlushInv => FlushOrdered
  <2>1. SUFFICES ASSUME StageInv, FlushInv, phase = "flush"
                 PROVE  OfSystems(applied \o flushing \o stageBuffer) = Levels
    BY DEF FlushOrdered
  <2>2. /\ descriptors \in Seq(Descriptor) /\ plan \in PlansOf(descriptors)
        /\ WellNamed(deferred) /\ Cardinality(deferred) <= MaxCommands
    BY <2>1, InStage DEF StageInv
  <2>3. InFlush(plan, deferred, applied, flushing, stageBuffer)
    BY <2>1 DEF FlushInv
  <2>4. PICK q, u : /\ q = applied \o (flushing \o stageBuffer)
                    /\ u = [k \in DOMAIN q |-> <<q[k]>>]
    OBVIOUS
  <2>5. q \in Seq(Name) /\ \A k \in 1 .. Len(q) : q[k][1] # Host
    BY <2>2, <2>3, <2>4, NoneOfHost
  <2>6. applied \o flushing \o stageBuffer = q
    <3>1. PICK T, a, f, b : T = Name /\ a = applied /\ f = flushing /\ b = stageBuffer
      OBVIOUS
    <3>2. a \in Seq(T) /\ f \in Seq(T) /\ b \in Seq(T)
      BY <2>3, <3>1 DEF InFlush, Flushes
    <3>3. (a \o f) \o b = a \o (f \o b)
      BY ONLY <3>2
    <3>4. QED
      BY <2>4, <3>1, <3>3
  <2>7. OfSystems(q) = FlattenSeq(u)
    <3>1. [k \in DOMAIN q |-> IF q[k][1] = Host THEN <<>> ELSE <<q[k]>>] = u
      <4>1. DOMAIN q = 1 .. Len(q)
        BY <2>5
      <4>2. \A k \in DOMAIN q : (IF q[k][1] = Host THEN <<>> ELSE <<q[k]>>) = <<q[k]>>
        BY <2>5, <4>1
      <4>3. QED
        BY <2>4, <4>2
    <3>2. QED
      BY <3>1 DEF OfSystems
  <2>8. FlattenSeq(u) = q
    BY ONLY <2>4, <2>5, FlattenSingles
  <2>9. q = Levels
    BY <2>2, <2>3, <2>6, FlushIsLevels
  <2>10. QED
    BY <2>6, <2>7, <2>8, <2>9
<1>2. QED
  BY <1>1, StageInvariant, FlushInvariant, PTL
=============================================================================
