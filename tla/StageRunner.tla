------------------------------- MODULE StageRunner -------------------------------
(***************************************************************************)
(* The stages of an App (src/app.rs) with the deferred commands            *)
(* (src/command.rs) and events (src/event.rs) of its World: systems of a   *)
(* stage run batch by batch, what they defer is merged and flushed at the  *)
(* end, what they emit is committed then.                                  *)
(*                                                                         *)
(* The systems of a parallel batch run at the same time, each into its own *)
(* CommandRecorder.  A system or a command may panic: the stage unwinds    *)
(* and a host that catches the panic may go on with the app.               *)
(*                                                                         *)
(* A command is named by the system that deferred it (its position in the  *)
(* stage, 0 for the host) and a number; a command deferred by a command is *)
(* that name and one more number.  An event is named by its system and a   *)
(* number.  How plan_stage finds a plan is module Scheduler: here it may   *)
(* be any plan with each system once and batches in registration order,    *)
(* or the panic of a cycle.                                                *)
(***************************************************************************)
EXTENDS Naturals, SequencesExt, FiniteSetsExt

CONSTANTS
  Stages,      \* stages that get systems, of those run by update and shutdown
  Kinds,       \* for each registration index in turn, what the system may be
  Own,         \* descriptors that a caller builds itself
  MaxSystems,  \* bound: systems in the stages
  MaxCommands, \* bound: commands deferred in one stage
  MaxEvents    \* bound: events emitted in one stage

ASSUME BoundsAssumption == MaxSystems \in Nat /\ MaxCommands \in Nat /\ MaxEvents \in Nat

VARIABLES
  systems,       \* stage -> descriptors; none while the stage runs
  stagePlans,    \* stage -> cached plan, <<>> when there is none
  nextSystemRegistrationIndex,
  startupRan,
  shutdownRan,
  agenda,        \* stages the running call has still to run, the running one first
  phase,         \* "enter", "next", "exclusive", "parallel" or "flush"
  descriptors,   \* the systems of the running stage
  plan,          \* its plan: batches of positions
  todo,          \* the groups of systems left to run, the running one first
  recorders,     \* position -> commands recorded, of the systems running now
  finished,      \* those of them that returned, in order
  stageBuffer, systemBuffer, collectingSystem,   \* CommandStore
  flushing,      \* the commands taken out of the stage buffer, to be executed
  committed, stageEvents, systemEvents,          \* EventStore
  deferred,      \* history: the commands deferred in this stage
  applied,       \* history: the commands executed in this stage
  emitted        \* history: the events systems emitted in this stage

app      == <<systems, stagePlans, nextSystemRegistrationIndex, startupRan, shutdownRan>>
run      == <<agenda, phase, descriptors, plan, todo>>
parallel == <<recorders, finished>>
commands == <<stageBuffer, systemBuffer, collectingSystem, flushing>>
events   == <<committed, stageEvents, systemEvents>>
history  == <<deferred, applied, emitted>>
vars     == <<app, run, parallel, commands, events, history>>

Stage == {"Startup", "PreUpdate", "Update", "PostUpdate", "Render", "Shutdown"}

(* What a system is: exclusive, or parallel with its access declared or not. *)
Kind == {"exclusive", "undeclared", "declared"}

Descriptor == [kind : Kind, registration : Nat]

ASSUME StagesAssumption ==
  Stages \subseteq Stage /\ Kinds \in Seq(SUBSET Kind) /\ Own \subseteq Descriptor

Host      == 0
NoSystems == <<>>
NoPlan    == <<>>
Idle      == agenda = <<>>

(* What the host, or a command, emits or defers. *)
Stray == <<Host, 1>>

-----------------------------------------------------------------------------
(* Plans.                                                                  *)

Ascending(D, batch) ==
  \A k \in 1 .. Len(batch) - 1 : D[batch[k]].registration <= D[batch[k + 1]].registration

(* Each system of the list once. *)
Covers(D, p) ==
  LET order == FlattenSeq(p) IN Range(order) = DOMAIN D /\ Len(order) = Len(D)

(* plan_stage, as far as Scheduler promises. *)
PlansOf(D) ==
  LET Batches == {batch \in UNION {SetToSeqs(S) : S \in (SUBSET DOMAIN D) \ {{}}} :
                    Ascending(D, batch)}
  IN  {p \in UNION {[1 .. n -> Batches] : n \in DOMAIN D} : Covers(D, p)}

CanRunParallel(D, batch) == \A k \in DOMAIN batch : D[batch[k]].kind = "declared"

(* The systems that run together: a batch that may, or one system.         *)
Groups(D, p) ==
  FlattenSeq([b \in DOMAIN p |->
    IF CanRunParallel(D, p[b]) THEN <<p[b]>> ELSE [k \in DOMAIN p[b] |-> <<p[b][k]>>]])

-----------------------------------------------------------------------------
(* Between calls.                                                          *)

(* Mutant: the cached plan survives. *)
RegisterKeepingPlan(stage, descriptor) ==
  /\ systems' = [systems EXCEPT ![stage] = Append(@, descriptor)]
  /\ UNCHANGED stagePlans

(* A new system makes the cached plan of its stage stale. *)
Register(stage, descriptor) ==
  /\ systems' = [systems EXCEPT ![stage] = Append(@, descriptor)]
  /\ stagePlans' = [stagePlans EXCEPT ![stage] = NoPlan]

RoomForSystem == MapThenSumSet(LAMBDA stage : Len(systems[stage]), Stages) < MaxSystems

(* add_system, add_parallel_system, add_parallel_system_with_access. *)
AddSystem(stage, kind) ==
  /\ Idle
  /\ RoomForSystem
  /\ nextSystemRegistrationIndex < Len(Kinds)   \* bound
  /\ kind \in Kinds[nextSystemRegistrationIndex + 1]
  /\ Register(stage, [kind |-> kind, registration |-> nextSystemRegistrationIndex])
  /\ nextSystemRegistrationIndex' = nextSystemRegistrationIndex + 1
  /\ UNCHANGED <<startupRan, shutdownRan, run, parallel, commands, events, history>>

(* add_system_descriptor: the index is the caller's, the counter stays.    *)
AddSystemDescriptor(stage, descriptor) ==
  /\ Idle
  /\ RoomForSystem
  /\ Register(stage, descriptor)
  /\ UNCHANGED <<nextSystemRegistrationIndex, startupRan, shutdownRan,
                 run, parallel, commands, events, history>>

(* The host defers and emits on the world between calls (bound: one each). *)
DeferOutside ==
  /\ Idle
  /\ stageBuffer = <<>> /\ systemBuffer = <<>>
  /\ IF collectingSystem
     THEN systemBuffer' = <<Stray>> /\ UNCHANGED stageBuffer
     ELSE stageBuffer' = <<Stray>> /\ UNCHANGED systemBuffer
  /\ UNCHANGED <<app, run, parallel, collectingSystem, flushing, events, history>>

EmitOutside ==
  /\ Idle
  /\ systemEvents = <<>>
  /\ systemEvents' = <<Stray>>
  /\ UNCHANGED <<app, run, parallel, commands, committed, stageEvents, history>>

Startup == IF startupRan THEN <<>> ELSE <<"Startup">>

(* update, render, run_startup, shutdown: the stages they go through.      *)
Call(stages) ==
  /\ Idle
  /\ agenda' = stages
  /\ UNCHANGED <<app, phase, descriptors, plan, todo, parallel, commands, events, history>>

Update     == Call(Startup \o <<"PreUpdate", "Update", "PostUpdate">>)
Render     == Call(Startup \o <<"Render">>)
RunStartup == Call(Startup)
Shutdown   == ~shutdownRan /\ Call(<<"Shutdown">>)

-----------------------------------------------------------------------------
(* A stage begins.                                                         *)

(* Startup and shutdown are marked as done when their stage returned.      *)
StageReturns ==
  /\ agenda' = Tail(agenda)
  /\ startupRan' = (startupRan \/ Head(agenda) = "Startup")
  /\ shutdownRan' = (shutdownRan \/ Head(agenda) = "Shutdown")

(* Without systems nothing happens, not even to the buffers. *)
SkipStage ==
  /\ ~Idle
  /\ phase = "enter"
  /\ systems[Head(agenda)] = NoSystems
  /\ StageReturns
  /\ UNCHANGED <<systems, stagePlans, nextSystemRegistrationIndex, phase, descriptors, plan,
                 todo, parallel, commands, events, history>>

TakeSystems ==
  /\ ~Idle
  /\ phase = "enter"
  /\ LET stage == Head(agenda)
     IN  /\ systems[stage] # NoSystems
         /\ systems' = [systems EXCEPT ![stage] = NoSystems]
         /\ stagePlans' = [stagePlans EXCEPT ![stage] = NoPlan]
  /\ UNCHANGED <<nextSystemRegistrationIndex, startupRan, shutdownRan>>

(* Mutant: what was deferred since the last stage stays. *)
BeginDirty ==
  /\ collectingSystem' = FALSE
  /\ UNCHANGED <<stageBuffer, systemBuffer, flushing>>

BeginStageCommands ==
  /\ stageBuffer' = <<>>
  /\ systemBuffer' = <<>>
  /\ collectingSystem' = FALSE
  /\ UNCHANGED flushing

BeginStageEvents ==
  /\ committed' = <<>>
  /\ stageEvents' = <<>>
  /\ UNCHANGED systemEvents

BeginStage ==
  /\ TakeSystems
  /\ descriptors' = systems[Head(agenda)]
  /\ IF stagePlans[Head(agenda)] # NoPlan THEN plan' = stagePlans[Head(agenda)]
     ELSE plan' \in PlansOf(systems[Head(agenda)])
  /\ todo' = Groups(descriptors', plan')
  /\ BeginStageEvents
  /\ BeginStageCommands
  /\ phase' = "next"
  /\ UNCHANGED <<agenda, parallel, history>>

(* The constraints of a stage without a plan form a cycle.                 *)
PlanPanics ==
  /\ TakeSystems
  /\ stagePlans[Head(agenda)] = NoPlan
  /\ agenda' = <<>>
  /\ UNCHANGED <<phase, descriptors, plan, todo, parallel, commands, events, history>>

-----------------------------------------------------------------------------
(* Its systems run.                                                        *)

(* The n-th command that `by' defers, if the bound allows one more.        *)
NewCommand(by) ==
  Append(by, 1 + Cardinality({c \in deferred : Front(c) = by}))

RoomForCommand == Cardinality(deferred) < MaxCommands

(* Mutant: begin_system keeps what is in the buffer. *)
BeginSystemKeepingEvents == UNCHANGED events

BeginSystemEvents == systemEvents' = <<>> /\ UNCHANGED <<committed, stageEvents>>

BeginExclusive ==
  /\ phase = "next"
  /\ todo # <<>>
  /\ descriptors[Head(todo)[1]].kind = "exclusive"
  /\ BeginSystemEvents
  /\ systemBuffer' = <<>>
  /\ collectingSystem' = TRUE
  /\ phase' = "exclusive"
  /\ UNCHANGED <<app, agenda, descriptors, plan, todo, parallel, stageBuffer, flushing, history>>

Defer ==
  /\ phase = "exclusive"
  /\ RoomForCommand
  /\ LET command == NewCommand(Head(todo))
     IN  /\ systemBuffer' = Append(systemBuffer, command)
         /\ deferred' = deferred \cup {command}
  /\ UNCHANGED <<app, run, parallel, stageBuffer, collectingSystem, flushing, events,
                 applied, emitted>>

Emit ==
  /\ phase = "exclusive"
  /\ Len(emitted) < MaxEvents
  /\ LET event == Append(Head(todo), Len(emitted))
     IN  /\ systemEvents' = Append(systemEvents, event)
         /\ emitted' = Append(emitted, event)
  /\ UNCHANGED <<app, run, parallel, commands, committed, stageEvents, deferred, applied>>

EndExclusive ==
  /\ phase = "exclusive"
  /\ stageEvents' = stageEvents \o systemEvents
  /\ systemEvents' = <<>>
  /\ collectingSystem' = FALSE
  /\ stageBuffer' = stageBuffer \o systemBuffer
  /\ systemBuffer' = <<>>
  /\ todo' = Tail(todo)
  /\ phase' = "next"
  /\ UNCHANGED <<app, agenda, descriptors, plan, parallel, flushing, committed, history>>

BeginParallel ==
  /\ phase = "next"
  /\ todo # <<>>
  /\ descriptors[Head(todo)[1]].kind # "exclusive"
  /\ recorders' = [i \in Range(Head(todo)) |-> <<>>]
  /\ phase' = "parallel"
  /\ UNCHANGED <<app, agenda, descriptors, plan, todo, finished, commands, events, history>>

Running(i) == phase = "parallel" /\ i \in DOMAIN recorders \ Range(finished)

Record(i) ==
  /\ Running(i)
  /\ RoomForCommand
  /\ recorders' = [recorders EXCEPT ![i] = Append(@, NewCommand(<<i>>))]
  /\ deferred' = deferred \cup {NewCommand(<<i>>)}
  /\ UNCHANGED <<app, run, finished, commands, events, applied, emitted>>

Finish(i) ==
  /\ Running(i)
  /\ finished' = Append(finished, i)
  /\ UNCHANGED <<app, run, recorders, commands, events, history>>

(* Mutant: in the order the systems returned. *)
AsFinished(group) == finished

(* collect keeps the order of the batch; sort_by_key is a stable sort by   *)
(* registration.                                                           *)
MergeOrder(group) ==
  LET Registration(k) == descriptors[group[k]].registration
      Sorted(places) ==
        \A k, l \in DOMAIN places : k < l =>
          \/ Registration(places[k]) < Registration(places[l])
          \/ Registration(places[k]) = Registration(places[l]) /\ places[k] < places[l]
      order == CHOOSE places \in SetToSeqs(DOMAIN group) : Sorted(places)
  IN  [k \in DOMAIN order |-> group[order[k]]]

Merge ==
  /\ phase = "parallel"
  /\ Len(finished) = Len(Head(todo))
  /\ LET order == MergeOrder(Head(todo))
     IN  stageBuffer' = stageBuffer \o FlattenSeq([k \in DOMAIN order |-> recorders[order[k]]])
  /\ recorders' = <<>>
  /\ finished' = <<>>
  /\ todo' = Tail(todo)
  /\ phase' = "next"
  /\ UNCHANGED <<app, agenda, descriptors, plan, systemBuffer, collectingSystem, flushing,
                 events, history>>

-----------------------------------------------------------------------------
(* It ends.                                                                *)

StartFlush ==
  /\ phase = "next"
  /\ todo = <<>>
  /\ phase' = "flush"
  /\ UNCHANGED <<app, agenda, descriptors, plan, todo, parallel, commands, events, history>>

TakeStage ==
  /\ phase = "flush"
  /\ flushing = <<>>
  /\ stageBuffer # <<>>
  /\ flushing' = stageBuffer
  /\ stageBuffer' = <<>>
  /\ UNCHANGED <<app, run, parallel, systemBuffer, collectingSystem, events, history>>

(* A command may itself defer a command and emit an event.                 *)
Execute(defers, emits) ==
  /\ phase = "flush"
  /\ flushing # <<>>
  /\ applied' = Append(applied, Head(flushing))
  /\ flushing' = Tail(flushing)
  /\ IF defers
     THEN LET command == NewCommand(Head(flushing))
          IN  /\ RoomForCommand
              /\ deferred' = deferred \cup {command}
              /\ IF collectingSystem
                 THEN systemBuffer' = Append(systemBuffer, command) /\ UNCHANGED stageBuffer
                 ELSE stageBuffer' = Append(stageBuffer, command) /\ UNCHANGED systemBuffer
     ELSE UNCHANGED <<deferred, stageBuffer, systemBuffer>>
  /\ IF emits
     THEN systemEvents = <<>> /\ systemEvents' = <<Stray>>
     ELSE UNCHANGED systemEvents
  /\ UNCHANGED <<app, run, parallel, collectingSystem, committed, stageEvents, emitted>>

(* The runner forgets the stage.                                           *)
LeaveStage ==
  /\ phase' = "enter"
  /\ descriptors' = NoSystems
  /\ plan' = NoPlan
  /\ todo' = <<>>
  /\ recorders' = <<>>
  /\ finished' = <<>>
  /\ flushing' = <<>>
  /\ deferred' = {}
  /\ applied' = <<>>
  /\ emitted' = <<>>

EndStage ==
  /\ phase = "flush"
  /\ flushing = <<>>
  /\ stageBuffer = <<>>
  /\ committed' = stageEvents
  /\ stageEvents' = <<>>
  /\ stagePlans' = [stagePlans EXCEPT ![Head(agenda)] = plan]
  /\ systems' = [systems EXCEPT ![Head(agenda)] = descriptors]
  /\ StageReturns
  /\ LeaveStage
  /\ UNCHANGED <<nextSystemRegistrationIndex, stageBuffer, systemBuffer, collectingSystem,
                 systemEvents>>

(* A system or a command panics: the call unwinds, and the systems of the  *)
(* stage, its plan and what is being flushed go with it.                   *)
Panic ==
  /\ phase \in {"exclusive", "parallel"} \/ flushing # <<>>
  /\ agenda' = <<>>
  /\ LeaveStage
  /\ UNCHANGED <<app, stageBuffer, systemBuffer, collectingSystem, events>>

-----------------------------------------------------------------------------
Init ==
  /\ systems = [stage \in Stage |-> NoSystems]
  /\ stagePlans = [stage \in Stage |-> NoPlan]
  /\ nextSystemRegistrationIndex = 0
  /\ startupRan = FALSE /\ shutdownRan = FALSE
  /\ agenda = <<>>
  /\ phase = "enter"
  /\ descriptors = NoSystems /\ plan = NoPlan /\ todo = <<>>
  /\ recorders = <<>> /\ finished = <<>>
  /\ stageBuffer = <<>> /\ systemBuffer = <<>> /\ collectingSystem = FALSE /\ flushing = <<>>
  /\ committed = <<>> /\ stageEvents = <<>> /\ systemEvents = <<>>
  /\ deferred = {} /\ applied = <<>> /\ emitted = <<>>

HostStep ==
  \/ \E stage \in Stages, kind \in Kind : AddSystem(stage, kind)
  \/ \E stage \in Stages, descriptor \in Own : AddSystemDescriptor(stage, descriptor)
  \/ DeferOutside
  \/ EmitOutside
  \/ Update
  \/ Render
  \/ RunStartup
  \/ Shutdown

Next ==
  \/ HostStep
  \/ SkipStage
  \/ BeginStage
  \/ PlanPanics
  \/ BeginExclusive
  \/ Defer
  \/ Emit
  \/ EndExclusive
  \/ BeginParallel
  \/ \E i \in DOMAIN recorders : Record(i) \/ Finish(i)
  \/ Merge
  \/ StartFlush
  \/ TakeStage
  \/ \E defers, emits \in BOOLEAN : Execute(defers, emits)
  \/ EndStage
  \/ Panic

Spec == Init /\ [][Next]_vars

-----------------------------------------------------------------------------
(* The commands that `by' deferred, in order. *)
DeferredBy(by) ==
  [n \in 1 .. Cardinality({c \in deferred : Front(c) = by}) |-> Append(by, n)]

(* Level 1 is what the systems deferred, in the order of the plan, level   *)
(* n + 1 what the commands of level n deferred.                            *)
Levels ==
  LET order == FlattenSeq(plan)
      Level[n \in 1 .. MaxCommands] ==
        IF n = 1 THEN FlattenSeq([k \in DOMAIN order |-> DeferredBy(<<order[k]>>)])
        ELSE FlattenSeq([k \in DOMAIN Level[n - 1] |-> DeferredBy(Level[n - 1][k])])
  IN  FlattenSeq(Level)

(* Those of a sequence of commands that systems deferred, or commands of   *)
(* theirs. *)
OfSystems(cmds) ==
  FlattenSeq([k \in DOMAIN cmds |-> IF cmds[k][1] = Host THEN <<>> ELSE <<cmds[k]>>])

(* The flush executes every command of the stage's systems once, in the    *)
(* order of the plan whatever the order the systems of a batch ran in, and *)
(* what commands defer after them; never one that the systems of a stage   *)
(* that panicked left in a buffer.  Nothing is said of what the host       *)
(* deferred: see DeferredApplied.  (run_stage, CommandStore,               *)
(* end_stage_commands.)                                                    *)
FlushOrdered == phase = "flush" => OfSystems(applied \o flushing \o stageBuffer) = Levels

(* What waits to be executed. *)
Pending == ToSet(stageBuffer) \cup ToSet(systemBuffer) \cup ToSet(flushing)

(* What the doc of defer_command says: a command stays deferred until the  *)
(* flush of a stage executes it, as long as nothing panics.  The next      *)
(* begin_stage_commands drops the one that the host deferred.              *)
DeferredApplied == [][~Panic => Pending \subseteq Pending' \cup ToSet(applied')]_vars

(* A stage commits what its exclusive systems emitted, in order: nothing   *)
(* that the host, a command or a system that panicked emitted (EventStore). *)
EventsCommitted == [][EndStage => committed' = emitted]_vars

(* A cached plan has each registered system of its stage once, after any   *)
(* registrations, runs and panics (the stage_plans cache of App).          *)
PlanCovers ==
  \A stage \in Stage : stagePlans[stage] # NoPlan => Covers(systems[stage], stagePlans[stage])
=============================================================================
