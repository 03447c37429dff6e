--------------------------- MODULE WatchLoopProofs ---------------------------
(***************************************************************************)
(* Watch mode is proved for every set of source roots, of settings and of  *)
(* contents: what waits has seen the last edit, and watches what the       *)
(* configuration names.                                                    *)
(***************************************************************************)
EXTENDS WatchLoop, TLAPS

Files == Settings \cup {Invalid} \cup Contents \cup {Absent}

\* disk and read give each path its contents.
Shaped == disk \in [Paths -> Files] /\ read \in [Paths -> Files]

\* Between load_project and the end of apply_watch_targets the configuration is
\* one that loaded.
Loaded == pc \in {"build", "apply"} => read[Config] \in Settings

\* Something will have run_watch read the path again.
Awaited(path) ==
    \/ channel > 0
    \/ pc \in {"load", "debounce", "exited"}
    \/ pc = "build" /\ path \in toRead

\* What the last rebuild depends on is as it read it, or is going to be read.
CurrentOrAwaited ==
    \A path \in Relevant : path \in unseen \/ read[path] = disk[path] \/ Awaited(path)

\* A path the system reports is one the loop thinks it watches.
AttachedIsActive == attached \subseteq active

\* What active_watch_targets is, or is going to be once the plan is carried out.
Planned == (active \ toUnwatch) \cup toWatch

Follows(watched) ==
    /\ Config \in watched
    /\ watched \ {Config} \subseteq read[Config].src
    /\ \A root \in read[Config].src \ watched :
          disk[root] # Absent => root \in unseen \/ channel > 0

\* The plan of a rebuild, and what it leaves once it is carried out.
PlanFollows ==
    /\ pc = "apply" => Follows(Planned)
    /\ (pc = "recv" /\ applied) => Follows(active)

IInv == TypeOK /\ Shaped /\ Loaded /\ CurrentOrAwaited /\ AttachedIsActive /\ PlanFollows
-----------------------------------------------------------------------------
\* The configuration file is no source root.
LEMMA PathFacts ==
    /\ Config \in Paths /\ Roots \subseteq Paths /\ Config \notin Roots
    /\ Paths = Roots \cup {Config}
    /\ \A settings \in Settings : settings.src \subseteq Roots
    /\ Invalid \notin Settings
BY WatchAssumption DEF Paths, Config

\* What the pipeline writes adds to the events there are.
LEMMA WriteFacts ==
    ASSUME Write, channel \in 0 .. MaxChannel
    PROVE  channel' \in 0 .. MaxChannel /\ (channel > 0 => channel' > 0)
BY WatchAssumption DEF Write

\* When run_watch starts nothing is watched and the load is still to come.
LEMMA InitIsSound == Init => IInv
<1> SUFFICES ASSUME Init PROVE IInv
  OBVIOUS
<1>1. PICK settings \in Settings, contents \in [Roots -> Contents \cup {Absent}] :
         disk = [path \in Paths |-> IF path = Config THEN settings ELSE contents[path]]
  BY DEF Init
<1>2. /\ read = disk /\ channel = 0 /\ pc = "load" /\ initial = TRUE /\ applied = FALSE
      /\ attached = {} /\ active \cup unseen \cup toUnwatch \cup toWatch \cup toRead = {}
  BY DEF Init
<1>3. Shaped
  BY <1>1, <1>2, PathFacts DEF Shaped, Files
<1>4. TypeOK
  <2>1. disk[Config] \in Settings /\ \A root \in Roots : disk[root] \in Contents \cup {Absent}
    BY <1>1, PathFacts
  <2>2. Ranges
    BY <1>2, <2>1, WatchAssumption DEF Ranges
  <2> QED
    BY <1>2, <2>2 DEF TypeOK, Flags
<1>5. Loaded
  BY <1>2 DEF Loaded
<1>6. CurrentOrAwaited
  BY <1>2 DEF CurrentOrAwaited, Awaited
<1>7. AttachedIsActive
  BY <1>2 DEF AttachedIsActive
<1>8. PlanFollows
  BY <1>2 DEF PlanFollows
<1> QED
  BY <1>3, <1>4, <1>5, <1>6, <1>7, <1>8 DEF IInv
\* Files are changed in place.
LEMMA ShapedStep ==
    ASSUME Shaped, [Next]_vars
    PROVE Shaped'
<1>1. CASE LoadProject
  BY <1>1, PathFacts DEF LoadProject, Fails, plan, Shaped, Files
<1>2. CASE FinishBuild
  BY <1>2, PathFacts DEF FinishBuild, Fails, WatchTargets, plan, Shaped, Files
<1>3. CASE Applied
  BY <1>3, PathFacts DEF Applied, plan, Shaped, Files
<1>4. ASSUME NEW root \in Roots, ReadRoot(root) PROVE Shaped'
  BY <1>4, PathFacts DEF ReadRoot, plan, Shaped, Files
<1>5. ASSUME NEW path \in Paths, Unwatch(path) PROVE Shaped'
  BY <1>5, PathFacts DEF Unwatch, Fails, DropPlan, Shaped, Files
<1>6. ASSUME NEW path \in Paths, Watch(path) PROVE Shaped'
  BY <1>6, PathFacts DEF Watch, Fails, DropPlan, Shaped, Files
<1>7. CASE Receive
  BY <1>7, PathFacts DEF Receive, plan, Shaped, Files
<1>8. CASE Timeout
  BY <1>8, PathFacts DEF Timeout, plan, Shaped, Files
<1>9. ASSUME NEW settings \in Settings \cup {Invalid}, EditConfig(settings) PROVE Shaped'
  BY <1>9, PathFacts DEF EditConfig, Changed, plan, Shaped, Files
<1>10. ASSUME NEW root \in Roots, NEW contents \in Contents \cup {Absent}, EditRoot(root, contents)
       PROVE Shaped'
  BY <1>10, PathFacts DEF EditRoot, Changed, plan, Shaped, Files
<1>11. CASE UNCHANGED vars
  BY <1>11, PathFacts DEF vars, plan, Shaped, Files
<1> QED
  BY <1>1, <1>2, <1>3, <1>4, <1>5, <1>6, <1>7, <1>8, <1>9, <1>10, <1>11 DEF Next, Run, Edit

\* A rebuild goes on only with a configuration that loaded.
LEMMA LoadedStep ==
    ASSUME Ranges, Shaped, Loaded, [Next]_vars
    PROVE Loaded'
<1>1. CASE LoadProject
  BY <1>1, PathFacts DEF LoadProject, Fails, plan, Ranges, Shaped, Loaded
<1>2. CASE FinishBuild
  BY <1>2, PathFacts DEF FinishBuild, Fails, WatchTargets, plan, Ranges, Shaped, Loaded
<1>3. CASE Applied
  BY <1>3, PathFacts DEF Applied, plan, Ranges, Shaped, Loaded
<1>4. ASSUME NEW root \in Roots, ReadRoot(root) PROVE Loaded'
  BY <1>4, PathFacts DEF ReadRoot, plan, Ranges, Shaped, Loaded
<1>5. ASSUME NEW path \in Paths, Unwatch(path) PROVE Loaded'
  BY <1>5, PathFacts DEF Unwatch, Fails, DropPlan, Ranges, Shaped, Loaded
<1>6. ASSUME NEW path \in Paths, Watch(path) PROVE Loaded'
  BY <1>6, PathFacts DEF Watch, Fails, DropPlan, Ranges, Shaped, Loaded
<1>7. CASE Receive
  BY <1>7, PathFacts DEF Receive, plan, Ranges, Shaped, Loaded
<1>8. CASE Timeout
  BY <1>8, PathFacts DEF Timeout, plan, Ranges, Shaped, Loaded
<1>9. ASSUME NEW settings \in Settings \cup {Invalid}, EditConfig(settings) PROVE Loaded'
  BY <1>9, PathFacts DEF EditConfig, Changed, plan, Ranges, Shaped, Loaded
<1>10. ASSUME NEW root \in Roots, NEW contents \in Contents \cup {Absent}, EditRoot(root, contents)
       PROVE Loaded'
  BY <1>10, PathFacts DEF EditRoot, Changed, plan, Ranges, Shaped, Loaded
<1>11. CASE UNCHANGED vars
  BY <1>11, PathFacts DEF vars, plan, Ranges, Shaped, Loaded
<1> QED
  BY <1>1, <1>2, <1>3, <1>4, <1>5, <1>6, <1>7, <1>8, <1>9, <1>10, <1>11 DEF Next, Run, Edit

\* apply_watch_targets notes what it does.
LEMMA AttachedStep ==
    ASSUME AttachedIsActive, [Next]_vars
    PROVE AttachedIsActive'
<1>1. CASE LoadProject
  BY <1>1 DEF LoadProject, Fails, plan, AttachedIsActive
<1>2. CASE FinishBuild
  BY <1>2 DEF FinishBuild, Fails, WatchTargets, plan, AttachedIsActive
<1>3. CASE Applied
  BY <1>3 DEF Applied, plan, AttachedIsActive
<1>4. ASSUME NEW root \in Roots, ReadRoot(root) PROVE AttachedIsActive'
  BY <1>4 DEF ReadRoot, plan, AttachedIsActive
<1>5. ASSUME NEW path \in Paths, Unwatch(path) PROVE AttachedIsActive'
  BY <1>5 DEF Unwatch, Fails, DropPlan, AttachedIsActive
<1>6. ASSUME NEW path \in Paths, Watch(path) PROVE AttachedIsActive'
  BY <1>6 DEF Watch, Fails, DropPlan, AttachedIsActive
<1>7. CASE Receive
  BY <1>7 DEF Receive, plan, AttachedIsActive
<1>8. CASE Timeout
  BY <1>8 DEF Timeout, plan, AttachedIsActive
<1>9. ASSUME NEW settings \in Settings \cup {Invalid}, EditConfig(settings) PROVE AttachedIsActive'
  BY <1>9 DEF EditConfig, Changed, plan, AttachedIsActive
<1>10. ASSUME NEW root \in Roots, NEW contents \in Contents \cup {Absent}, EditRoot(root, contents)
       PROVE AttachedIsActive'
  BY <1>10 DEF EditRoot, Changed, plan, AttachedIsActive
<1>11. CASE UNCHANGED vars
  BY <1>11 DEF vars, plan, AttachedIsActive
<1> QED
  BY <1>1, <1>2, <1>3, <1>4, <1>5, <1>6, <1>7, <1>8, <1>9, <1>10, <1>11 DEF Next, Run, Edit

\* An edit is read by the rebuild that runs, or leads to another.
LEMMA CurrentStep ==
    ASSUME Ranges, Shaped, Loaded, CurrentOrAwaited, [Next]_vars
    PROVE CurrentOrAwaited'
<1>1. CASE LoadProject
  BY <1>1, PathFacts DEF LoadProject, Fails, plan, Ranges, Shaped, Loaded, CurrentOrAwaited, Relevant, Awaited
<1>2. CASE FinishBuild
  BY <1>2, PathFacts, WriteFacts DEF FinishBuild, Fails, WatchTargets, plan, Ranges, Shaped, Loaded, CurrentOrAwaited, Relevant, Awaited
<1>3. CASE Applied
  BY <1>3, PathFacts DEF Applied, plan, Ranges, Shaped, Loaded, CurrentOrAwaited, Relevant, Awaited
<1>4. ASSUME NEW root \in Roots, ReadRoot(root) PROVE CurrentOrAwaited'
  BY <1>4, PathFacts DEF ReadRoot, plan, Ranges, Shaped, Loaded, CurrentOrAwaited, Relevant, Awaited
<1>5. ASSUME NEW path \in Paths, Unwatch(path) PROVE CurrentOrAwaited'
  BY <1>5, PathFacts DEF Unwatch, Fails, DropPlan, Ranges, Shaped, Loaded, CurrentOrAwaited, Relevant, Awaited
<1>6. ASSUME NEW path \in Paths, Watch(path) PROVE CurrentOrAwaited'
  BY <1>6, PathFacts DEF Watch, Fails, DropPlan, Ranges, Shaped, Loaded, CurrentOrAwaited, Relevant, Awaited
<1>7. CASE Receive
  BY <1>7, PathFacts DEF Receive, plan, Ranges, Shaped, Loaded, CurrentOrAwaited, Relevant, Awaited
<1>8. CASE Timeout
  BY <1>8, PathFacts DEF Timeout, plan, Ranges, Shaped, Loaded, CurrentOrAwaited, Relevant, Awaited
<1>9. ASSUME NEW settings \in Settings \cup {Invalid}, EditConfig(settings) PROVE CurrentOrAwaited'
  BY <1>9, PathFacts DEF EditConfig, Changed, plan, Ranges, Shaped, Loaded, CurrentOrAwaited, Relevant, Awaited
<1>10. ASSUME NEW root \in Roots, NEW contents \in Contents \cup {Absent}, EditRoot(root, contents)
       PROVE CurrentOrAwaited'
  BY <1>10, PathFacts DEF EditRoot, Changed, plan, Ranges, Shaped, Loaded, CurrentOrAwaited, Relevant, Awaited
<1>11. CASE UNCHANGED vars
  BY <1>11, PathFacts DEF vars, plan, Ranges, Shaped, Loaded, CurrentOrAwaited, Relevant, Awaited
<1> QED
  BY <1>1, <1>2, <1>3, <1>4, <1>5, <1>6, <1>7, <1>8, <1>9, <1>10, <1>11 DEF Next, Run, Edit

\* Every step keeps the flags.
LEMMA FlagsStep ==
    ASSUME Flags, [Next]_vars
    PROVE Flags'
<1>1. CASE LoadProject
  BY <1>1 DEF LoadProject, Fails, plan, Flags
<1>2. CASE FinishBuild
  BY <1>2 DEF FinishBuild, Fails, WatchTargets, plan, Flags
<1>3. CASE Applied
  BY <1>3 DEF Applied, plan, Flags
<1>4. ASSUME NEW root \in Roots, ReadRoot(root) PROVE Flags'
  BY <1>4 DEF ReadRoot, plan, Flags
<1>5. ASSUME NEW path \in Paths, Unwatch(path) PROVE Flags'
  BY <1>5 DEF Unwatch, Fails, DropPlan, Flags
<1>6. ASSUME NEW path \in Paths, Watch(path) PROVE Flags'
  BY <1>6 DEF Watch, Fails, DropPlan, Flags
<1>7. CASE Receive
  BY <1>7 DEF Receive, plan, Flags
<1>8. CASE Timeout
  BY <1>8 DEF Timeout, plan, Flags
<1>9. ASSUME NEW settings \in Settings \cup {Invalid}, EditConfig(settings) PROVE Flags'
  BY <1>9 DEF EditConfig, Changed, plan, Flags
<1>10. ASSUME NEW root \in Roots, NEW contents \in Contents \cup {Absent}, EditRoot(root, contents)
       PROVE Flags'
  BY <1>10 DEF EditRoot, Changed, plan, Flags
<1>11. CASE UNCHANGED vars
  BY <1>11 DEF vars, plan, Flags
<1> QED
  BY <1>1, <1>2, <1>3, <1>4, <1>5, <1>6, <1>7, <1>8, <1>9, <1>10, <1>11 DEF Next, Run, Edit

\* Every step keeps the ranges.
LEMMA RangesStep ==
    ASSUME Ranges, Shaped, Loaded, [Next]_vars
    PROVE Ranges'
<1>1. CASE LoadProject
  BY <1>1, PathFacts, WatchAssumption DEF LoadProject, Fails, plan, Ranges, Shaped, Loaded
<1>2. CASE FinishBuild
  BY <1>2, PathFacts, WriteFacts, WatchAssumption DEF FinishBuild, Fails, WatchTargets, plan, Ranges, Shaped, Loaded
<1>3. CASE Applied
  BY <1>3, PathFacts, WatchAssumption DEF Applied, plan, Ranges, Shaped, Loaded
<1>4. ASSUME NEW root \in Roots, ReadRoot(root) PROVE Ranges'
  BY <1>4, PathFacts, WatchAssumption DEF ReadRoot, plan, Ranges, Shaped, Loaded
<1>5. ASSUME NEW path \in Paths, Unwatch(path) PROVE Ranges'
  BY <1>5, PathFacts, WatchAssumption DEF Unwatch, Fails, DropPlan, Ranges, Shaped, Loaded
<1>6. ASSUME NEW path \in Paths, Watch(path) PROVE Ranges'
  BY <1>6, PathFacts, WatchAssumption DEF Watch, Fails, DropPlan, Ranges, Shaped, Loaded
<1>7. CASE Receive
  BY <1>7, PathFacts, WatchAssumption DEF Receive, plan, Ranges, Shaped, Loaded
<1>8. CASE Timeout
  BY <1>8, PathFacts, WatchAssumption DEF Timeout, plan, Ranges, Shaped, Loaded
<1>9. ASSUME NEW settings \in Settings \cup {Invalid}, EditConfig(settings) PROVE Ranges'
  BY <1>9, PathFacts, WatchAssumption DEF EditConfig, Changed, plan, Ranges, Shaped, Loaded
<1>10. ASSUME NEW root \in Roots, NEW contents \in Contents \cup {Absent}, EditRoot(root, contents)
       PROVE Ranges'
  BY <1>10, PathFacts, WatchAssumption DEF EditRoot, Changed, plan, Ranges, Shaped, Loaded
<1>11. CASE UNCHANGED vars
  BY <1>11, PathFacts, WatchAssumption DEF vars, plan, Ranges, Shaped, Loaded
<1> QED
  BY <1>1, <1>2, <1>3, <1>4, <1>5, <1>6, <1>7, <1>8, <1>9, <1>10, <1>11 DEF Next, Run, Edit

\* What the plan is worked off towards stays the same, and is what the loop then watches.
LEMMA PlanStep ==
    ASSUME Ranges, Shaped, Loaded, AttachedIsActive, PlanFollows, [Next]_vars
    PROVE PlanFollows'
<1>1. CASE LoadProject
  BY <1>1, PathFacts DEF LoadProject, Fails, plan, Ranges, Shaped, Loaded, AttachedIsActive, PlanFollows, Planned, Follows
<1>2. CASE FinishBuild
  BY <1>2, PathFacts, WriteFacts DEF FinishBuild, Fails, WatchTargets, plan, Ranges, Shaped, Loaded, AttachedIsActive, PlanFollows, Planned, Follows
<1>3. CASE Applied
  BY <1>3, PathFacts DEF Applied, plan, Ranges, Shaped, Loaded, AttachedIsActive, PlanFollows, Planned, Follows
<1>4. ASSUME NEW root \in Roots, ReadRoot(root) PROVE PlanFollows'
  BY <1>4, PathFacts DEF ReadRoot, plan, Ranges, Shaped, Loaded, AttachedIsActive, PlanFollows, Planned, Follows
<1>5. ASSUME NEW path \in Paths, Unwatch(path) PROVE PlanFollows'
  BY <1>5, PathFacts DEF Unwatch, Fails, DropPlan, Ranges, Shaped, Loaded, AttachedIsActive, PlanFollows, Planned, Follows
<1>6. ASSUME NEW path \in Paths, Watch(path) PROVE PlanFollows'
  BY <1>6, PathFacts DEF Watch, Fails, DropPlan, Ranges, Shaped, Loaded, AttachedIsActive, PlanFollows, Planned, Follows
<1>7. CASE Receive
  BY <1>7, PathFacts DEF Receive, plan, Ranges, Shaped, Loaded, AttachedIsActive, PlanFollows, Planned, Follows
<1>8. CASE Timeout
  BY <1>8, PathFacts DEF Timeout, plan, Ranges, Shaped, Loaded, AttachedIsActive, PlanFollows, Planned, Follows
<1>9. ASSUME NEW settings \in Settings \cup {Invalid}, EditConfig(settings) PROVE PlanFollows'
  BY <1>9, PathFacts DEF EditConfig, Changed, plan, Ranges, Shaped, Loaded, AttachedIsActive, PlanFollows, Planned, Follows
<1>10. ASSUME NEW root \in Roots, NEW contents \in Contents \cup {Absent}, EditRoot(root, contents)
       PROVE PlanFollows'
  BY <1>10, PathFacts DEF EditRoot, Changed, plan, Ranges, Shaped, Loaded, AttachedIsActive, PlanFollows, Planned, Follows
<1>11. CASE UNCHANGED vars
  BY <1>11, PathFacts DEF vars, plan, Ranges, Shaped, Loaded, AttachedIsActive, PlanFollows, Planned, Follows
<1> QED
  BY <1>1, <1>2, <1>3, <1>4, <1>5, <1>6, <1>7, <1>8, <1>9, <1>10, <1>11 DEF Next, Run, Edit

-----------------------------------------------------------------------------
\* The inductive invariant of run_watch: while files change between any two steps
\* of a rebuild, nothing it depends on is both stale and forgotten.
THEOREM LoopInvariant == Spec => []IInv
<1>1. Init => IInv
  BY InitIsSound
<1>2. IInv /\ [Next]_vars => IInv'
  BY ShapedStep, LoadedStep, AttachedStep, CurrentStep, FlagsStep, RangesStep, PlanStep
     DEF IInv, TypeOK
<1> QED
  BY <1>1, <1>2, PTL DEF Spec

\* Every variable of watch mode stays within its range.
THEOREM TypeCorrect == Spec => []TypeOK
<1>1. IInv => TypeOK
  BY DEF IInv
<1> QED
  BY <1>1, LoopInvariant, PTL

\* When run_watch waits for an event, its last rebuild has read every edit a watch
\* reported, for any source roots and however the edits fall between its steps.
THEOREM WaitsOnCurrentBuild == Spec => []LastRebuildIsCurrent
<1>1. IInv => LastRebuildIsCurrent
  BY DEF IInv, TypeOK, Ranges, CurrentOrAwaited, Awaited, LastRebuildIsCurrent, Idle, Current
<1> QED
  BY <1>1, LoopInvariant, PTL

\* After a rebuild that succeeded, run_watch watches what the configuration names,
\* whatever apply_watch_targets failed at before.
THEOREM WatchesAreTheConfigured == Spec => []WatchesFollowConfig
<1>1. IInv => WatchesFollowConfig
  BY DEF IInv, TypeOK, Ranges, PlanFollows, Follows, WatchesFollowConfig, Idle
<1> QED
  BY <1>1, LoopInvariant, PTL

\* apply_watch_targets adds to active_watch_targets only what was watched.
THEOREM ActiveIsWatched == Spec => ActiveWasWatched
<1>1. [Next]_vars => [active' \ active \subseteq attached']_vars
  <2> SUFFICES ASSUME [Next]_vars PROVE active' \ active \subseteq attached' \/ UNCHANGED vars
    OBVIOUS
  <2>1. ASSUME NEW path \in Paths, Unwatch(path) PROVE active' \subseteq active
    BY <2>1 DEF Unwatch
  <2>2. ASSUME NEW path \in Paths, Watch(path) PROVE active' \ active \subseteq attached'
    BY <2>2 DEF Watch
  <2>3. CASE LoadProject \/ FinishBuild \/ Applied \/ Receive \/ Timeout
    BY <2>3 DEF LoadProject, FinishBuild, Applied, Receive, Timeout
  <2>4. CASE (\E root \in Roots : ReadRoot(root)) \/ Edit
    BY <2>4 DEF ReadRoot, Edit, EditConfig, EditRoot, Changed
  <2> QED
    BY <2>1, <2>2, <2>3, <2>4 DEF Next, Run
<1> QED
  BY <1>1, PTL DEF Spec, ActiveWasWatched
=============================================================================
