----------------------------- MODULE WatchLoop -----------------------------
(***************************************************************************)
(* Watch mode: run_watch of crates/typepython_cli/src/main.rs, with the    *)
(* project's files, the editor and the file watcher as the environment.    *)
(*                                                                         *)
(* A rebuild is what BuildPipeline makes of it; here it only matters what  *)
(* it read, and when.  The project is reloaded and built, the watches are  *)
(* adjusted to the configuration it loaded, and the loop waits again.      *)
(*                                                                         *)
(* An event's paths only reach a note, so the channel is a number of       *)
(* events.  An error of the watcher is printed wherever it is received and *)
(* leaves the loop where it was: it is no step of this module.             *)
(***************************************************************************)
EXTENDS Naturals, FiniteSets

CONSTANTS
    Roots,           \* directories that may be source roots
    Settings,        \* what the configuration may say: the source roots it names (src), and
                     \* the roots that out_dir or cache_dir lie under (written)
    Contents,        \* what the source files under a root may be
    Invalid,         \* a configuration that does not load
    Absent,          \* the contents of a root that does not exist
    MaxChannel       \* bound: events on their way to the loop

ASSUME WatchAssumption ==
    /\ "typepython.toml" \notin Roots
    /\ Settings \subseteq [src : SUBSET Roots, written : SUBSET Roots]
    /\ Invalid \notin Settings
    /\ Absent \notin Contents
    /\ MaxChannel \in Nat \ {0}

Config == "typepython.toml"
Paths == Roots \cup {Config}

VARIABLES
    disk,            \* the files as they are: config, and the contents of each root
    attached,        \* paths the operating system reports changes of
    channel,         \* number of events the watcher has sent
    unseen,          \* paths changed without an event since they were read
    active,          \* active_watch_targets
    toUnwatch,       \* WatchTargetUpdatePlan, of which what is done is dropped
    toWatch,
    applied,         \* did the last rebuild adjust the watches to its end?
    read,            \* per path, what the last rebuild that read it found
    toRead,          \* roots the running rebuild has still to read
    pc,              \* where the loop is
    initial          \* is this the build before the loop?

vars == <<disk, attached, channel, unseen, active, toUnwatch, toWatch, applied,
          read, toRead, pc, initial>>
plan == <<toUnwatch, toWatch>>
-----------------------------------------------------------------------------
(* The rebuild: load_project, then the pipeline. *)

\* Mutant of Fails: a rebuild that failed is tried again at once.
FailsRetrying ==
    /\ pc' = IF initial THEN "exited" ELSE "load"
    /\ applied' = FALSE

\* What fails ends run_watch before its loop, and is printed and waited out
\* inside of it: the watches stay as they are.
Fails ==
    /\ pc' = IF initial THEN "exited" ELSE "recv"
    /\ applied' = FALSE

\* run_watch_rebuild: the configuration is read anew, then the sources are.
LoadProject ==
    /\ pc = "load"
    /\ read' = [read EXCEPT ![Config] = disk[Config]]
    /\ unseen' = unseen \ {Config}
    /\ IF disk[Config] = Invalid
       THEN Fails /\ UNCHANGED toRead
       ELSE pc' = "build" /\ toRead' = disk[Config].src /\ UNCHANGED applied
    /\ UNCHANGED <<disk, attached, channel, active, plan, initial>>

ReadRoot(root) ==
    /\ pc = "build"
    /\ root \in toRead
    /\ read' = [read EXCEPT ![root] = disk[root]]
    /\ unseen' = unseen \ {root}
    /\ toRead' = toRead \ {root}
    /\ UNCHANGED <<disk, attached, channel, active, plan, applied, pc, initial>>

\* watch_targets: the configuration file, and the source roots that exist.
WatchTargets(settings) == {Config} \cup {root \in settings.src : disk[root] # Absent}

\* Out_dir and cache_dir may lie under a root that is watched, of which events are
\* not filtered: what a rebuild writes there causes another.  (project.exclude keeps
\* it from being a source.)
WritesAreWatched(settings) == settings.written \cap attached # {}

\* The pipeline writes, unless there is something to block on first.
Write ==
    \/ UNCHANGED channel
    \/ /\ WritesAreWatched(read[Config])
       /\ channel' = IF channel < MaxChannel THEN channel + 1 ELSE channel

\* Mutant of FinishBuild: what the configuration no longer names stays watched.
FinishBuildAdding ==
    /\ pc = "build"
    /\ toRead = {}
    /\ Write
    /\ \/ /\ pc' = "apply"
          /\ toWatch' = WatchTargets(read[Config]) \ active
          /\ UNCHANGED <<toUnwatch, applied>>
       \/ Fails /\ UNCHANGED plan
    /\ UNCHANGED <<disk, attached, unseen, active, read, toRead, initial>>

\* Type errors and outputs that cannot be written are an exit code; what remains
\* fails the rebuild.  plan_watch_target_update then compares with what is watched.
FinishBuild ==
    /\ pc = "build"
    /\ toRead = {}
    /\ Write
    /\ \/ /\ pc' = "apply"
          /\ toUnwatch' = active \ WatchTargets(read[Config])
          /\ toWatch' = WatchTargets(read[Config]) \ active
          /\ UNCHANGED applied
       \/ Fails /\ UNCHANGED plan
    /\ UNCHANGED <<disk, attached, unseen, active, read, toRead, initial>>
-----------------------------------------------------------------------------
(* apply_watch_targets: first every unwatch, then every watch.  The first that *)
(* fails ends it; what was done stays done. *)

DropPlan == toUnwatch' = {} /\ toWatch' = {}

Unwatch(path) ==
    /\ pc = "apply"
    /\ path \in toUnwatch
    /\ \/ /\ attached' = attached \ {path}
          /\ active' = active \ {path}
          /\ toUnwatch' = toUnwatch \ {path}
          /\ UNCHANGED <<toWatch, applied, pc>>
       \/ Fails /\ DropPlan /\ UNCHANGED <<attached, active>>
    /\ UNCHANGED <<disk, channel, unseen, read, toRead, initial>>

\* Mutant of Watch: the target counts as watched before the call that may fail.
WatchFirst(path) ==
    /\ pc = "apply"
    /\ toUnwatch = {}
    /\ path \in toWatch
    /\ active' = active \cup {path}
    /\ \/ /\ disk[path] # Absent
          /\ attached' = attached \cup {path}
          /\ toWatch' = toWatch \ {path}
          /\ UNCHANGED <<toUnwatch, applied, pc>>
       \/ Fails /\ DropPlan /\ UNCHANGED attached
    /\ UNCHANGED <<disk, channel, unseen, read, toRead, initial>>

Watch(path) ==
    /\ pc = "apply"
    /\ toUnwatch = {}
    /\ path \in toWatch
    /\ \/ /\ disk[path] # Absent
          /\ attached' = attached \cup {path}
          /\ active' = active \cup {path}
          /\ toWatch' = toWatch \ {path}
          /\ UNCHANGED <<toUnwatch, applied, pc>>
       \/ Fails /\ DropPlan /\ UNCHANGED <<attached, active>>
    /\ UNCHANGED <<disk, channel, unseen, read, toRead, initial>>

\* Mutant of Applied: the events that came during the rebuild are taken for its own.
AppliedDraining ==
    /\ pc = "apply"
    /\ toUnwatch = {} /\ toWatch = {}
    /\ pc' = "recv"
    /\ initial' = FALSE
    /\ applied' = TRUE
    /\ channel' = 0
    /\ UNCHANGED <<disk, attached, unseen, active, plan, read, toRead>>

Applied ==
    /\ pc = "apply"
    /\ toUnwatch = {} /\ toWatch = {}
    /\ pc' = "recv"
    /\ initial' = FALSE
    /\ applied' = TRUE
    /\ UNCHANGED <<disk, attached, channel, unseen, active, plan, read, toRead>>
-----------------------------------------------------------------------------
(* The loop: one receive, then receives until one of them times out. *)

\* Mutant of Receive: it does not wait for an event.
ReceiveBlindly ==
    /\ pc \in {"recv", "debounce"}
    /\ channel' = channel - 1
    /\ pc' = "debounce"
    /\ UNCHANGED <<disk, attached, unseen, active, plan, applied, read, toRead, initial>>

Receive ==
    /\ pc \in {"recv", "debounce"}
    /\ channel > 0
    /\ channel' = channel - 1
    /\ pc' = "debounce"
    /\ UNCHANGED <<disk, attached, unseen, active, plan, applied, read, toRead, initial>>

\* The debounce has passed without an event.
Timeout ==
    /\ pc = "debounce"
    /\ channel = 0
    /\ pc' = "load"
    /\ UNCHANGED <<disk, attached, channel, unseen, active, plan, applied, read, toRead,
                   initial>>
-----------------------------------------------------------------------------
(* The environment. *)

\* A path is changed.  The watcher sends an event if it is attached; a file
\* that is replaced, or a directory that is removed, may take its watch along.
Changed(path) ==
    /\ pc # "exited"
    /\ channel < MaxChannel
    /\ \/ /\ path \in attached
          /\ channel' = channel + 1
          /\ attached' \in {attached, attached \ {path}}
          /\ UNCHANGED unseen
       \/ /\ path \notin attached
          /\ unseen' = unseen \cup {path}
          /\ UNCHANGED <<attached, channel>>
    /\ UNCHANGED <<active, plan, applied, read, toRead, pc, initial>>

EditConfig(settings) ==
    /\ disk[Config] # settings
    /\ disk' = [disk EXCEPT ![Config] = settings]
    /\ Changed(Config)

EditRoot(root, contents) ==
    /\ disk[root] # contents
    /\ disk' = [disk EXCEPT ![root] = contents]
    /\ Changed(root)
-----------------------------------------------------------------------------
Init ==
    /\ \E settings \in Settings, contents \in [Roots -> Contents \cup {Absent}] :
          disk = [path \in Paths |-> IF path = Config THEN settings ELSE contents[path]]
    /\ attached = {} /\ channel = 0 /\ unseen = {}
    /\ active = {} /\ toUnwatch = {} /\ toWatch = {} /\ applied = FALSE
    /\ read = disk /\ toRead = {}
    /\ pc = "load" /\ initial = TRUE

Run ==
    \/ LoadProject \/ FinishBuild \/ Applied
    \/ \E root \in Roots : ReadRoot(root)
    \/ \E path \in Paths : Unwatch(path) \/ Watch(path)
    \/ Receive \/ Timeout

Edit ==
    \/ \E settings \in Settings \cup {Invalid} : EditConfig(settings)
    \/ \E root \in Roots, contents \in Contents \cup {Absent} : EditRoot(root, contents)

Next == Run \/ Edit

\* The loop runs: a rebuild ends, what is in the channel is received, and the
\* clock of recv_timeout passes.  Nothing is asked of the environment.
Spec == Init /\ [][Next]_vars /\ WF_vars(Run)
-----------------------------------------------------------------------------
Ranges ==
    /\ disk[Config] \in Settings \cup {Invalid}
    /\ read[Config] \in Settings \cup {Invalid}
    /\ \A root \in Roots : {disk[root], read[root]} \subseteq Contents \cup {Absent}
    /\ active \cup attached \cup unseen \cup toUnwatch \cup toWatch \subseteq Paths
    /\ channel \in 0 .. MaxChannel
    /\ toRead \subseteq Roots
    /\ pc \in {"load", "build", "apply", "recv", "debounce", "exited"}

Flags == initial \in BOOLEAN /\ applied \in BOOLEAN

\* The sets each variable ranges over.
TypeOK == Ranges /\ Flags

Idle == pc = "recv" /\ channel = 0

\* What the last rebuild depends on: the configuration, and its source roots.
Relevant == {Config} \cup (IF read[Config] = Invalid THEN {} ELSE read[Config].src)

Current == \A path \in Relevant : path \in unseen \/ read[path] = disk[path]

\* While run_watch waits, the last rebuild has seen every file as it is now, unless
\* it changed where no watch was: an edit during a rebuild, during the debounce
\* or after a configuration that did not load leads to another.
LastRebuildIsCurrent == Idle => Current

\* active_watch_targets never gains a path the watcher did not take: what an
\* apply_watch_targets that failed halfway left undone, the next one does.
ActiveWasWatched == [][active' \ active \subseteq attached']_vars

\* After a rebuild that succeeded the loop watches the configuration and each
\* source root it names that existed by then, and nothing the configuration no
\* longer names, whatever failed in the rebuilds before.
WatchesFollowConfig ==
    (Idle /\ applied) =>
        /\ Config \in active
        /\ active \ {Config} \subseteq read[Config].src
        /\ \A root \in read[Config].src \ active : disk[root] # Absent => root \in unseen

\* When the edits stop, the rebuilds of run_watch come to be of the last edit; and so
\* do the rebuilds stop, unless what they write is under a root that is watched: then
\* one may follow the other without end.
SettlesAfterEdits ==
    <>[][~Edit]_vars =>
        /\ <>[](pc = "exited" \/ Current)
        /\ <>[](read[Config] = Invalid \/ ~WritesAreWatched(read[Config]))
              => <>[](pc = "exited" \/ Idle)
=============================================================================
