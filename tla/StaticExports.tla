--------------------------- MODULE StaticExports ---------------------------
(***************************************************************************)
(* static_all_names of crates/typepython_cli/src/api_diff.rs: the names a  *)
(* module exports, from an abstract run of its statements.  The states of  *)
(* the analysis are kept beside every state Python may be in after the     *)
(* same statements, in which names are bound to objects that several names *)
(* and containers may share.                                               *)
(*                                                                         *)
(* A program is a sequence of statements of Menu; a behaviour appends one  *)
(* statement at a time.  Strings are model values; a list, a tuple and a   *)
(* set are one kind of sequence.                                           *)
(***************************************************************************)
EXTENDS ModuleRuns

CONSTANTS
    Menu,            \* the statements programs are made of
    MaxStates,       \* MAX_STATIC_ALL_STATES
    MaxStatements    \* bound: statements of a program

ASSUME MenuAssumption == \A st \in Menu : IsStatement(st)
ASSUME LimitAssumption == MaxStates \in Nat \ {0}
ASSUME StringsAssumption == Strings \cap {"unresolved", "none", "unknown"} = {}

Unresolved == <<"unresolved">>

VARIABLES
    tracked,         \* static_all_dependency_names
    states,          \* of the analysis
    failed,          \* has it returned an error?
    runs,            \* what Python may have computed by now
    mentioned,       \* suite_references_static_all
    length           \* of the program

vars == <<tracked, states, failed, runs, mentioned, length>>
-----------------------------------------------------------------------------
(* Expressions and StaticAllState. *)

\* TrackedEffectFinder: a call that mentions a tracked name.
HasEffect(e) == e.kind = "call" /\ References(e) \cap tracked # {}

\* resolve_string_sequence
Resolve(e, known) ==
    CASE e.kind = "name" /\ e.names[1] \in DOMAIN known -> known[e.names[1]]
      [] e.kind = "seq" /\ References(e) \subseteq DOMAIN known ->
            FlattenSeq([i \in DOMAIN e.parts |->
                      IF e.parts[i] \in Names THEN known[e.parts[i]] ELSE <<e.parts[i]>>])
      [] OTHER -> Unresolved

NoSequences == [n \in {} |-> << >>]

NewState == [known |-> NoSequences, aliases |-> {}, exports |-> "missing", dynamic |-> FALSE]

Learn(s, n, values) == [m \in DOMAIN s.known \cup {n} |-> IF m = n THEN values ELSE s.known[m]]
Forget(s, n) == [m \in DOMAIN s.known \ {n} |-> s.known[m]]

BreakAlias(s, n) == {pair \in s.aliases : n \notin pair}

AssignSequence(s, n, values) ==
    IF n \notin tracked THEN s
    ELSE IF values = Unresolved
    THEN [s EXCEPT !.aliases = BreakAlias(s, n), !.known = Forget(s, n),
                   !.exports = IF n = All THEN "dynamic" ELSE @,
                   !.dynamic = @ \/ n = All]
    ELSE [s EXCEPT !.aliases = BreakAlias(s, n), !.known = Learn(s, n, values),
                   !.exports = IF n = All THEN "known" ELSE @]

DeleteSequence(s, n) ==
    IF n \notin tracked THEN s
    ELSE [s EXCEPT !.aliases = BreakAlias(s, n), !.known = Forget(s, n),
                   !.exports = IF n = All THEN "missing" ELSE @]

Aliases(s, n) == {n} \cup UNION {pair \in s.aliases : n \in pair}
PairsOf(group) == {{m, n} : m \in group, n \in group} \ {{n} : n \in group}

\* Mutant of add_alias: only the two names are paired.
AddAliasOfTwo(s, left, right) ==
    IF left = right \/ ~({left, right} \subseteq tracked) THEN s
    ELSE [s EXCEPT !.aliases = @ \cup {{left, right}}]

\* add_alias: the pairs in `aliases` are transitive, so one step closes the group.
AddAlias(s, left, right) ==
    IF left = right \/ ~({left, right} \subseteq tracked) THEN s
    ELSE [s EXCEPT !.aliases = @ \cup PairsOf(Aliases(s, left) \cup Aliases(s, right))]

IsAliased(s, n) == \E pair \in s.aliases : n \in pair

MarkDynamic(s) ==
    [s EXCEPT !.known = Forget(s, All), !.exports = "dynamic", !.dynamic = TRUE]
-----------------------------------------------------------------------------
(* Statements without a body. *)

AssignAll(s, names, values) ==
    FoldLeft(LAMBDA t, n : AssignSequence(t, n, values), s, names)

DeleteAll(s, names) == FoldLeft(DeleteSequence, s, names)

AliasAll(s, names, n) == FoldLeft(LAMBDA t, m : AddAlias(t, m, n), s, names)

\* Direct targets share the object of a name, or of the first of them.
AliasTargets(s, names, e) ==
    AliasAll(IF e.kind = "name" THEN AliasAll(s, names, e.names[1]) ELSE s, Tail(names), names[1])

\* += and .extend, of a sequence that is known and not shared.
ExtendedBy(s, n, more) ==
    IF n \in DOMAIN s.known /\ more # Unresolved THEN AssignSequence(s, n, s.known[n] \o more)
    ELSE IF n \in tracked THEN MarkDynamic(s) ELSE s
Extended(s, n, e) == ExtendedBy(s, n, Resolve(e, s.known))

\* .append, whose argument is resolved only when it is a string.
Appended(s, n, e) == IF e.kind = "seq" THEN Extended(s, n, e) ELSE ExtendedBy(s, n, Unresolved)

\* evaluate_static_all_simple_statement
Simple(s, st) ==
    CASE st.op \in {"assign", "unpack", "item", "aug", "call"} /\ HasEffect(st.value) ->
            MarkDynamic(s)
      [] st.op = "assign" /\ ~HasEffect(st.value) ->
            AliasTargets(AssignAll(s, st.names, Resolve(st.value, s.known)), st.names, st.value)
      [] st.op = "unpack" /\ ~HasEffect(st.value) ->
            AssignAll(s, st.names, Resolve(st.value, s.known))
      [] st.op = "item" /\ ~HasEffect(st.value) ->
            IF References(st.value) \cup Range(st.names) \subseteq Names \ tracked
            THEN s ELSE MarkDynamic(s)
      [] st.op = "aug" /\ ~HasEffect(st.value) ->
            IF IsAliased(s, st.names[1]) THEN MarkDynamic(s)
            ELSE Extended(s, st.names[1], st.value)
      [] st.op \in {"append", "extend", "method"} ->
            IF st.names[1] \notin tracked
            THEN IF References(st.value) \cap tracked = {} THEN s ELSE MarkDynamic(s)
            ELSE IF \/ st.op = "method"
                    \/ IsAliased(s, st.names[1])
                    \/ HasEffect(st.value)
            THEN MarkDynamic(s)
            ELSE IF st.op = "append" THEN Appended(s, st.names[1], st.value)
            ELSE Extended(s, st.names[1], st.value)
      [] st.op \in {"declare", "import", "def"} -> AssignAll(s, st.names, Unresolved)
      [] st.op = "delete" -> DeleteAll(s, st.names)
      [] st.op = "delitem" -> IF st.names[1] \in tracked THEN MarkDynamic(s) ELSE s
      [] OTHER -> s

Sound(ss) == [states |-> ss, failed |-> FALSE]
Error == [states |-> {}, failed |-> TRUE]

\* bounded_static_all_states
Bounded(ss) == IF Cardinality(ss) <= MaxStates THEN Sound(ss) ELSE Error

Then(result, Op(_)) == IF result.failed THEN Error ELSE Op(result.states)

Join(first, second) ==
    IF first.failed \/ second.failed THEN Error
    ELSE Sound(first.states \cup second.states)
-----------------------------------------------------------------------------
(* If and Try.  Their suites hold statements without a body; that of a try    *)
(* may hold an if.                                                            *)

SimpleStep(r, st) == Then(r, LAMBDA now : Bounded({Simple(s, st) : s \in now}))
SimpleSuite(ss, suite) == FoldLeft(SimpleStep, Sound(ss), suite)

\* The states that come past the test of a clause.
ReachClause(ss, clause) ==
    IF clause.test = "else" \/ ~HasEffect(clause.value) THEN ss ELSE {MarkDynamic(s) : s \in ss}

\* Mutant of ClauseOf: what a test says of itself is not looked at.
ClauseOfAnyway(r, clause, remaining) ==
    [completed |-> Join(r.completed, SimpleSuite(remaining, clause.body)),
     remaining |-> IF clause.test = "else" THEN {} ELSE remaining]

\* A clause is a test and a suite; an else is a clause whose test is "else".
\* literal_boolean_value decides which of them may run.
ClauseOf(r, clause, remaining) ==
    [completed |-> IF clause.test = "false" THEN r.completed
                   ELSE Join(r.completed, SimpleSuite(remaining, clause.body)),
     remaining |-> IF clause.test \in {"true", "else"} THEN {} ELSE remaining]

Clause(r, clause) == ClauseOf(r, clause, ReachClause(r.remaining, clause))

\* evaluate_static_all_if
EndOfClauses(end) == Then(end.completed, LAMBDA done : Bounded(done \cup end.remaining))
Clauses(ss, clauses) ==
    FoldLeft(Clause, [completed |-> Sound({}), remaining |-> ss], clauses)
If(ss, st) == EndOfClauses(Clauses(ss, st.clauses))

Flat(ss, st) == IF st.op = "if" THEN If(ss, st) ELSE Bounded({Simple(s, st) : s \in ss})
FlatStep(r, st) == Then(r, LAMBDA now : Flat(now, st))
FlatSuite(ss, suite) == FoldLeft(FlatStep, Sound(ss), suite)

\* statement_may_change_static_sequences
MayChangeSimple(st) ==
    /\ st.op \in {"assign", "unpack", "declare", "aug", "item", "append", "extend",
                  "method", "delete", "delitem"}
    /\ Range(st.names) \cap tracked # {}
MayChange(st) ==
    IF st.op = "if"
    THEN \E clause \in Range(st.clauses) :
            \/ clause.test # "else" /\ HasEffect(clause.value)
            \/ \E inner \in Range(clause.body) : MayChangeSimple(inner)
    ELSE MayChangeSimple(st)

\* Mutant of TryStep: a handler only sees the whole body done.
TryStepCompleted(r, next) == [normal |-> next, exceptional |-> next]

\* evaluate_static_all_try_body: a handler may see every prefix of the body.
TryStep(r, next) ==
    [normal |-> next, exceptional |-> Then(Join(Join(r.exceptional, r.normal), next), Bounded)]

BodyStep(r, st) ==
    IF (st.op = "if" /\ MayChange(st)) \/ r.normal.failed \/ r.exceptional.failed
    THEN [normal |-> Error, exceptional |-> Error]
    ELSE TryStep(r, Flat(r.normal.states, st))
TryBody(s, body) ==
    FoldLeft(BodyStep, [normal |-> Sound({s}), exceptional |-> Sound({s})], body)

\* The exception is bound to the handler's name, and unbound after its suite.
Handler(ss, handler) ==
    Then(FlatSuite({AssignAll(s, handler.names, Unresolved) : s \in ss}, handler.body),
         LAMBDA now : Sound({DeleteAll(s, handler.names) : s \in now}))

\* evaluate_static_all_try
EndsOf(body, st) ==
    IF body.normal.failed \/ body.exceptional.failed THEN {Error}
    ELSE {FlatSuite(body.normal.states, st.orelse)}
            \cup {Handler(body.exceptional.states, h) : h \in Range(st.handlers)}
EndOfTries(ends, st) ==
    IF \E end \in ends : end.failed THEN Error
    ELSE Then(Bounded(UNION {end.states : end \in ends}), LAMBDA now : FlatSuite(now, st.finalbody))
Try(ss, st) == EndOfTries(UNION {EndsOf(TryBody(s, st.body), st) : s \in ss}, st)

\* evaluate_static_all_statement
Statement(ss, st) == IF st.op = "try" THEN Try(ss, st) ELSE Flat(ss, st)
-----------------------------------------------------------------------------
(* static_all_names *)

\* Mutant of StaticAllDependencyCollector: a value is not tied to its targets.
EdgesForward(st) ==
    CASE st.op \in {"assign", "unpack", "aug", "append", "extend", "method"} ->
            Range(st.names) \X References(st.value)
      [] st.op = "def" -> st.effects \X Range(st.names)
      [] OTHER -> {}

\* StaticAllDependencyCollector: the names a statement without a body ties together.
\* Functions are tied to what they work on, not to their default arguments.
Edges(st) ==
    CASE st.op = "assign" ->
            (Range(st.names) \X References(st.value)) \cup (References(st.value) \X Range(st.names))
            \cup (Range(st.names) \X Range(st.names))
      [] st.op = "unpack" ->
            (Range(st.names) \X References(st.value)) \cup (References(st.value) \X Range(st.names))
      [] st.op \in {"aug", "append", "extend", "method"} -> Range(st.names) \X References(st.value)
      [] st.op = "def" -> st.effects \X Range(st.names)
      [] OTHER -> {}

\* The statements without a body that a statement consists of, and its ifs.
Direct(st) ==
    IF st.op = "try"
    THEN Range(st.body) \cup Range(st.orelse) \cup Range(st.finalbody)
            \cup UNION {Range(h.body) : h \in Range(st.handlers)}
    ELSE {st}
Ifs(st) == {x \in Direct(st) : x.op = "if"}
Inner(st) ==
    (Direct(st) \ Ifs(st))
    \cup UNION {UNION {Range(clause.body) : clause \in Range(x.clauses)} : x \in Ifs(st)}

\* static_all_dependency_names is the least set with __all__ that is closed under
\* the edges of the whole program: here, any set that is.
Closed(st) ==
    \A edge \in UNION {Edges(x) : x \in Inner(st)} :
        edge[1] \in tracked => edge[2] \in tracked

\* StaticAllReferenceFinder
MentionsSimple(x) ==
    All \in Range(x.names) \cup References(x.value)
               \cup (IF x.op = "def" THEN x.effects \cup x.defaults ELSE {})

\* suite_references_static_all: statements, tests, and the names of handlers.
Mentions(st) ==
    \/ \E x \in Inner(st) : MentionsSimple(x)
    \/ \E x \in Ifs(st) : \E clause \in Range(x.clauses) : All \in References(clause.value)
    \/ st.op = "try" /\ \E h \in Range(st.handlers) : All \in Range(h.names)

Init ==
    /\ tracked \in {names \in SUBSET Names : All \in names}
    /\ states = {NewState}
    /\ failed = FALSE
    /\ runs = {Start}
    /\ mentioned = FALSE
    /\ length = 0

\* The program goes on with a statement.
Extend(st) ==
    /\ length < MaxStatements
    /\ ~failed
    /\ Closed(st)
    /\ \E result \in {Statement(states, st)} :
         /\ states' = result.states
         /\ failed' = result.failed
    /\ runs' = StatementRuns(runs, st)
    /\ mentioned' = (mentioned \/ Mentions(st))
    /\ length' = length + 1
    /\ UNCHANGED tracked

Next == \E st \in Menu : Extend(st)

Spec == Init /\ [][Next]_vars
-----------------------------------------------------------------------------
None == {"none"}
Unknown == {"unknown"}

\* The end of static_all_names.
Result ==
    CASE ~mentioned -> None
      [] mentioned /\ (failed \/ \E s \in states : s.dynamic) -> Unknown
      [] OTHER ->
            LET known == {s \in states : s.exports = "known"}
            IN  CASE known = {} -> None
                  [] known # {} /\ known # states -> Unknown
                  [] OTHER -> UNION {Range(s.known[All]) : s \in known}

Resolved == Result \notin {None, Unknown}

\* What the analysis follows: not an import under with, x[0][0] = ..., a default
\* argument, a name assigned to itself, or += of what other names hold.
FollowedSimple(st) ==
    /\ st.op \notin {"withimport", "nested"}
    /\ st.op = "def" => st.defaults = {}
    /\ st.op = "assign" /\ st.value.kind = "name" => st.value.names[1] \notin Range(st.names)
    /\ st.op = "aug" => st.names = <<All>> \/ st.value.kind = "call" \/ References(st.value) = {}
Followed(st) == \A x \in Inner(st) : FollowedSimple(x)

\* A state tells the truth about a run of the module.
Describes(s, run) ==
    \/ s.dynamic
    \/ /\ s.exports = "missing" => run.env[All] = Unbound
       /\ \A n \in DOMAIN s.known :
          /\ run.env[n] # Unbound
          /\ Value(run, n).list
          /\ Value(run, n).items = s.known[n]
          /\ \A m \in DOMAIN s.known \ {n} :
                   run.env[m] = run.env[n] => {m, n} \in s.aliases

\* The analysis keeps known sequences for tracked names, alias pairs that are an
\* equivalence, and no more states than its limit.
TypeOK ==
    /\ Cardinality(states) <= MaxStates
    /\ \A s \in states :
          /\ DOMAIN s.known \subseteq tracked
          /\ \A n \in DOMAIN s.known : s.known[n] \in Seq(Strings)
          /\ UNION s.aliases \subseteq tracked
          /\ \A p, q \in s.aliases :
                p # q /\ p \cap q # {} => (p \ q) \cup (q \ p) \in s.aliases
          /\ s.exports = "known" <=> (All \in DOMAIN s.known)
          /\ s.exports = "dynamic" => s.dynamic

\* However a module runs, one of the states of the analysis tells the truth about it.
EveryRunDescribed ==
    failed \/ \A run \in runs : \E s \in states : Describes(s, run)

\* A list of exports that static_all_names returns holds every name the module
\* can export, and a module said to have no __all__ never has one.
ExportsComplete ==
    /\ Resolved => \A run \in runs : run.env[All] # Unbound /\ Exported(run) \subseteq Result
    /\ Result = None => \A run \in runs : run.env[All] = Unbound

\* It holds no name the module exports on none of its paths.
ExportsPossible ==
    (Resolved /\ runs # {}) => Result \subseteq UNION {Exported(run) : run \in runs}
=============================================================================
