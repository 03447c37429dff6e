----------------------------- MODULE ModuleRuns -----------------------------
(***************************************************************************)
(* What Python may have computed after some statements of a module, as far *)
(* as the names it exports are concerned: names are bound to objects, and  *)
(* an object is a sequence of strings that may also hold other objects, or *)
(* a function, or anything else.                                           *)
(*                                                                         *)
(* An expression has a kind and the names it mentions: "seq" (a display or *)
(* a sum of sequences, whose parts are literal strings and names), "name", *)
(* "pair" (a display of two names), "call" and "other".  A statement has   *)
(* an op, the names it binds or works on, and a value.                     *)
(***************************************************************************)
EXTENDS Naturals, Sequences, FiniteSets, SequencesExt

CONSTANTS
    Others,          \* module-level names besides __all__
    Strings

All == "__all__"
Names == Others \cup {All}
Objects == 1 .. 3 * Cardinality(Names)
Unbound == 0

Opaque == [list |-> FALSE, items |-> << >>, refs |-> << >>, effects |-> {}]
List(items) == [Opaque EXCEPT !.list = TRUE, !.items = items]
Holding(objects) == [List(<< >>) EXCEPT !.refs = objects]
Function(effects, defaults) == [Opaque EXCEPT !.effects = effects, !.refs = defaults]

\* module_expression_names
References(e) == Range(e.names)

Expressions ==
    {e \in [kind : {"seq", "name", "pair", "call", "other"},
             names : Seq(Names), parts : Seq(Names \cup Strings)] :
        /\ Range(e.parts) \cap Names \subseteq References(e)
        /\ Len(e.names) = (CASE e.kind = "name" -> 1 [] e.kind = "pair" -> 2
                             [] e.kind = "other" -> 0 [] OTHER -> Len(e.names))
        /\ e.kind = "call" => e.names # << >>}

\* The names a statement of one line has, and the value that goes with them.
NamesOf(op) ==
    CASE op = "call" -> {0} [] op = "unpack" -> {2} [] op = "assign" -> Nat \ {0} [] OTHER -> {1}
Valueless == {"import", "withimport", "def", "declare", "delete", "delitem", "method", "nested"}
Valued == {"assign", "unpack", "call", "append", "extend", "aug", "item"}

\* The shapes of statements.  .append has one literal string, or an expression.
IsSimple(st) ==
    /\ st.op \in Valueless \cup Valued
    /\ st.names \in Seq(Names) /\ Len(st.names) \in NamesOf(st.op)
    /\ st.value \in Expressions
    /\ st.op \in Valueless => st.value.kind = "other"
    /\ st.op = "append" /\ st.value.kind = "seq" => References(st.value) = {}
    /\ st.op = "def" => st.effects \in SUBSET Names /\ st.defaults \in SUBSET Names

IsClause(clause) ==
    /\ clause.test \in {"true", "false", "unknown", "call", "else"}
    /\ clause.value \in Expressions
    /\ clause.value.kind = (IF clause.test = "call" THEN "call" ELSE "other")
    /\ clause.body \in Seq(Range(clause.body)) /\ \A st \in Range(clause.body) : IsSimple(st)

IsFlat(st) ==
    IF st.op = "if"
    THEN st.clauses \in Seq(Range(st.clauses)) /\ \A clause \in Range(st.clauses) : IsClause(clause)
    ELSE IsSimple(st)
IsSuite(suite) == suite \in Seq(Range(suite)) /\ \A st \in Range(suite) : IsFlat(st)

IsStatement(st) ==
    IF st.op = "try"
    THEN /\ IsSuite(st.body) /\ IsSuite(st.orelse) /\ IsSuite(st.finalbody)
         /\ st.handlers \in Seq(Range(st.handlers))
         /\ \A h \in Range(st.handlers) : h.names \in Seq(Names) /\ Len(h.names) <= 1 /\ IsSuite(h.body)
    ELSE IsFlat(st)

Start == [env |-> [n \in Names |-> Unbound], heap |-> [o \in Objects |-> Opaque]]

Bound(run, names) == \A n \in names : run.env[n] # Unbound
Value(run, n) == run.heap[run.env[n]]

Held(run, objects) == objects \cup UNION {Range(run.heap[o].refs) : o \in objects}

\* What can be reached from objects.  Bound: three steps.
Reach(run, objects) == Held(run, Held(run, Held(run, objects)))

\* The objects in use: all of them, where some are further than Reach goes.
Live(run) ==
    LET reached == Reach(run, Range(run.env) \ {Unbound})
    IN  IF Held(run, reached) = reached THEN reached ELSE Objects
Swept(run) == [run EXCEPT !.heap = [o \in Objects |-> IF o \in Live(run) THEN @[o] ELSE Opaque]]

Bind(run, n, o) == [run EXCEPT !.env[n] = o]
BindAll(run, names, o) ==
    [run EXCEPT !.env = [n \in Names |-> IF n \in Range(names) THEN o ELSE @[n]]]

\* A new object, and a run of which it is the result; none, when memory is full.
Placed(run, value, o) == [run |-> [run EXCEPT !.heap[o] = value], object |-> o]
FirstFree(run) == {o \in Objects \ Live(run) : \A p \in Objects \ Live(run) : o <= p}
New(run, value) == {Placed(run, value, o) : o \in FirstFree(run)}

\* The result of an expression, bound to names.
BindResult(r, names) == BindAll(r.run, names, r.object)
BoundTo(names, results) == {BindResult(r, names) : r \in results}
-----------------------------------------------------------------------------
\* The module's names a callable works on, directly or through a function it calls.
Effects(run, n) ==
    LET own == IF run.env[n] = Unbound THEN {} ELSE Value(run, n).effects
    IN  own \cup UNION {Value(run, m).effects : m \in {x \in own : run.env[x] # Unbound}}

\* What it reaches: from its arguments, these names and its default arguments.
Reached(run, e) ==
    Reach(run, ({run.env[n] : n \in Range(Tail(e.names)) \cup Effects(run, e.names[1])} \ {Unbound})
                  \cup Range(Value(run, e.names[1]).refs))

\* A call may change one of the objects it reaches, or rebind a name it works on.
Lengthened(run, o, s) == [run EXCEPT !.heap[o].items = Append(@, s)]
Rebound(run, n, s) == {BindResult(r, <<n>>) : r \in New(run, List(<<s>>))}
Called(run, e) ==
    {run}
    \cup {Lengthened(run, o, s) : o \in {o \in Reached(run, e) : run.heap[o].list}, s \in Strings}
    \cup UNION {Rebound(run, n, s) : n \in Effects(run, e.names[1]), s \in Strings}

\* The display or sum of sequences.
Summed(run, parts) ==
    [List(FlattenSeq([i \in DOMAIN parts |->
         IF parts[i] \in Names THEN Value(run, parts[i]).items ELSE <<parts[i]>>]))
     EXCEPT !.refs = FlattenSeq([i \in DOMAIN parts |->
         IF parts[i] \in Names THEN Value(run, parts[i]).refs ELSE << >>])]

\* The runs after an expression, with its value.  A name that is not bound, or
\* what is not a sequence where one is needed, raises: that run ends.
Evaluated(run, e) ==
    IF ~Bound(run, References(e)) THEN {}
    ELSE CASE e.kind = "name" -> {[run |-> run, object |-> run.env[e.names[1]]]}
      [] e.kind = "seq" /\ \A n \in References(e) : Value(run, n).list ->
            New(run, Summed(run, e.parts))
      [] e.kind = "pair" -> New(run, Holding(<<run.env[e.names[1]], run.env[e.names[2]]>>))
      [] e.kind = "other" -> New(run, Opaque)
      [] e.kind = "call" ->
            UNION {New(after, Opaque) \cup {[run |-> after, object |-> o] : o \in Reached(after, e)} :
                      after \in Called(run, e)}
      [] OTHER -> {}

\* Where an exception may leave a statement.
Raised(run, st) == {run} \cup {r.run : r \in Evaluated(run, st.value)}
-----------------------------------------------------------------------------
\* x[0] = value, where the value is some string or an object.
Overwritten(run, o, s) == [run EXCEPT !.heap[o].items[1] = s]
ItemHeld(old, object) ==
    [old EXCEPT !.refs = Append(@, object), !.items = IF @ = << >> THEN @ ELSE Tail(@)]
ItemSet(r, n, e) ==
    IF e.kind = "other"
    THEN {Overwritten(r.run, r.run.env[n], s) : s \in {s \in Strings : Value(r.run, n).items # << >>}}
    ELSE {[r.run EXCEPT !.heap[r.run.env[n]] = ItemHeld(@, r.object)]}

\* x[0][0] = "..."
NestedItemSet(run, n) ==
    {Overwritten(run, o, s) :
        o \in {o \in Range(Value(run, n).refs) : run.heap[o].items # << >>}, s \in Strings}

\* +=, .append and .extend of what a value holds.
Joined(old, more) == [old EXCEPT !.items = @ \o more.items, !.refs = @ \o more.refs]
GrownBy(r, n, more) == [r.run EXCEPT !.heap[r.run.env[n]] = Joined(@, more)]
Grown(results, n) ==
    {GrownBy(r, n, r.run.heap[r.object]) : r \in {r \in results : r.run.heap[r.object].list}}

RetainedBy(r, n) == [r.run EXCEPT !.heap[r.run.env[n]].refs = Append(@, r.object)]
Retained(results, n) == {RetainedBy(r, n) : r \in results}

Shortened(run, n) == [run EXCEPT !.heap[run.env[n]].items = Tail(@)]

\* What an import may find.
Modules == {Opaque} \cup {List(<<s>>) : s \in Strings}
Imported(run, names) == BoundTo(names, UNION {New(run, module) : module \in Modules})

UnpackedTo(r, names, parts) == Bind(Bind(r.run, names[1], parts[1]), names[2], parts[2])

\* The runs after a statement without a body, from the results of its value.
ExecutedOn(run, st, results) ==
    CASE st.op = "assign" -> BoundTo(st.names, results)
      [] st.op = "unpack" ->
            {UnpackedTo(r, st.names, r.run.heap[r.object].refs) :
                r \in {r \in results : Len(r.run.heap[r.object].refs) = 2}}
      [] st.op = "call" -> {r.run : r \in results}
      [] st.op = "import" -> Imported(run, st.names)
      [] st.op = "withimport" -> Imported(run, st.names) \cup {run}
      [] st.op = "def" /\ Bound(run, st.defaults) ->
            BoundTo(st.names,
                    New(run, Function(st.effects, SetToSeq({run.env[n] : n \in st.defaults}))))
      [] st.op = "declare" -> {run}
      [] st.op = "delete" /\ Bound(run, Range(st.names)) -> {BindAll(run, st.names, Unbound)}
      [] st.op \in {"append", "aug", "extend"} /\ Bound(run, Range(st.names)) ->
            IF (st.op = "append" => st.value.kind = "seq") /\ Value(run, st.names[1]).list
            THEN Grown(results, st.names[1]) ELSE Retained(results, st.names[1])
      [] st.op \in {"method", "delitem"} /\ Bound(run, Range(st.names)) ->
            {Shortened(run, n) : n \in {n \in Range(st.names) : Value(run, n).items # << >>}}
      [] st.op = "item" /\ Bound(run, Range(st.names)) ->
            UNION {ItemSet(r, st.names[1], st.value) : r \in results}
      [] st.op = "nested" /\ Bound(run, Range(st.names)) -> NestedItemSet(run, st.names[1])
      [] OTHER -> {}

Executed(run, st) == ExecutedOn(run, st, Evaluated(run, st.value))

\* "withimport" is a with-statement around an import, whose manager may swallow
\* that it fails.
SimpleRuns(runs, st) == {Swept(run) : run \in UNION {Executed(run, st) : run \in runs}}
-----------------------------------------------------------------------------
(* Suites and compound statements: the runs that come to their end, and those *)
(* that an exception takes out of them.                                       *)

SimpleEnds(r, st) ==
    [done |-> SimpleRuns(r.done, st), raised |-> r.raised \cup UNION {Raised(run, st) : run \in r.done}]
SimpleSuiteEnds(runs, suite) == FoldLeft(SimpleEnds, [done |-> runs, raised |-> {}], suite)

\* Each clause takes the runs that come to it and may pass its test.
Tested(runs, clause) ==
    IF clause.test = "call"
    THEN {r.run : r \in UNION {Evaluated(run, clause.value) : run \in runs}}
    ELSE runs
Taken(r, tested, clause, suite) ==
    [done |-> IF clause.test = "false" THEN r.done ELSE r.done \cup suite.done,
     left |-> IF clause.test \in {"true", "else"} THEN {} ELSE tested,
     raised |-> r.raised \cup tested \cup (IF clause.test = "false" THEN {} ELSE suite.raised)]
ClauseTaken(r, tested, clause) == Taken(r, tested, clause, SimpleSuiteEnds(tested, clause.body))
ClauseRuns(r, clause) == ClauseTaken(r, Tested(r.left, clause), clause)
IfEnds(runs, st) == FoldLeft(ClauseRuns, [done |-> {}, left |-> runs, raised |-> runs], st.clauses)

FlatEndsOfIf(r, end) == [done |-> end.done \cup end.left, raised |-> r.raised \cup end.raised]
FlatEnds(r, st) ==
    IF st.op = "if" THEN FlatEndsOfIf(r, IfEnds(r.done, st)) ELSE SimpleEnds(r, st)
FlatSuiteEnds(runs, suite) == FoldLeft(FlatEnds, [done |-> runs, raised |-> {}], suite)
FlatSuiteRuns(runs, suite) == FlatSuiteEnds(runs, suite).done

\* An exception may leave any statement of the body; one of the handlers takes
\* it, or the module ends.
HandlerStart(run, handler) == BoundTo(handler.names, New(run, Opaque))
HandlerRuns(runs, handler) ==
    {Swept(BindAll(run, handler.names, Unbound)) :
        run \in FlatSuiteRuns(UNION {HandlerStart(run, handler) : run \in runs}, handler.body)}
EndsOfTry(body, st) ==
    FlatSuiteRuns(body.done, st.orelse)
       \cup UNION {HandlerRuns(body.raised, handler) : handler \in Range(st.handlers)}
TryRuns(runs, st) ==
    FlatSuiteRuns(UNION {EndsOfTry(FlatSuiteEnds({run}, st.body), st) : run \in runs}, st.finalbody)

StatementRuns(runs, st) ==
    IF st.op = "try" THEN TryRuns(runs, st) ELSE FlatEnds([done |-> runs, raised |-> {}], st).done

\* The names a run exports through __all__.
Exported(run) == Range(Value(run, All).items)
=============================================================================
