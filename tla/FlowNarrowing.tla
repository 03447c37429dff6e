---------------------------- MODULE FlowNarrowing ----------------------------
(***************************************************************************)
(* What the checker takes a name's type to be at a line: type_system/flow.rs *)
(* of crates/typepython_checking, with the sites extraction/guards.rs and  *)
(* extraction/control_flow.rs of crates/typepython_syntax list for it.     *)
(*                                                                         *)
(* A function is written line by line, and run in every way while it is.   *)
(* The checker has no flow graph: it decides by the lines of guards,       *)
(* returns, assignments and deletions.  `runs` are the values the names    *)
(* may really have where the next line goes, `scope` and `clauses` which   *)
(* suites the lines really are in; no decision reads these three.          *)
(*                                                                         *)
(* Lines: if, elif and else open a suite, end closes one and takes no line *)
(* of its own; a call of a function of a known type is assigned, or a name.*)
(*                                                                         *)
(* What one guard says of a type, and what a test may answer, are          *)
(* parameters: module Guards.                                              *)
(***************************************************************************)
EXTENDS Integers, SequencesExt

CONSTANTS
    Parameter,         \* a name with a declared type
    Locals,            \* names without
    DeclaredTypes,     \* types the parameter may be declared with
    Blocks,            \* sequences of lines functions are made of
    MaxBlocks,         \* bound: blocks of a function
    Values,            \* what names may be bound to
    Unbound,           \* what a name is that has no value
    Unresolved,        \* what has no type
    Types(_, _),       \* what, of that declaration, a name's types may be
    ValuesOf(_),       \* the values of a type
    Join(_),           \* the type of what is of one of some types
    Narrow(_, _, _, _),   \* of a type, a name, a test and its outcome
    May(_, _, _),      \* may, in a run, a test have the outcome?
    TellsWhole(_, _, _),  \* does a test tell the members of the name's type apart?
    LeavesSeveral(_, _)   \* does a test's outcome leave several members?

Variables == {Parameter} \cup Locals
Runs == [Variables -> Values \cup {Unbound}]
Ops == UNION {Range(block) : block \in Blocks}
Tests == {op.test : op \in {op \in Ops : op.op \in {"if", "assert"}}}

ASSUME NamesAssumption ==
    Parameter \notin Locals /\ Unbound \notin Values /\ DeclaredTypes \cap Variables = {}

ASSUME BlocksAssumption ==
    /\ Blocks \subseteq Seq(Ops)
    /\ \A op \in Ops : op.op \in {"assign", "delete"} => op.name \in Variables
    /\ \A op \in Ops : op.op = "assign" /\ op.value \notin Variables =>
            \A declaration \in DeclaredTypes : op.value \in Types(declaration, op.name)
    /\ \A op \in Ops : op.op = "assign" /\ op.value \in Variables /\ op.name \in Locals =>
            \A declaration \in DeclaredTypes : Types(declaration, op.value) \subseteq Types(declaration, op.name)

ASSUME TypesAssumption ==
    \A declaration \in DeclaredTypes :
        /\ declaration \in Types(declaration, Parameter)
        /\ \A name \in Variables :
              /\ Unresolved \notin Types(declaration, name)
              /\ \A type \in Types(declaration, name) : ValuesOf(type) \subseteq Values

\* A join has a type for whatever one of its candidates has.
ASSUME JoinsHold ==
    \A declaration \in DeclaredTypes, name \in Locals : LET types == Types(declaration, name) IN
        \A one, other \in types : LET joined == Join(<<one, other>>) IN
            joined \in types /\ ValuesOf(one) \cup ValuesOf(other) \subseteq ValuesOf(joined)

\* A guard rules out of a type no value with which its test may have that outcome.
ASSUME GuardsTell ==
    \A declaration \in DeclaredTypes, name \in Variables : LET types == Types(declaration, name) IN
        \A test \in Tests, outcome \in BOOLEAN :
            LET possible == {run[name] : run \in {run \in Runs : May(run, test, outcome)}}
            IN  \A type \in types : LET narrowed == Narrow(type, name, test, outcome) IN
                    narrowed \in types /\ ValuesOf(type) \cap possible \subseteq ValuesOf(narrowed)

\* A suite that has not been closed, and one that does not exist.
Open == 0
Missing == 0

VARIABLES
    declared,          \* the parameter's type
    line,              \* where the next line goes
    if_guards,         \* the sites, each a sequence in the order of their lines
    asserts,
    returns,
    assignments,
    invalidations,
    suites,            \* the ifs that are open, and the runs that wait at them
    runs,
    scope,             \* line |-> the clauses it is in, each named by its first line
    clauses,           \* of each if: those after the first, and is there an else?
    pending,           \* lines of the block that is being written
    blocks,            \* number of blocks begun
    exact              \* has every guard told values by whole members of a union?

sites == <<if_guards, asserts, returns, assignments, invalidations>>
vars == <<declared, line, sites, suites, runs, scope, clauses, pending, blocks, exact>>
-----------------------------------------------------------------------------
(* Where guards count: by lines alone. *)

\* Mutant of DirectlyReassigned: what the line before assigns is not seen.
DirectlyReassignedEarlier(name, after, at) ==
    \E site \in Range(assignments) \cup Range(invalidations) :
        site.name = name /\ after < site.line /\ site.line < at - 1

DirectlyReassigned(name, after, at) ==
    \E site \in Range(assignments) \cup Range(invalidations) :
        site.name = name /\ after < site.line /\ site.line < at

\* aliases_after_line: name -> line, for what was assigned one of them since.
AliasesAfter(name, after, at) ==
    FoldLeft(LAMBDA tracked, site :
                 IF site.value \in DOMAIN tracked /\ site.name \notin DOMAIN tracked
                 THEN tracked @@ (site.name :> site.line) ELSE tracked,
             name :> after,
             SelectSeq(assignments, LAMBDA site : after < site.line /\ site.line < at))

\* name_reassigned_after_line
ReassignedThrough(tracked, at) ==
    \E alias \in DOMAIN tracked : DirectlyReassigned(alias, tracked[alias], at)
Reassigned(name, after, at) ==
    DirectlyReassigned(name, after, at) \/ ReassignedThrough(AliasesAfter(name, after, at), at)

InSuite(start, end, at) == start # Missing /\ start <= at /\ (end = Open \/ at <= end)

\* branch_has_return
HasReturn(start, end) == \E site \in Range(returns) : InSuite(start, end, site)

EndOf(guard) == IF guard.false_start # Missing THEN guard.false_end ELSE guard.true_end
IsPast(guard, at) == EndOf(guard) # Open /\ at > EndOf(guard)

\* The outcomes a line is known to come after.
InBranch(guard, at) ==
    IF InSuite(guard.true_start, guard.true_end, at) THEN {TRUE}
    ELSE IF InSuite(guard.false_start, guard.false_end, at) THEN {FALSE}
    ELSE {}

\* Mutant of AfterReturn: a suite that returns is not looked for in the else.
AfterReturnOfTrue(guard, at) ==
    IF IsPast(guard, at) /\ HasReturn(guard.true_start, guard.true_end) THEN {FALSE} ELSE {}

AfterReturn(guard, at) ==
    IF ~IsPast(guard, at) THEN {}
    ELSE IF HasReturn(guard.true_start, guard.true_end)
    THEN IF HasReturn(guard.false_start, guard.false_end) THEN {} ELSE {FALSE}
    ELSE IF HasReturn(guard.false_start, guard.false_end) THEN {TRUE} ELSE {}

AfterAssert(guard, at) == {TRUE}

\* A guard that comes before and still counts, with the outcomes known of it.
Fact(name, at, guard, outcomes) ==
    [test |-> guard.test,
     outcomes |-> IF guard.line < at /\ ~Reassigned(name, guard.line, at) THEN outcomes ELSE {}]

Facts(name, at) ==
    [i \in DOMAIN if_guards |-> Fact(name, at, if_guards[i], InBranch(if_guards[i], at))]
    \o [i \in DOMAIN if_guards |-> Fact(name, at, if_guards[i], AfterReturn(if_guards[i], at))]
    \o [i \in DOMAIN asserts |-> Fact(name, at, asserts[i], AfterAssert(asserts[i], at))]

Told(type, name, fact) ==
    IF fact.outcomes = {} THEN type
    ELSE Narrow(type, name, fact.test, CHOOSE outcome \in fact.outcomes : TRUE)

\* apply_guard_narrowing_semantic_with_context
Narrowed(base, name, facts) ==
    LET told[i \in 0 .. Len(facts)] == IF i = 0 THEN base ELSE Told(told[i - 1], name, facts[i])
    IN  told[Len(facts)]
-----------------------------------------------------------------------------
(* The type of a name before it is narrowed. *)

\* latest_delete_invalidation_line
DeletionsBefore(name, at) ==
    {site.line : site \in {site \in Range(invalidations) :
                 site.kind = "delete" /\ site.name = name /\ site.line < at}}
DeletedAt(name, at) == IF DeletionsBefore(name, at) = {} THEN 0 ELSE Max(DeletionsBefore(name, at))

\* latest_assignment_in_range
LastAssignment(name, from, to) ==
    LET found == {site \in Range(assignments) : site.name = name /\ from <= site.line /\ site.line <= to}
    IN  {site \in found : \A other \in found : other.line <= site.line}

\* The if-else before the line since which the name was not assigned; of those
\* that end together the inner one.
JoiningGuards(name, at) ==
    LET past == {i \in DOMAIN if_guards :
                    /\ if_guards[i].false_start # Missing /\ IsPast(if_guards[i], at)
                    /\ ~Reassigned(name, if_guards[i].false_end, at)}
    IN  {i \in past : \A other \in past :
            \/ if_guards[other].false_end < if_guards[i].false_end
            \/ if_guards[other].false_end = if_guards[i].false_end /\ other <= i}

OfTrue(name, guard) == LastAssignment(name, guard.true_start, guard.true_end)
OfFalse(name, guard) == LastAssignment(name, guard.false_start, guard.false_end)

\* resolve_assignment_site_semantic_type_with_options, where types[at][name] are
\* those of the names at the lines before.
AssignedType(types, found) ==
    LET site == CHOOSE site \in found : TRUE
    IN  IF found = {} THEN Unresolved
        ELSE IF site.value \in Variables THEN types[site.line][site.value]
        ELSE site.value

\* resolve_post_if_joined_assignment_semantic_type_with_options: an assignment in
\* each of its suites, or nothing.
JoinedType(types, name, at) ==
    LET guard == if_guards[CHOOSE i \in JoiningGuards(name, at) : TRUE]
        of_true == AssignedType(types, OfTrue(name, guard))
        of_false == AssignedType(types, OfFalse(name, guard))
    IN  IF JoiningGuards(name, at) = {} \/ Unresolved \in {of_true, of_false} THEN Unresolved
        ELSE Join(<<of_true, of_false>>)

\* resolve_local_assignment_reference_semantic_type_with_options
IsJoined(types, name, at) == DeletedAt(name, at) = 0 /\ JoinedType(types, name, at) # Unresolved
SinceDeleted(name, at) == LastAssignment(name, DeletedAt(name, at) + 1, at - 1)
LocalType(types, name, at) ==
    IF IsJoined(types, name, at) THEN JoinedType(types, name, at)
    ELSE AssignedType(types, SinceDeleted(name, at))

NarrowedOrElse(base, name, at) ==
    IF base = Unresolved THEN Unresolved ELSE Narrowed(base, name, Facts(name, at))

\* resolve_direct_name_reference_semantic_type_with_context: a parameter is what it
\* was declared to be, whatever has been assigned to it.
TypesBy(types, at) ==
    [name \in Variables |->
        NarrowedOrElse(IF name = Parameter THEN declared ELSE LocalType(types, name, at), name, at)]
TypesAt[at \in 1 .. line] == TypesBy(TypesAt, at)
TypeAt(name, at) == TypesAt[at][name]
-----------------------------------------------------------------------------
(* A program is written, and run. *)

Init ==
    /\ declared \in DeclaredTypes
    /\ line = 1
    /\ if_guards = << >> /\ asserts = << >> /\ returns = << >>
    /\ assignments = << >> /\ invalidations = << >>
    /\ suites = << >>
    /\ runs = {[name \in Variables |-> IF name = Parameter THEN value ELSE Unbound] :
                  value \in ValuesOf(declared)}
    /\ scope = << >> /\ clauses = << >>
    /\ pending = << >>
    /\ blocks = 0
    /\ exact = TRUE

BeginBlock ==
    /\ pending = << >>
    /\ blocks < MaxBlocks
    /\ pending' \in Blocks
    /\ blocks' = blocks + 1
    /\ UNCHANGED <<declared, line, sites, suites, runs, scope, clauses, exact>>

\* The next line of the block.
Writes(op) == pending # << >> /\ Head(pending).op = op /\ pending' = Tail(pending)
NextLine(open) == line' = line + 1 /\ scope' = Append(scope, open)

\* The clauses that are open, and those but the innermost.
OpenTo(depth) == {suites[i].clause : i \in 1 .. depth}
OpenClauses == OpenTo(Len(suites))
OuterClauses == OpenTo(Len(suites) - 1)

Passing(some, test, outcome) == {run \in some : May(run, test, outcome)}

StaysExact(test) == exact /\ TellsWhole(test, Parameter, TypeAt(Parameter, line))

\* collect_if_statements
WriteIf ==
    /\ Writes("if")
    /\ if_guards' = Append(if_guards,
            [line |-> line, test |-> Head(pending).test, true_start |-> line + 1, true_end |-> Open,
             false_start |-> Missing, false_end |-> Open])
    /\ suites' = Append(suites,
            [guard |-> Len(if_guards) + 1, clause |-> line,
             waiting |-> Passing(runs, Head(pending).test, FALSE), done |-> {}])
    /\ clauses' = Append(clauses, [elses |-> {}, whole |-> FALSE])
    /\ runs' = Passing(runs, Head(pending).test, TRUE)
    /\ exact' = StaysExact(Head(pending).test)
    /\ NextLine(OpenClauses)
    /\ UNCHANGED <<declared, asserts, returns, assignments, invalidations, blocks>>

Innermost == suites[Len(suites)]

\* Mutant of NextSuite: the second suite is taken to end with its first line.
NextSuiteOfOneLine(guard) ==
    IF guard.false_start = Missing
    THEN [guard EXCEPT !.true_end = line - 1, !.false_start = line + 1, !.false_end = line + 1]
    ELSE guard

\* The suites after the first run from the first to the last of them: the tests
\* between them are no sites.
NextSuite(guard) ==
    IF guard.false_start = Missing
    THEN [guard EXCEPT !.true_end = line - 1, !.false_start = line + 1]
    ELSE guard

\* The runs of the clause before are done with the if, others go into the next.
NextClause(whole, waiting) ==
    /\ suites # << >>
    /\ if_guards' = [if_guards EXCEPT ![Innermost.guard] = NextSuite(@)]
    /\ clauses' = [clauses EXCEPT ![Innermost.guard] = [elses |-> @.elses \cup {line}, whole |-> whole]]
    /\ suites' = [suites EXCEPT ![Len(suites)] =
            [guard |-> @.guard, clause |-> line, waiting |-> waiting, done |-> @.done \cup runs]]
    /\ NextLine(OuterClauses \cup {line})
    /\ UNCHANGED <<declared, asserts, returns, assignments, invalidations, blocks, exact>>
WriteElif ==
    /\ Writes("elif")
    /\ NextClause(FALSE, Passing(Innermost.waiting, Head(pending).test, FALSE))
    /\ runs' = Passing(Innermost.waiting, Head(pending).test, TRUE)
WriteElse ==
    /\ Writes("else")
    /\ NextClause(TRUE, {})
    /\ runs' = Innermost.waiting

\* The ifs of these runs go on where it ends.
EndSuite(guard) ==
    IF guard.false_start = Missing THEN [guard EXCEPT !.true_end = line - 1]
    ELSE [guard EXCEPT !.false_end = line - 1]
WriteEnd ==
    /\ Writes("end")
    /\ suites # << >>
    /\ if_guards' = [if_guards EXCEPT ![Innermost.guard] = EndSuite(@)]
    /\ runs' = runs \cup Innermost.done \cup Innermost.waiting
    /\ suites' = SubSeq(suites, 1, Len(suites) - 1)
    /\ UNCHANGED <<declared, line, asserts, returns, assignments, invalidations, scope, clauses, blocks, exact>>

WriteAssert ==
    /\ Writes("assert")
    /\ asserts' = Append(asserts, [line |-> line, test |-> Head(pending).test])
    /\ runs' = Passing(runs, Head(pending).test, TRUE)
    /\ exact' = (StaysExact(Head(pending).test) /\ ~LeavesSeveral(Head(pending).test, TRUE))
    /\ NextLine(OpenClauses)
    /\ UNCHANGED <<declared, if_guards, returns, assignments, invalidations, suites, clauses, blocks>>

WriteReturn ==
    /\ Writes("return")
    /\ returns' = Append(returns, line)
    /\ runs' = {}
    /\ exact' = (exact /\ \A suite \in Range(suites) :
                    ~LeavesSeveral(if_guards[suite.guard].test, if_guards[suite.guard].false_start # Missing))
    /\ NextLine(OpenClauses)
    /\ UNCHANGED <<declared, if_guards, asserts, assignments, invalidations, suites, clauses, blocks>>

\* To rebind a name that was assigned another gives up what is known of the other.
SharesParameter == \E site \in Range(assignments) : site.value = Parameter

\* What an assignment gives a run: a value of a type, or that of a name.
Assigned(run, name, value) ==
    IF value \notin Variables THEN {[run EXCEPT ![name] = v] : v \in ValuesOf(value)}
    ELSE IF run[value] = Unbound THEN {} ELSE {[run EXCEPT ![name] = run[value]]}

\* A parameter is only assigned what its declared type holds.
WriteAssignment ==
    /\ Writes("assign")
    /\ Head(pending).name = Parameter =>
            \A run \in runs : \A after \in Assigned(run, Parameter, Head(pending).value) :
                after[Parameter] \in ValuesOf(declared)
    /\ assignments' = Append(assignments,
            [name |-> Head(pending).name, value |-> Head(pending).value, line |-> line])
    /\ runs' = UNION {Assigned(run, Head(pending).name, Head(pending).value) : run \in runs}
    /\ exact' = (exact /\ Head(pending).name # Parameter /\ ~SharesParameter)
    /\ NextLine(OpenClauses)
    /\ UNCHANGED <<declared, if_guards, asserts, returns, invalidations, suites, clauses, blocks>>

\* x += ...: an assignment, and an invalidation.
WriteAugmented ==
    /\ Writes("augment")
    /\ assignments' = Append(assignments, [name |-> Parameter, value |-> declared, line |-> line])
    /\ invalidations' = Append(invalidations, [kind |-> "rebind", name |-> Parameter, line |-> line])
    /\ runs' = UNION {Assigned(run, Parameter, declared) : run \in {run \in runs : run[Parameter] # Unbound}}
    /\ exact' = FALSE
    /\ NextLine(OpenClauses)
    /\ UNCHANGED <<declared, if_guards, asserts, returns, suites, clauses, blocks>>

WriteDelete ==
    /\ Writes("delete")
    /\ invalidations' = Append(invalidations,
            [kind |-> "delete", name |-> Head(pending).name, line |-> line])
    /\ runs' = {[run EXCEPT ![Head(pending).name] = Unbound] :
                    run \in {run \in runs : run[Head(pending).name] # Unbound}}
    /\ exact' = (exact /\ ~SharesParameter)
    /\ NextLine(OpenClauses)
    /\ UNCHANGED <<declared, if_guards, asserts, returns, assignments, suites, clauses, blocks>>

WritePass ==
    /\ Writes("pass")
    /\ NextLine(OpenClauses)
    /\ UNCHANGED <<declared, sites, suites, runs, clauses, blocks, exact>>

Next ==
    \/ BeginBlock \/ WriteIf \/ WriteElif \/ WriteElse \/ WriteEnd \/ WriteAssert \/ WriteReturn
    \/ WriteAssignment \/ WriteAugmented \/ WriteDelete \/ WritePass

Spec == Init /\ [][Next]_vars
-----------------------------------------------------------------------------
\* The sites are in the order of their lines, and suites open one in the other.
TypeOK ==
    /\ \A i, j \in DOMAIN if_guards : i < j => if_guards[i].line < if_guards[j].line
    /\ \A i, j \in DOMAIN assignments : i < j => assignments[i].line < assignments[j].line
    /\ \A site \in Range(assignments) \cup Range(invalidations) : site.line < line
    /\ \A i \in DOMAIN suites : EndOf(if_guards[suites[i].guard]) = Open
    /\ runs \subseteq Runs

\* Whoever comes to one line has come past the other: every clause that holds the
\* one holds the other.
ScopeAt(at) == IF at = line THEN OpenClauses ELSE scope[at]
Precedes(earlier, at) == scope[earlier] \subseteq ScopeAt(at)

\* A line of this clause of the if, in no clause of an if inside of it.
DirectlyIn(i, clause, at) == scope[at] = scope[if_guards[i].line] \cup {clause}
Returns(i, clause) == \E site \in Range(returns) : DirectlyIn(i, clause, site)

\* Does a run not go on that leaves the if's test with the outcome?
SurelyReturns(i, outcome) ==
    IF outcome THEN Returns(i, if_guards[i].line)
    ELSE clauses[i].whole /\ \A clause \in clauses[i].elses : Returns(i, clause)

\* Is each of the assignments to a local that are joined made in the one clause
\* there is for its outcome?
EitherAssigned(name, at) ==
    \A i \in JoiningGuards(name, at) :
        /\ Precedes(if_guards[i].line, at)
        /\ clauses[i].whole
        /\ \A site \in OfTrue(name, if_guards[i]) : DirectlyIn(i, if_guards[i].line, site.line)
        /\ \A site \in OfFalse(name, if_guards[i]) : \A clause \in clauses[i].elses :
              DirectlyIn(i, clause, site.line)
AssignedBefore(name, at) == \A site \in SinceDeleted(name, at) : Precedes(site.line, at)

\* The sites a local has its type of.
TypeSites(name, at) ==
    IF IsJoined(TypesAt, name, at)
    THEN UNION {OfTrue(name, if_guards[i]) \cup OfFalse(name, if_guards[i]) : i \in JoiningGuards(name, at)}
    ELSE SinceDeleted(name, at)

\* Does what the type rests on happen to whoever comes to the line?  Asserts do,
\* and ifs with a suite that surely returns, and the assignments of a local.
RestsBy(resting, at) ==
    {name \in Variables :
        /\ \A guard \in Range(asserts) :
              guard.line < at /\ ~Reassigned(name, guard.line, at) => Precedes(guard.line, at)
        /\ \A i \in DOMAIN if_guards :
              AfterReturn(if_guards[i], at) # {} /\ ~Reassigned(name, if_guards[i].line, at) =>
                  /\ Precedes(if_guards[i].line, at)
                  /\ \A outcome \in AfterReturn(if_guards[i], at) : SurelyReturns(i, ~outcome)
        /\ name \in Locals =>
              /\ IF IsJoined(TypesAt, name, at) THEN EitherAssigned(name, at) ELSE AssignedBefore(name, at)
              /\ \A site \in TypeSites(name, at) :
                    site.value \in Variables => site.value \in resting[site.line]}
Resting[at \in 1 .. line] == RestsBy(Resting, at)
RestsOn(name, at) == name \in Resting[at]

\* language-spec-v1.md:2053: a narrowing "remains in effect only while the checker
\* can prove x still denotes the same runtime value".  A name has no value that its
\* type does not hold, at every line that comes after all the type rests on.
NarrowingIsSafe ==
    \A name \in Variables :
        TypeAt(name, line) # Unresolved /\ RestsOn(name, line) =>
            \A run \in runs : run[name] # Unbound => run[name] \in ValuesOf(TypeAt(name, line))

\* language-spec-v1.md:2066-2068: after a conditional branch a variable has the union
\* of the types it has in the branches, so past all of them a local has no other value.
LocalsAreJoined ==
    \A name \in Locals :
        suites = << >> /\ TypeAt(name, line) # Unresolved =>
            \A run \in runs : run[name] # Unbound => run[name] \in ValuesOf(TypeAt(name, line))

\* language-spec-v1.md:1996-2037: what guards, their compositions, returns and
\* asserts rule out of a union is ruled out of the type: the parameter may be
\* whatever its type says, at every line that can be reached.
NarrowingIsTight ==
    (exact /\ runs # {}) =>
        \A value \in ValuesOf(TypeAt(Parameter, line)) : \E run \in runs : run[Parameter] \in {value, Unbound}
=============================================================================
