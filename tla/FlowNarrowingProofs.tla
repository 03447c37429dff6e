------------------------- MODULE FlowNarrowingProofs -------------------------
(***************************************************************************)
(* For every function written from the menu of blocks, however long, and   *)
(* whatever the guards and the joins of types are that are true of the     *)
(* values (GuardsTell, JoinsHold): a name has no value that the type the   *)
(* checker gives it does not hold, wherever what the type rests on happens *)
(* to whoever comes there (NarrowingSafe).                                 *)
(*                                                                         *)
(* The checker decides by lines, and a run goes by clauses.  Two things    *)
(* tie them together, and are what is inductive:                           *)
(*   - Structured: the lines the sites are at are those of suites that lie *)
(*     one in the other (FunctionsAreStructured), so that to be in the     *)
(*     lines of a suite is to be in one of its clauses;                    *)
(*   - Histories: every run, also one that waits for the clauses to come   *)
(*     or for the end of an if, has come through lines that let it, never  *)
(*     by the first clause of an if and another (RunsHaveHistories).       *)
(* From a history the type of a name is followed line by line: what a      *)
(* guard told, and what an assignment gave, still holds when no line the   *)
(* run passed has set the name.                                            *)
(***************************************************************************)
EXTENDS FlowNarrowing, WellFoundedInduction, SequenceTheorems, TLAPS
-----------------------------------------------------------------------------
(* The inductive invariant. *)

Guard == [line : Nat, test : Tests, true_start : Nat, true_end : Nat, false_start : Nat, false_end : Nat]
AllTypes == UNION {Types(declared, name) : name \in Variables}
Assignment == [name : Variables, value : Variables \cup AllTypes, line : Nat]
Assertion == [line : Nat, test : Tests]
Invalidation == [kind : {"delete", "rebind"}, name : Variables, line : Nat]
Suite == [guard : Nat, clause : Nat, waiting : SUBSET Runs, done : SUBSET Runs]
Clauses == [elses : SUBSET Nat, whole : BOOLEAN]

Typed ==
    /\ declared \in DeclaredTypes
    /\ line \in Nat \ {0}
    /\ if_guards \in Seq(Guard)
    /\ asserts \in Seq(Assertion)
    /\ returns \in Seq(Nat)
    /\ assignments \in Seq(Assignment)
    /\ invalidations \in Seq(Invalidation)
    /\ suites \in Seq(Suite)
    /\ runs \subseteq Runs
    /\ scope \in Seq(SUBSET Nat) /\ Len(scope) = line - 1
    /\ clauses \in Seq(Clauses) /\ Len(clauses) = Len(if_guards)
    /\ pending \in Seq(Ops)

\* What is assigned to a name is of its types.
Fitting ==
    \A i \in DOMAIN assignments : LET site == assignments[i] IN
        /\ site.value \notin Variables => site.value \in Types(declared, site.name)
        /\ site.value \in Variables /\ site.name \in Locals =>
              Types(declared, site.value) \subseteq Types(declared, site.name)

\* The sites are in the order of their lines, none at the line of a guard.
SetLines == {assignments[i].line : i \in DOMAIN assignments} \cup {invalidations[i].line : i \in DOMAIN invalidations}
Ordered ==
    /\ \A i, j \in DOMAIN if_guards : i < j => if_guards[i].line < if_guards[j].line
    /\ \A i, j \in DOMAIN assignments : i < j => assignments[i].line < assignments[j].line
    /\ \A i \in DOMAIN if_guards : if_guards[i].line \in 1 .. line - 1 /\ if_guards[i].line \notin SetLines
    /\ \A i \in DOMAIN asserts : asserts[i].line \in 1 .. line - 1 /\ asserts[i].line \notin SetLines
    /\ \A i \in DOMAIN returns : returns[i] \in 1 .. line - 1
    /\ \A i \in DOMAIN assignments : assignments[i].line \in 1 .. line - 1
    /\ \A i \in DOMAIN invalidations : invalidations[i].line \in 1 .. line - 1
    /\ \A l \in 1 .. line - 1 : scope[l] \subseteq 1 .. l

\* The lines of an if: its suite, and those of the clauses after it.
LaidOut(guard, more, next) ==
    /\ guard.true_start = guard.line + 1
    /\ guard.true_end # Open => guard.line <= guard.true_end /\ guard.true_end < next
    /\ guard.false_start = Missing => guard.false_end = Open /\ more.elses = {} /\ ~more.whole
    /\ guard.false_start # Missing => guard.true_end # Open /\ guard.true_end + 2 = guard.false_start
                                    /\ guard.false_start <= next
    /\ guard.false_end # Open => guard.true_end < guard.false_end /\ guard.false_end < next
    /\ more.elses \subseteq (guard.line + 1) .. (next - 1)
Laid == \A i \in DOMAIN if_guards : LaidOut(if_guards[i], clauses[i], line)

\* The suites that are open are those of the ifs that are.
Chain(i) == {if_guards[i].line} \cup clauses[i].elses
Innest(i, suite) ==
    /\ suite.guard \in DOMAIN if_guards
    /\ EndOf(if_guards[suite.guard]) = Open
    /\ scope[if_guards[suite.guard].line] = OpenTo(i - 1)
    /\ if_guards[suite.guard].false_start = Missing => suite.clause = if_guards[suite.guard].line
    /\ if_guards[suite.guard].false_start # Missing => suite.clause \in clauses[suite.guard].elses
    /\ clauses[suite.guard].whole => suite.waiting = {}
Nested ==
    /\ \A i \in DOMAIN suites : Innest(i, suites[i])
    /\ \A i, j \in DOMAIN suites : i < j => suites[i].guard < suites[j].guard
    /\ \A k \in DOMAIN if_guards : EndOf(if_guards[k]) = Open => \E i \in DOMAIN suites : suites[i].guard = k

\* A line of a suite is in one of its clauses.
InElses(guard, at) ==
    guard.false_start # Missing /\ guard.true_end < at /\ (guard.false_end = Open \/ at <= guard.false_end)
Inside(i, at, open) ==
    LET guard == if_guards[i] IN
    /\ InSuite(guard.true_start, guard.true_end, at) => scope[guard.line] \subseteq open /\ guard.line \in open
    /\ InElses(guard, at) => scope[guard.line] \subseteq open /\ clauses[i].elses \cap open # {}
Scoped == \A i \in DOMAIN if_guards : \A at \in 1 .. line - 1 : Inside(i, at, scope[at])

Structured == Typed /\ Fitting /\ Ordered /\ Laid /\ Nested /\ Scoped
-----------------------------------------------------------------------------
(* Sequences that grow, change in one place, and shrink. *)

LEMMA Appended ==
    ASSUME NEW S, NEW s \in Seq(S), NEW e \in S
    PROVE  /\ Append(s, e) \in Seq(S)
           /\ Len(Append(s, e)) = Len(s) + 1
           /\ DOMAIN s = 1 .. Len(s) /\ Len(s) \in Nat
           /\ DOMAIN Append(s, e) = 1 .. (Len(s) + 1)
           /\ \A i \in 1 .. Len(s) : Append(s, e)[i] = s[i]
           /\ Append(s, e)[Len(s) + 1] = e
    OBVIOUS

LEMMA Changed ==
    ASSUME NEW S, NEW s \in Seq(S), NEW k \in DOMAIN s, NEW e \in S
    PROVE  /\ [s EXCEPT ![k] = e] \in Seq(S)
           /\ Len([s EXCEPT ![k] = e]) = Len(s)
           /\ DOMAIN s = 1 .. Len(s) /\ Len(s) \in Nat
           /\ DOMAIN [s EXCEPT ![k] = e] = DOMAIN s
           /\ \A i \in DOMAIN s : i # k => [s EXCEPT ![k] = e][i] = s[i]
           /\ [s EXCEPT ![k] = e][k] = e
<1>1. k \in 1 .. Len(s)
    OBVIOUS
<1>2. QED  BY <1>1, ExceptSeq

LEMMA Shortened ==
    ASSUME NEW S, NEW s \in Seq(S), s # << >>
    PROVE  /\ SubSeq(s, 1, Len(s) - 1) \in Seq(S)
           /\ Len(SubSeq(s, 1, Len(s) - 1)) = Len(s) - 1
           /\ Len(s) \in Nat \ {0} /\ DOMAIN s = 1 .. Len(s)
           /\ DOMAIN SubSeq(s, 1, Len(s) - 1) = 1 .. (Len(s) - 1)
           /\ \A i \in 1 .. (Len(s) - 1) : SubSeq(s, 1, Len(s) - 1)[i] = s[i]
<1>1. Len(s) \in Nat \ {0}
    BY EmptySeq
<1>2. \A i \in 1 .. (Len(s) - 1) : s[i] \in S
    BY <1>1
<1> DEFINE n == Len(s) - 1
<1>3. n \in Nat /\ n \in Int /\ 1 \in Int /\ \A i \in 1 .. n : s[i] \in S
    BY <1>1, <1>2
<1> HIDE DEF n
<1>4. /\ SubSeq(s, 1, n) \in Seq(S)
      /\ Len(SubSeq(s, 1, n)) = IF 1 <= n THEN n - 1 + 1 ELSE 0
      /\ \A i \in 1 .. n - 1 + 1 : SubSeq(s, 1, n)[i] = s[1 + i - 1]
    BY <1>3, SubSeqProperties
<1>5. Len(SubSeq(s, 1, n)) = n /\ \A i \in 1 .. n : SubSeq(s, 1, n)[i] = s[i]
    BY <1>3, <1>4
<1>6. QED  BY <1>1, <1>4, <1>5 DEF n

LEMMA Drawn ==
    ASSUME Typed, NEW op, Writes(op)
    PROVE  Head(pending) \in Ops /\ Head(pending).op = op /\ pending' \in Seq(Ops)
<1>1. pending \in Seq(Ops) /\ pending # << >> /\ pending' = Tail(pending) /\ Head(pending).op = op
    BY DEF Typed, Writes
<1>2. QED  BY <1>1, HeadTailProperties

LEMMA NextLined ==
    ASSUME Typed, NEW open \in SUBSET Nat, NextLine(open)
    PROVE  /\ line' = line + 1 /\ line' \in Nat \ {0}
           /\ scope' \in Seq(SUBSET Nat) /\ Len(scope') = line' - 1
           /\ \A l \in 1 .. line - 1 : scope'[l] = scope[l]
           /\ scope'[line] = open
<1>1. scope \in Seq(SUBSET Nat) /\ Len(scope) = line - 1 /\ line \in Nat \ {0}
    BY DEF Typed
<1>2. line' = line + 1 /\ scope' = Append(scope, open)
    BY DEF NextLine
<1>3. QED  BY <1>1, <1>2, Appended

LEMMA OpenIsLines ==
    ASSUME Typed, NEW n \in Int, n <= Len(suites)
    PROVE  OpenTo(n) \in SUBSET Nat
<1>1. \A i \in 1 .. n : suites[i] \in Suite
    BY DEF Typed
<1>2. \A i \in 1 .. n : suites[i].clause \in Nat
    BY <1>1 DEF Suite
<1>3. QED  BY <1>2 DEF OpenTo

\* What typing says of a guard, a suite and a site, one by one.
LEMMA Parts ==
    ASSUME Typed
    PROVE  /\ \A i \in DOMAIN if_guards : if_guards[i] \in Guard /\ i \in DOMAIN clauses
           /\ \A i \in DOMAIN clauses : clauses[i] \in Clauses
           /\ \A i \in DOMAIN suites : suites[i] \in Suite
           /\ DOMAIN suites = 1 .. Len(suites) /\ Len(suites) \in Nat
           /\ DOMAIN if_guards = 1 .. Len(if_guards) /\ Len(if_guards) \in Nat
           /\ DOMAIN clauses = DOMAIN if_guards
           /\ \A i \in DOMAIN assignments : assignments[i] \in Assignment
           /\ \A i \in DOMAIN invalidations : invalidations[i] \in Invalidation
           /\ \A i \in DOMAIN asserts : asserts[i] \in Assertion
<1>1. DOMAIN suites = 1 .. Len(suites) /\ Len(suites) \in Nat
    BY DEF Typed
<1>2. DOMAIN if_guards = 1 .. Len(if_guards) /\ Len(if_guards) \in Nat
    BY DEF Typed
<1>3. DOMAIN clauses = DOMAIN if_guards
    BY <1>2 DEF Typed
<1>4. \A i \in DOMAIN if_guards : if_guards[i] \in Guard
    BY DEF Typed
<1>5. \A i \in DOMAIN clauses : clauses[i] \in Clauses
    BY DEF Typed
<1>6. \A i \in DOMAIN suites : suites[i] \in Suite
    BY DEF Typed
<1>7. \A i \in DOMAIN assignments : assignments[i] \in Assignment
    BY DEF Typed
<1>8. \A i \in DOMAIN invalidations : invalidations[i] \in Invalidation
    BY DEF Typed
<1>9. \A i \in DOMAIN asserts : asserts[i] \in Assertion
    BY DEF Typed
<1>10. QED  BY <1>1, <1>2, <1>3, <1>4, <1>5, <1>6, <1>7, <1>8, <1>9

LEMMA LaidLonger ==
    ASSUME NEW guard \in Guard, NEW more \in Clauses, NEW next \in Nat, LaidOut(guard, more, next)
    PROVE  LaidOut(guard, more, next + 1)
<1>1. more.elses \subseteq (guard.line + 1) .. (next + 1 - 1)
    BY DEF LaidOut, Guard
<1>2. QED  BY <1>1 DEF LaidOut, Guard

\* The line that comes next is in the clauses that are open.
LEMMA InsideNow ==
    ASSUME Structured, NEW i \in DOMAIN if_guards
    PROVE  Inside(i, line, OpenClauses)
<1> DEFINE guard == if_guards[i]
<1>1. guard \in Guard /\ LaidOut(guard, clauses[i], line) /\ line \in Nat \ {0}
    BY Parts DEF Structured, Laid, Typed
<1>2. ASSUME EndOf(guard) = Open
      PROVE  /\ scope[guard.line] \subseteq OpenClauses
             /\ guard.false_start = Missing => guard.line \in OpenClauses
             /\ guard.false_start # Missing => clauses[i].elses \cap OpenClauses # {}
    <2>1. PICK j \in DOMAIN suites : suites[j].guard = i
        BY <1>2 DEF Structured, Nested
    <2>2. Innest(j, suites[j]) /\ j \in 1 .. Len(suites) /\ Len(suites) \in Nat
        BY <2>1, Parts DEF Structured, Nested
    <2>3. scope[guard.line] = OpenTo(j - 1) /\ OpenTo(j - 1) \subseteq OpenClauses
        BY <2>1, <2>2 DEF Innest, OpenClauses, OpenTo
    <2>4. suites[j].clause \in OpenClauses
        BY <2>2 DEF OpenClauses, OpenTo
    <2>5. QED  BY <2>1, <2>2, <2>3, <2>4 DEF Innest
<1>3. InSuite(guard.true_start, guard.true_end, line) => guard.false_start = Missing /\ EndOf(guard) = Open
    BY <1>1 DEF InSuite, LaidOut, EndOf, Guard, Open, Missing
<1>4. InElses(guard, line) => guard.false_start # Missing /\ EndOf(guard) = Open
    BY <1>1 DEF InElses, LaidOut, EndOf, Guard, Open, Missing
<1>5. QED  BY <1>2, <1>3, <1>4 DEF Inside

PlainStep == UNCHANGED <<declared, if_guards, suites, clauses>> /\ NextLine(OpenClauses)

LEMMA OpenClausesAreLines ==
    ASSUME Typed
    PROVE  OpenClauses \in SUBSET Nat /\ Len(suites) \in Nat
<1>1. Len(suites) \in Nat
    BY Parts
<1>2. QED  BY <1>1, OpenIsLines DEF OpenClauses

\* A line that opens and closes no suite leaves the suites as they are.
LEMMA PlainKeepsShape ==
    ASSUME Structured, PlainStep
    PROVE  Laid' /\ Nested' /\ Scoped'
<1>1. /\ line' = line + 1 /\ line \in Nat \ {0}
      /\ \A l \in 1 .. line - 1 : scope'[l] = scope[l]
      /\ scope'[line] = OpenClauses
    BY NextLined, OpenClausesAreLines DEF Structured, PlainStep, Typed
<1>2. if_guards' = if_guards /\ clauses' = clauses /\ suites' = suites
    BY DEF PlainStep
<1>3. \A i \in DOMAIN if_guards :
          /\ if_guards[i].line \in 1 .. line - 1 /\ scope'[if_guards[i].line] = scope[if_guards[i].line]
          /\ if_guards[i] \in Guard /\ clauses[i] \in Clauses
    BY <1>1, Parts DEF Structured, Ordered
<1>4. Laid'
    <2> SUFFICES ASSUME NEW i \in DOMAIN if_guards PROVE LaidOut(if_guards[i], clauses[i], line)'
        BY <1>2 DEF Laid
    <2>1. LaidOut(if_guards[i], clauses[i], line)
        BY DEF Structured, Laid
    <2>2. QED  BY <1>1, <1>2, <1>3, <2>1, LaidLonger
<1>5. Nested'
    <2>1. \A i : OpenTo(i)' = OpenTo(i)
        BY <1>2 DEF OpenTo
    <2>2. ASSUME NEW i \in DOMAIN suites PROVE Innest(i, suites[i])'
        <3>1. Innest(i, suites[i])
            BY DEF Structured, Nested
        <3>2. QED  BY <1>2, <1>3, <2>1, <3>1 DEF Innest, EndOf
    <2>3. QED  BY <1>2, <2>2 DEF Structured, Nested, EndOf
<1>6. Scoped'
    <2> SUFFICES ASSUME NEW i \in DOMAIN if_guards, NEW at \in 1 .. line
                 PROVE  Inside(i, at, scope[at])'
        BY <1>1, <1>2 DEF Scoped
    <2>1. Inside(i, at, scope'[at])
        <3>1. CASE at = line
            BY <1>1, <3>1, InsideNow
        <3>2. CASE at # line
            BY <1>1, <3>2 DEF Structured, Scoped
        <3>3. QED  BY <3>1, <3>2
    <2>2. QED  BY <1>2, <1>3, <2>1 DEF Inside, InSuite, InElses
<1>7. QED  BY <1>4, <1>5, <1>6

-----------------------------------------------------------------------------
(* An if opens a suite inside of those that are open. *)

LEMMA IfKeepsShape ==
    ASSUME Structured, WriteIf
    PROVE  Laid' /\ Nested' /\ Scoped'
<1>0. Len(if_guards) \in Nat /\ Len(suites) \in Nat
    BY Parts DEF Structured
<1> PICK m \in Nat : m = Len(if_guards) + 1
    BY <1>0
<1> PICK n \in Nat : n = Len(suites) + 1
    BY <1>0
<1> DEFINE test == Head(pending).test
           added == [line |-> line, test |-> test, true_start |-> line + 1, true_end |-> Open,
                     false_start |-> Missing, false_end |-> Open]
           suite == [guard |-> m, clause |-> line, waiting |-> Passing(runs, test, FALSE), done |-> {}]
           more == [elses |-> {}, whole |-> FALSE]
<1>1. /\ line' = line + 1 /\ line \in Nat \ {0}
      /\ \A l \in 1 .. line - 1 : scope'[l] = scope[l]
      /\ scope'[line] = OpenClauses
    BY NextLined, OpenClausesAreLines DEF Structured, WriteIf, Typed
<1>2. /\ Head(pending) \in Ops /\ Head(pending).op = "if"
      /\ test \in Tests
    BY Drawn DEF Structured, WriteIf, Tests
<1>3. /\ added \in Guard /\ suite \in Suite /\ more \in Clauses
    <2>1. Passing(runs, test, FALSE) \in SUBSET Runs
        BY DEF Structured, Typed, Passing
    <2>4. added \in Guard
        BY <1>1, <1>2 DEF Guard, Open, Missing
    <2>5. suite \in Suite
        BY <1>1, <2>1 DEF Suite
    <2>6. QED  BY <2>4, <2>5 DEF Clauses
<1>4. /\ if_guards' = Append(if_guards, added) /\ suites' = Append(suites, suite)
      /\ clauses' = Append(clauses, more)
    BY DEF WriteIf
<1> HIDE DEF added, suite, more
<1>5. /\ DOMAIN if_guards' = 1 .. m /\ DOMAIN if_guards = 1 .. m - 1 /\ m \in Nat \ {0}
      /\ \A i \in 1 .. m - 1 : if_guards'[i] = if_guards[i]
      /\ if_guards'[m] = added
    BY <1>3, <1>4, Appended DEF Structured, Typed
<1>6. /\ DOMAIN clauses' = 1 .. m
      /\ \A i \in 1 .. m - 1 : clauses'[i] = clauses[i]
      /\ clauses'[m] = more
    BY <1>3, <1>4, Appended DEF Structured, Typed
<1>7. /\ DOMAIN suites' = 1 .. n /\ DOMAIN suites = 1 .. n - 1 /\ n \in Nat \ {0} /\ Len(suites) = n - 1
      /\ Len(suites') = n
      /\ \A i \in 1 .. n - 1 : suites'[i] = suites[i]
      /\ suites'[n] = suite
    BY <1>3, <1>4, Appended DEF Structured, Typed
<1>8. \A i \in 1 .. m - 1 :
          /\ if_guards[i].line \in 1 .. line - 1 /\ scope'[if_guards[i].line] = scope[if_guards[i].line]
          /\ if_guards[i] \in Guard /\ clauses[i] \in Clauses
    BY <1>1, <1>5, Parts DEF Structured, Ordered
<1>9. Laid'
    <2> SUFFICES ASSUME NEW i \in 1 .. m PROVE LaidOut(if_guards[i], clauses[i], line)'
        BY <1>5 DEF Laid
    <2>1. CASE i = m
        BY <1>1, <1>5, <1>6, <2>1 DEF LaidOut, added, more, Open, Missing
    <2>2. CASE i # m
        <3>1. i \in 1 .. m - 1
            BY <1>5, <2>2
        <3>2. LaidOut(if_guards[i], clauses[i], line)
            BY <1>5, <3>1 DEF Structured, Laid
        <3>3. QED  BY <1>1, <1>5, <1>6, <1>8, <3>1, <3>2, LaidLonger
    <2>3. QED  BY <2>1, <2>2
<1>10. \A i \in 0 .. n - 1 : OpenTo(i)' = OpenTo(i)
    BY <1>7 DEF OpenTo
<1>11. Nested'
    <2>1. ASSUME NEW i \in 1 .. n - 1 PROVE Innest(i, suites[i])'
        <3>1. Innest(i, suites[i]) /\ suites[i].guard \in 1 .. m - 1
            BY <1>5, <1>7 DEF Structured, Nested, Innest
        <3>2. i - 1 \in 0 .. n - 1
            BY <1>7
        <3>3. OpenTo(i - 1)' = OpenTo(i - 1)
            BY <1>10, <3>2
        <3>4. QED  BY <1>5, <1>6, <1>7, <1>8, <3>1, <3>3 DEF Innest, EndOf
    <2>2. Innest(n, suites[n])'
        <3>1. OpenTo(n - 1)' = OpenClauses
            BY <1>7, <1>10 DEF OpenClauses
        <3>2. QED  BY <1>1, <1>5, <1>6, <1>7, <3>1 DEF Innest, EndOf, added, suite, more, Open, Missing
    <2>3. \A i \in 1 .. n - 1 : suites[i].guard \in 1 .. m - 1
        BY <1>5, <1>7 DEF Structured, Nested, Innest
    <2>4. \A i, j \in 1 .. n : i < j => suites'[i].guard < suites'[j].guard
        <3>1. \A i, j \in 1 .. n - 1 : i < j => suites[i].guard < suites[j].guard
            BY <1>7 DEF Structured, Nested
        <3>2. suites'[n].guard = m
            BY <1>7 DEF suite
        <3>3. ASSUME NEW i \in 1 .. n, NEW j \in 1 .. n, i < j
              PROVE  suites'[i].guard < suites'[j].guard
            <4>1. i \in 1 .. n - 1
                BY <3>3
            <4>2. CASE j = n
                BY <1>5, <1>7, <2>3, <3>2, <4>1, <4>2
            <4>3. CASE j # n
                BY <1>7, <3>1, <3>3, <4>1, <4>3
            <4>4. QED  BY <4>2, <4>3
        <3>4. QED  BY <3>3
    <2>5. ASSUME NEW k \in 1 .. m, EndOf(if_guards'[k]) = Open
          PROVE  \E i \in 1 .. n : suites'[i].guard = k
        <3>1. CASE k = m
            BY <1>7, <3>1 DEF suite
        <3>2. CASE k # m
            BY <1>5, <1>7, <2>5, <3>2 DEF Structured, Nested
        <3>3. QED  BY <3>1, <3>2
    <2>6. \A i \in 1 .. n : Innest(i, suites[i])'
        <3>1. \A i \in 1 .. n : i = n \/ i \in 1 .. n - 1
            BY <1>7
        <3>2. QED  BY <2>1, <2>2, <3>1
    <2>7. QED  BY <1>5, <1>7, <2>4, <2>5, <2>6 DEF Nested, EndOf
<1>12. Scoped'
    <2> SUFFICES ASSUME NEW i \in 1 .. m, NEW at \in 1 .. line
                 PROVE  Inside(i, at, scope[at])'
        BY <1>1, <1>5 DEF Scoped
    <2>1. CASE i = m
        BY <1>1, <1>5, <2>1 DEF Inside, InSuite, InElses, added, Missing
    <2>2. CASE i # m
        <3>1. i \in 1 .. m - 1
            BY <1>5, <2>2
        <3>2. Inside(i, at, scope'[at])
            <4>1. CASE at = line
                BY <1>1, <1>5, <3>1, <4>1, InsideNow
            <4>2. CASE at # line
                BY <1>1, <1>5, <3>1, <4>2 DEF Structured, Scoped
            <4>3. QED  BY <4>1, <4>2
        <3>3. QED  BY <1>5, <1>6, <1>8, <3>1, <3>2 DEF Inside, InSuite, InElses
    <2>3. QED  BY <2>1, <2>2
<1>13. QED  BY <1>9, <1>11, <1>12

-----------------------------------------------------------------------------
(* The next clause of an if, and its end, concern the innermost suite. *)

LEMMA IsInsideOpen ==
    ASSUME Structured, NEW i \in DOMAIN if_guards
    PROVE  /\ InSuite(if_guards[i].true_start, if_guards[i].true_end, line) =>
                 if_guards[i].false_start = Missing /\ EndOf(if_guards[i]) = Open
           /\ InElses(if_guards[i], line) => if_guards[i].false_start # Missing /\ EndOf(if_guards[i]) = Open
<1> DEFINE guard == if_guards[i]
<1>1. guard \in Guard /\ LaidOut(guard, clauses[i], line) /\ line \in Nat \ {0}
    BY Parts DEF Structured, Laid, Typed
<1>2. InSuite(guard.true_start, guard.true_end, line) => guard.false_start = Missing /\ EndOf(guard) = Open
    BY <1>1 DEF InSuite, LaidOut, EndOf, Guard, Open, Missing
<1>3. InElses(guard, line) => guard.false_start # Missing /\ EndOf(guard) = Open
    BY <1>1 DEF InElses, LaidOut, EndOf, Guard, Open, Missing
<1>4. QED  BY <1>2, <1>3

\* What holds of the innermost of the ifs that are open.
LEMMA InnermostIs ==
    ASSUME Structured, suites # << >>, NEW n, n = Len(suites), NEW k, k = Innermost.guard
    PROVE  /\ n \in Nat \ {0} /\ DOMAIN suites = 1 .. n /\ n \in DOMAIN suites
           /\ Innermost = suites[n] /\ Innermost \in Suite
           /\ k \in DOMAIN if_guards /\ if_guards[k] \in Guard /\ clauses[k] \in Clauses
           /\ DOMAIN clauses = DOMAIN if_guards
           /\ LaidOut(if_guards[k], clauses[k], line) /\ Innest(n, suites[n])
           /\ EndOf(if_guards[k]) = Open
           /\ if_guards[k].line \in 1 .. line - 1
           /\ scope[if_guards[k].line] = OuterClauses
           /\ \A i \in 1 .. n - 1 : suites[i].guard # k
<1>1. n \in Nat \ {0} /\ DOMAIN suites = 1 .. n /\ n \in DOMAIN suites
    BY Parts, EmptySeq DEF Structured, Typed
<1>2. Innermost = suites[n] /\ Innermost \in Suite /\ Innest(n, suites[n])
    BY <1>1, Parts DEF Structured, Nested, Innermost
<1>3. k \in DOMAIN if_guards /\ EndOf(if_guards[k]) = Open /\ scope[if_guards[k].line] = OuterClauses
    BY <1>2 DEF Innest, OuterClauses
<1>4. if_guards[k] \in Guard /\ clauses[k] \in Clauses /\ DOMAIN clauses = DOMAIN if_guards
    BY <1>3, Parts DEF Structured
<1>5. LaidOut(if_guards[k], clauses[k], line) /\ if_guards[k].line \in 1 .. line - 1
    BY <1>3 DEF Structured, Laid, Ordered
<1>6. ASSUME NEW i \in 1 .. n - 1 PROVE suites[i].guard # k
    <2>1. suites[i].guard < suites[n].guard
        BY <1>1 DEF Structured, Nested
    <2>2. suites[n] \in Suite
        BY <1>2
    <2>3. QED  BY <1>2, <2>1, <2>2 DEF Suite
<1>7. QED  BY <1>1, <1>2, <1>3, <1>4, <1>5, <1>6

\* elif and else close the innermost suite and open the next one of its if.
LEMMA ClauseKeepsShape ==
    ASSUME Structured, NEW whole \in BOOLEAN, NEW waiting \in SUBSET Runs, whole => waiting = {},
           NextClause(whole, waiting)
    PROVE  Laid' /\ Nested' /\ Scoped'
<1> suites # << >>
    BY DEF NextClause
<1> PICK n : n = Len(suites)
    OBVIOUS
<1> PICK k : k = Innermost.guard
    OBVIOUS
<1> DEFINE guard == NextSuite(if_guards[k])
           more == [elses |-> clauses[k].elses \cup {line}, whole |-> whole]
           suite == [guard |-> k, clause |-> line, waiting |-> waiting, done |-> Innermost.done \cup runs]
<1>1. /\ n \in Nat \ {0} /\ DOMAIN suites = 1 .. n /\ n \in DOMAIN suites
      /\ Innermost = suites[n] /\ Innermost \in Suite
      /\ k \in DOMAIN if_guards /\ if_guards[k] \in Guard /\ clauses[k] \in Clauses
      /\ DOMAIN clauses = DOMAIN if_guards
      /\ LaidOut(if_guards[k], clauses[k], line) /\ Innest(n, suites[n])
      /\ EndOf(if_guards[k]) = Open
      /\ if_guards[k].line \in 1 .. line - 1
      /\ scope[if_guards[k].line] = OuterClauses
      /\ \A i \in 1 .. n - 1 : suites[i].guard # k
    BY InnermostIs
<1>2. OuterClauses \in SUBSET Nat /\ line \in Nat \ {0}
    <2>1. line \in Nat \ {0} /\ Typed
        BY DEF Structured, Typed
    <2>2. n - 1 \in Int /\ n - 1 <= n
        BY <1>1
    <2>3. OpenTo(n - 1) \in SUBSET Nat
        BY <2>1, <2>2, OpenIsLines
    <2>4. QED  BY <2>1, <2>3 DEF OuterClauses
<1>3. /\ line' = line + 1 /\ line \in Nat \ {0}
      /\ \A l \in 1 .. line - 1 : scope'[l] = scope[l]
      /\ scope'[line] = OuterClauses \cup {line}
    <2>1. OuterClauses \cup {line} \in SUBSET Nat
        BY <1>2
    <2>2. QED  BY <1>2, <2>1, NextLined DEF Structured, NextClause
<1>4. guard \in Guard /\ more \in Clauses /\ suite \in Suite
    <2>1. guard \in Guard
        <3>1. line - 1 \in Nat /\ line + 1 \in Nat
            BY <1>2
        <3>2. [if_guards[k] EXCEPT !.true_end = line - 1, !.false_start = line + 1] \in Guard
            BY <1>1, <3>1 DEF Guard
        <3>3. QED  BY <1>1, <3>2 DEF NextSuite
    <2>2. more \in Clauses
        BY <1>1, <1>2 DEF Clauses
    <2>3. Innermost.done \cup runs \in SUBSET Runs /\ k \in Nat
        BY <1>1 DEF Suite, Structured, Typed
    <2>4. suite \in Suite
        BY <1>2, <2>3 DEF Suite
    <2>5. QED  BY <2>1, <2>2, <2>4
<1>5. /\ if_guards' = [if_guards EXCEPT ![k] = guard] /\ clauses' = [clauses EXCEPT ![k] = more]
      /\ suites' = [suites EXCEPT ![n] = suite]
    BY <1>1 DEF NextClause
<1>6. /\ LaidOut(guard, more, line + 1) /\ guard.line = if_guards[k].line /\ EndOf(guard) = Open
      /\ guard.false_start # Missing
      /\ \A at \in 1 .. line - 1 :
            /\ InSuite(guard.true_start, guard.true_end, at) =>
                  InSuite(if_guards[k].true_start, if_guards[k].true_end, at)
            /\ InElses(guard, at) => InElses(if_guards[k], at)
      /\ ~InSuite(guard.true_start, guard.true_end, line)
    <2>1. CASE if_guards[k].false_start = Missing
        <3>1. guard = [if_guards[k] EXCEPT !.true_end = line - 1, !.false_start = line + 1]
            BY <2>1 DEF NextSuite
        <3>2. /\ guard.line = if_guards[k].line /\ guard.true_start = if_guards[k].true_start
              /\ guard.true_end = line - 1 /\ guard.false_start = line + 1
              /\ guard.false_end = if_guards[k].false_end
            BY <1>1, <3>1 DEF Guard
        <3>3. more.elses = {line}
            BY <1>1, <2>1 DEF LaidOut
        <3>4. if_guards[k].true_end = Open /\ if_guards[k].false_end = Open
            BY <1>1, <2>1 DEF LaidOut, EndOf
        <3> HIDE DEF guard, more
        <3>5. LaidOut(guard, more, line + 1)
            <4>1. if_guards[k].line \in Nat /\ if_guards[k].true_start = if_guards[k].line + 1
                BY <1>1 DEF LaidOut, Guard
            <4>2. more.elses \subseteq (guard.line + 1) .. (line + 1 - 1)
                BY <1>1, <1>2, <3>2, <3>3, <4>1
            <4>3. QED  BY <1>1, <1>2, <3>2, <3>4, <4>1, <4>2 DEF LaidOut, Open, Missing
        <3>6. QED  BY <1>1, <1>2, <3>2, <3>4, <3>5 DEF EndOf, Open, Missing, Guard, InSuite, InElses
    <2>2. CASE if_guards[k].false_start # Missing
        <3>1. guard = if_guards[k]
            BY <2>2 DEF NextSuite
        <3>2. LaidOut(if_guards[k], more, line + 1)
            BY <1>1, <1>2, <2>2 DEF LaidOut, EndOf, Open, Missing, Guard
        <3>3. ~InSuite(guard.true_start, guard.true_end, line)
            BY <1>1, <2>2, <3>1, IsInsideOpen
        <3>4. QED  BY <1>1, <1>2, <2>2, <3>1, <3>2, <3>3 DEF EndOf
    <2>3. QED  BY <2>1, <2>2
<1>7. more.elses = clauses[k].elses \cup {line} /\ more.whole = whole
    OBVIOUS
<1>8. suite.guard = k /\ suite.clause = line /\ suite.waiting = waiting
    OBVIOUS
<1> HIDE DEF guard, more, suite
<1>9. /\ DOMAIN if_guards' = DOMAIN if_guards /\ if_guards'[k] = guard
      /\ \A i \in DOMAIN if_guards : i # k => if_guards'[i] = if_guards[i]
    BY <1>1, <1>4, <1>5, Changed DEF Structured, Typed
<1>10. clauses'[k] = more /\ \A i \in DOMAIN if_guards : i # k => clauses'[i] = clauses[i]
    BY <1>1, <1>4, <1>5, Changed DEF Structured, Typed
<1>11. /\ DOMAIN suites' = 1 .. n /\ suites'[n] = suite
       /\ \A i \in 1 .. n - 1 : suites'[i] = suites[i]
    BY <1>1, <1>4, <1>5, Changed DEF Structured, Typed
<1>12. \A i \in DOMAIN if_guards :
          /\ if_guards[i].line \in 1 .. line - 1 /\ scope'[if_guards[i].line] = scope[if_guards[i].line]
          /\ if_guards[i] \in Guard /\ clauses[i] \in Clauses
    BY <1>3, Parts DEF Structured, Ordered
<1>13. Laid'
    <2> SUFFICES ASSUME NEW i \in DOMAIN if_guards PROVE LaidOut(if_guards[i], clauses[i], line)'
        BY <1>9 DEF Laid
    <2>1. CASE i = k
        BY <1>3, <1>6, <1>9, <1>10, <2>1
    <2>2. CASE i # k
        <3>1. LaidOut(if_guards[i], clauses[i], line)
            BY DEF Structured, Laid
        <3>2. QED  BY <1>3, <1>9, <1>10, <1>12, <2>2, <3>1, LaidLonger
    <2>3. QED  BY <2>1, <2>2
<1>14. \A i \in 0 .. n - 1 : OpenTo(i)' = OpenTo(i)
    <2>1. ASSUME NEW i \in 0 .. n - 1, NEW j \in 1 .. i PROVE suites'[j] = suites[j]
        <3>1. j \in 1 .. n - 1
            BY <1>1
        <3>2. QED  BY <1>11, <3>1
    <2>2. QED  BY <2>1 DEF OpenTo
<1>15. Nested'
    <2>1. ASSUME NEW i \in 1 .. n - 1 PROVE Innest(i, suites[i])'
        <3>1. Innest(i, suites[i]) /\ suites[i].guard # k
            BY <1>1 DEF Structured, Nested
        <3>2. i - 1 \in 0 .. n - 1
            BY <1>1
        <3>3. OpenTo(i - 1)' = OpenTo(i - 1)
            BY <1>14, <3>2
        <3>4. QED  BY <1>9, <1>10, <1>11, <1>12, <3>1, <3>3 DEF Innest, EndOf
    <2>2. Innest(n, suites[n])'
        <3>1. OpenTo(n - 1)' = OpenTo(n - 1)
            BY <1>1, <1>14
        <3>2. Innest(n, suites[n])
            BY <1>1
        <3>3. QED
            BY <1>1, <1>3, <1>6, <1>7, <1>8, <1>9, <1>10, <1>11, <1>12, <3>1, <3>2 DEF Innest, EndOf
    <2>3. \A i \in 1 .. n : Innest(i, suites[i])'
        <3>1. \A i \in 1 .. n : i = n \/ i \in 1 .. n - 1
            BY <1>1
        <3>2. QED  BY <2>1, <2>2, <3>1
    <2>4. \A i \in 1 .. n : suites'[i].guard = suites[i].guard
        <3>1. suites[n].guard = k
            BY <1>1
        <3>2. \A i \in 1 .. n : i = n \/ i \in 1 .. n - 1
            BY <1>1
        <3>3. QED  BY <1>8, <1>11, <3>1, <3>2
    <2>5. \A i \in DOMAIN if_guards : EndOf(if_guards'[i]) = Open => EndOf(if_guards[i]) = Open
        BY <1>1, <1>9
    <2>6. ASSUME NEW i \in 1 .. n, NEW j \in 1 .. n, i < j PROVE suites'[i].guard < suites'[j].guard
        <3>1. suites[i].guard < suites[j].guard
            BY <1>1, <2>6 DEF Structured, Nested
        <3>2. QED  BY <2>4, <3>1
    <2>7. ASSUME NEW i \in DOMAIN if_guards, EndOf(if_guards'[i]) = Open
          PROVE  \E j \in 1 .. n : suites'[j].guard = i
        <3>1. PICK j \in 1 .. n : suites[j].guard = i
            BY <1>1, <2>5, <2>7 DEF Structured, Nested
        <3>2. QED  BY <2>4, <3>1
    <2>8. (\A i \in DOMAIN suites : Innest(i, suites[i]))'
        BY <1>11, <2>3
    <2>9. (\A i, j \in DOMAIN suites : i < j => suites[i].guard < suites[j].guard)'
        BY <1>11, <2>6
    <2>10. (\A i \in DOMAIN if_guards : EndOf(if_guards[i]) = Open => \E j \in DOMAIN suites : suites[j].guard = i)'
        BY <1>9, <1>11, <2>7 DEF EndOf, Open, Missing
    <2>11. QED  BY <2>8, <2>9, <2>10 DEF Nested
<1>16. Scoped'
    <2> SUFFICES ASSUME NEW i \in DOMAIN if_guards, NEW at \in 1 .. line
                 PROVE  Inside(i, at, scope[at])'
        BY <1>3, <1>9 DEF Scoped
    <2>1. CASE i = k
        <3>1. /\ if_guards'[i] = guard /\ clauses'[i] = more
              /\ guard.line = if_guards[k].line /\ scope'[guard.line] = OuterClauses
            BY <1>1, <1>6, <1>9, <1>10, <1>12, <2>1
        <3>2. at # line => at \in 1 .. line - 1 /\ scope'[at] = scope[at] /\ Inside(k, at, scope[at])
            <4>1. at # line => at \in 1 .. line - 1
                BY <1>3
            <4>2. QED  BY <1>1, <1>3, <4>1 DEF Structured, Scoped
        <3>3. InSuite(guard.true_start, guard.true_end, at) =>
                  OuterClauses \subseteq scope'[at] /\ guard.line \in scope'[at]
            <4>1. CASE at = line
                BY <1>6, <4>1
            <4>2. CASE at # line
                BY <1>1, <1>6, <3>2, <4>2 DEF Inside
            <4>3. QED  BY <4>1, <4>2
        <3>4. InElses(guard, at) => OuterClauses \subseteq scope'[at] /\ more.elses \cap scope'[at] # {}
            <4>1. CASE at = line
                BY <1>3, <1>7, <4>1
            <4>2. CASE at # line
                BY <1>1, <1>6, <1>7, <3>2, <4>2 DEF Inside
            <4>3. QED  BY <4>1, <4>2
        <3>5. QED  BY <3>1, <3>3, <3>4 DEF Inside, InElses
    <2>2. CASE i # k
        <3>1. Inside(i, at, scope'[at])
            <4>1. CASE at # line
                BY <1>3, <4>1 DEF Structured, Scoped
            <4>2. CASE at = line
                <5>1. ASSUME EndOf(if_guards[i]) = Open
                      PROVE  /\ scope[if_guards[i].line] \subseteq OuterClauses
                             /\ if_guards[i].false_start = Missing => if_guards[i].line \in OuterClauses
                             /\ if_guards[i].false_start # Missing => clauses[i].elses \cap OuterClauses # {}
                    <6>1. PICK j \in 1 .. n : suites[j].guard = i
                        BY <1>1, <5>1 DEF Structured, Nested
                    <6>2. j \in 1 .. n - 1
                        BY <1>1, <2>2, <6>1
                    <6>3. Innest(j, suites[j])
                        BY <1>1, <6>1 DEF Structured, Nested
                    <6>4. OpenTo(j - 1) \subseteq OuterClauses /\ suites[j].clause \in OuterClauses
                        BY <1>1, <6>2 DEF OuterClauses, OpenTo
                    <6>5. QED  BY <6>1, <6>3, <6>4 DEF Innest
                <5>2. QED  BY <1>3, <4>2, <5>1, IsInsideOpen DEF Inside
            <4>3. QED  BY <4>1, <4>2
        <3>2. QED  BY <1>9, <1>10, <1>12, <2>2, <3>1 DEF Inside, InSuite, InElses
    <2>3. QED  BY <2>1, <2>2
<1>17. QED  BY <1>13, <1>15, <1>16

\* end closes the innermost suite, and with it the if.
LEMMA EndKeepsShape ==
    ASSUME Structured, WriteEnd
    PROVE  Laid' /\ Nested' /\ Scoped'
<1> suites # << >>
    BY DEF WriteEnd
<1> PICK n : n = Len(suites)
    OBVIOUS
<1> PICK k : k = Innermost.guard
    OBVIOUS
<1> DEFINE guard == EndSuite(if_guards[k])
<1>1. /\ n \in Nat \ {0} /\ DOMAIN suites = 1 .. n /\ n \in DOMAIN suites
      /\ Innermost = suites[n] /\ Innermost \in Suite
      /\ k \in DOMAIN if_guards /\ if_guards[k] \in Guard /\ clauses[k] \in Clauses
      /\ DOMAIN clauses = DOMAIN if_guards
      /\ LaidOut(if_guards[k], clauses[k], line) /\ Innest(n, suites[n])
      /\ EndOf(if_guards[k]) = Open
      /\ if_guards[k].line \in 1 .. line - 1
      /\ scope[if_guards[k].line] = OuterClauses
      /\ \A i \in 1 .. n - 1 : suites[i].guard # k
    BY InnermostIs
<1>2. line \in Nat \ {0}
    BY DEF Structured, Typed
<1>3. guard \in Guard
    <2>1. line - 1 \in Nat
        BY <1>2
    <2>2. /\ [if_guards[k] EXCEPT !.true_end = line - 1] \in Guard
          /\ [if_guards[k] EXCEPT !.false_end = line - 1] \in Guard
        BY <1>1, <2>1 DEF Guard
    <2>3. QED  BY <2>2 DEF EndSuite
<1>4. line' = line /\ scope' = scope /\ clauses' = clauses /\ if_guards' = [if_guards EXCEPT ![k] = guard]
    BY DEF WriteEnd
<1>5. /\ LaidOut(guard, clauses[k], line) /\ guard.line = if_guards[k].line /\ EndOf(guard) # Open
      /\ \A at \in 1 .. line - 1 :
            /\ InSuite(guard.true_start, guard.true_end, at) =>
                  InSuite(if_guards[k].true_start, if_guards[k].true_end, at)
            /\ InElses(guard, at) => InElses(if_guards[k], at)
    <2>1. CASE if_guards[k].false_start = Missing
        <3>1. guard = [if_guards[k] EXCEPT !.true_end = line - 1]
            BY <2>1 DEF EndSuite
        <3>2. /\ guard.line = if_guards[k].line /\ guard.true_start = if_guards[k].true_start
              /\ guard.true_end = line - 1 /\ guard.false_start = Missing
              /\ guard.false_end = if_guards[k].false_end
            BY <1>1, <2>1, <3>1 DEF Guard
        <3>3. if_guards[k].true_end = Open
            BY <1>1, <2>1 DEF EndOf
        <3> HIDE DEF guard
        <3>4. LaidOut(guard, clauses[k], line)
            BY <1>1, <1>2, <2>1, <3>2 DEF LaidOut, Open, Missing, Guard
        <3>5. QED  BY <1>1, <1>2, <3>2, <3>3, <3>4 DEF EndOf, Open, Missing, Guard, InSuite, InElses
    <2>2. CASE if_guards[k].false_start # Missing
        <3>1. guard = [if_guards[k] EXCEPT !.false_end = line - 1]
            BY <2>2 DEF EndSuite
        <3>2. /\ guard.line = if_guards[k].line /\ guard.true_start = if_guards[k].true_start
              /\ guard.true_end = if_guards[k].true_end /\ guard.false_start = if_guards[k].false_start
              /\ guard.false_end = line - 1
            BY <1>1, <3>1 DEF Guard
        <3>3. if_guards[k].false_end = Open
            BY <1>1, <2>2 DEF EndOf
        <3> HIDE DEF guard
        <3>4. LaidOut(guard, clauses[k], line)
            BY <1>1, <1>2, <2>2, <3>2 DEF LaidOut, Open, Missing, Guard
        <3>5. QED  BY <1>1, <1>2, <2>2, <3>2, <3>3, <3>4 DEF EndOf, Open, Missing, Guard, InSuite, InElses
    <2>3. QED  BY <2>1, <2>2
<1> HIDE DEF guard
<1>6. /\ DOMAIN if_guards' = DOMAIN if_guards /\ if_guards'[k] = guard
      /\ \A i \in DOMAIN if_guards : i # k => if_guards'[i] = if_guards[i]
    BY <1>1, <1>3, <1>4, Changed DEF Structured, Typed
<1>7. /\ DOMAIN suites' = 1 .. n - 1
      /\ \A i \in 1 .. n - 1 : suites'[i] = suites[i]
    BY <1>1, Shortened DEF Structured, Typed, WriteEnd
<1>8. Laid'
    BY <1>1, <1>4, <1>5, <1>6 DEF Structured, Laid
<1>9. \A i \in 0 .. n - 1 : OpenTo(i)' = OpenTo(i)
    <2>1. ASSUME NEW i \in 0 .. n - 1, NEW j \in 1 .. i PROVE suites'[j] = suites[j]
        <3>1. j \in 1 .. n - 1
            BY <1>1
        <3>2. QED  BY <1>7, <3>1
    <2>2. QED  BY <2>1 DEF OpenTo
<1>10. Nested'
    <2>1. ASSUME NEW i \in 1 .. n - 1 PROVE Innest(i, suites[i])'
        <3>1. Innest(i, suites[i]) /\ suites[i].guard # k
            BY <1>1 DEF Structured, Nested
        <3>2. i - 1 \in 0 .. n - 1
            BY <1>1
        <3>3. OpenTo(i - 1)' = OpenTo(i - 1)
            BY <1>9, <3>2
        <3>4. QED  BY <1>4, <1>6, <1>7, <3>1, <3>3 DEF Innest, EndOf
    <2>2. ASSUME NEW i \in DOMAIN if_guards, EndOf(if_guards'[i]) = Open
          PROVE  \E j \in 1 .. n - 1 : suites[j].guard = i
        <3>1. i # k
            BY <1>5, <1>6, <2>2
        <3>2. PICK j \in 1 .. n : suites[j].guard = i
            BY <1>1, <1>6, <2>2, <3>1 DEF Structured, Nested
        <3>3. j \in 1 .. n - 1
            BY <1>1, <3>1, <3>2
        <3>4. QED  BY <3>2, <3>3
    <2>3. \A i, j \in 1 .. n - 1 : i < j => suites'[i].guard < suites'[j].guard
        <3>1. \A i, j \in 1 .. n : i < j => suites[i].guard < suites[j].guard
            BY <1>1 DEF Structured, Nested
        <3>2. \A i \in 1 .. n - 1 : i \in 1 .. n
            BY <1>1
        <3>3. QED  BY <1>7, <3>1, <3>2
    <2>4. \A i \in DOMAIN if_guards' : EndOf(if_guards'[i]) = Open => \E j \in DOMAIN suites' : suites'[j].guard = i
        BY <1>6, <1>7, <2>2
    <2>5. QED  BY <1>7, <2>1, <2>3, <2>4 DEF Nested, EndOf
<1>11. Scoped'
    <2> SUFFICES ASSUME NEW i \in DOMAIN if_guards, NEW at \in 1 .. line - 1
                 PROVE  Inside(i, at, scope[at])'
        BY <1>4, <1>6 DEF Scoped
    <2>1. Inside(i, at, scope[at])
        BY DEF Structured, Scoped
    <2>2. QED  BY <1>4, <1>5, <1>6, <2>1 DEF Inside, InSuite, InElses
<1>12. QED  BY <1>8, <1>10, <1>11

-----------------------------------------------------------------------------
(* What is written is typed, and in the order of its lines. *)

\* A sequence keeps the lines it has, and may have got one more element, of this line.
GrownAt(before, after, at) ==
    \A i \in DOMAIN after :
        \/ i \in DOMAIN before /\ after[i].line = before[i].line
        \/ i = Len(before) + 1 /\ after[i].line = at

LEMMA AppendedGrows ==
    ASSUME NEW S, NEW s \in Seq(S), NEW e \in S
    PROVE  GrownAt(s, Append(s, e), e.line) /\ GrownAt(s, s, e.line)
    BY Appended DEF GrownAt

LEMMA OpenBefore ==
    ASSUME Structured, NEW n \in Int, n <= Len(suites)
    PROVE  OpenTo(n) \subseteq 1 .. line - 1
<1> SUFFICES ASSUME NEW i \in 1 .. n PROVE suites[i].clause \in 1 .. line - 1
    BY DEF OpenTo
<1>1. i \in DOMAIN suites
    BY Parts DEF Structured
<1>2. Innest(i, suites[i])
    BY <1>1 DEF Structured, Nested
<1> PICK k : k = suites[i].guard
    OBVIOUS
<1>3. /\ k \in DOMAIN if_guards /\ if_guards[k].line \in 1 .. line - 1
      /\ clauses[k].elses \subseteq (if_guards[k].line + 1) .. (line - 1)
    BY <1>2 DEF Innest, Structured, Ordered, Laid, LaidOut
<1>4. line \in Nat
    BY DEF Structured, Typed
<1>5. QED  BY <1>2, <1>3, <1>4 DEF Innest

SameSets == UNCHANGED <<assignments, invalidations>>
SameTests == DOMAIN if_guards' \subseteq DOMAIN if_guards /\ asserts' = asserts

LEMMA OrderGrows ==
    ASSUME Structured, line' = line + 1,
           \A l \in 1 .. line - 1 : scope'[l] = scope[l], scope'[line] \subseteq 1 .. line,
           GrownAt(if_guards, if_guards', line), GrownAt(asserts, asserts', line),
           GrownAt(assignments, assignments', line), GrownAt(invalidations, invalidations', line),
           \A i \in DOMAIN returns' : returns'[i] \in 1 .. line,
           SameSets \/ SameTests
    PROVE  Ordered'
<1>1. line \in Nat \ {0}
    BY DEF Structured, Typed
<1>2. DOMAIN if_guards = 1 .. Len(if_guards) /\ DOMAIN assignments = 1 .. Len(assignments)
      /\ Len(if_guards) \in Nat /\ Len(assignments) \in Nat
    BY DEF Structured, Typed
<1>3. \A l \in 1 .. line - 1 : l \in SetLines' => l \in SetLines
    BY <1>1 DEF SetLines, GrownAt
<1>4. SameSets => line \notin SetLines'
    BY <1>1 DEF SameSets, SetLines, Structured, Ordered
<1>5. (\A i, j \in DOMAIN if_guards : i < j => if_guards[i].line < if_guards[j].line)'
    BY <1>1, <1>2 DEF GrownAt, Structured, Ordered
<1>6. (\A i, j \in DOMAIN assignments : i < j => assignments[i].line < assignments[j].line)'
    BY <1>1, <1>2 DEF GrownAt, Structured, Ordered
<1>7. (\A i \in DOMAIN if_guards : if_guards[i].line \in 1 .. line - 1 /\ if_guards[i].line \notin SetLines)'
    <2> SUFFICES ASSUME NEW i \in DOMAIN if_guards'
                 PROVE  if_guards'[i].line \in 1 .. line /\ if_guards'[i].line \notin SetLines'
        BY <1>1
    <2>1. CASE i \in DOMAIN if_guards /\ if_guards'[i].line = if_guards[i].line
        BY <1>1, <1>3, <2>1 DEF Structured, Ordered
    <2>2. CASE i \notin DOMAIN if_guards /\ if_guards'[i].line = line
        BY <1>1, <1>4, <2>2 DEF SameTests
    <2>3. QED  BY <1>2, <2>1, <2>2 DEF GrownAt
<1>8. (\A i \in DOMAIN asserts : asserts[i].line \in 1 .. line - 1 /\ asserts[i].line \notin SetLines)'
    <2> SUFFICES ASSUME NEW i \in DOMAIN asserts'
                 PROVE  asserts'[i].line \in 1 .. line /\ asserts'[i].line \notin SetLines'
        BY <1>1
    <2>1. CASE i \in DOMAIN asserts /\ asserts'[i].line = asserts[i].line
        BY <1>1, <1>3, <2>1 DEF Structured, Ordered
    <2>2. CASE i = Len(asserts) + 1 /\ asserts'[i].line = line
        <3>1. i \notin DOMAIN asserts
            BY <2>2 DEF Structured, Typed
        <3>2. QED  BY <1>1, <1>4, <2>2, <3>1 DEF SameTests
    <2>3. QED  BY <2>1, <2>2 DEF GrownAt
<1>9. (\A i \in DOMAIN assignments : assignments[i].line \in 1 .. line - 1)'
    BY <1>1 DEF GrownAt, Structured, Ordered
<1>10. (\A i \in DOMAIN invalidations : invalidations[i].line \in 1 .. line - 1)'
    BY <1>1 DEF GrownAt, Structured, Ordered
<1>11. (\A i \in DOMAIN returns : returns[i] \in 1 .. line - 1)'
    BY <1>1
<1>12. (\A l \in 1 .. line - 1 : scope[l] \subseteq 1 .. l)'
    <2> SUFFICES ASSUME NEW l \in 1 .. line PROVE scope'[l] \subseteq 1 .. l
        BY <1>1
    <2>1. CASE l = line
        BY <2>1
    <2>2. CASE l # line
        BY <1>1, <2>2 DEF Structured, Ordered
    <2>3. QED  BY <2>1, <2>2
<1>13. QED  BY <1>5, <1>6, <1>7, <1>8, <1>9, <1>10, <1>11, <1>12 DEF Ordered

LEMMA AssignedAreRuns ==
    ASSUME Typed, NEW run \in Runs, NEW name \in Variables, NEW value \in Variables \cup AllTypes
    PROVE  Assigned(run, name, value) \subseteq Runs
<1>1. CASE value \in Variables
    <2>1. run[value] \in Values \cup {Unbound}
        BY <1>1 DEF Runs
    <2>2. [run EXCEPT ![name] = run[value]] \in Runs
        BY <2>1 DEF Runs
    <2>3. QED  BY <1>1, <2>2 DEF Assigned
<1>2. CASE value \notin Variables
    <2>1. PICK other \in Variables : value \in Types(declared, other)
        BY <1>2 DEF AllTypes
    <2>2. ValuesOf(value) \subseteq Values
        BY <2>1, TypesAssumption DEF Typed
    <2>3. \A v \in ValuesOf(value) : [run EXCEPT ![name] = v] \in Runs
        BY <2>2 DEF Runs
    <2>4. QED  BY <1>2, <2>3 DEF Assigned
<1>3. QED  BY <1>1, <1>2

LEMMA DeclaredIsType ==
    ASSUME Typed
    PROVE  declared \in Types(declared, Parameter) /\ declared \in AllTypes /\ Parameter \in Variables
<1>1. Parameter \in Variables
    BY DEF Variables
<1>2. declared \in Types(declared, Parameter)
    BY TypesAssumption DEF Typed
<1>3. QED  BY <1>1, <1>2 DEF AllTypes

LEMMA NextLineTyped ==
    ASSUME Structured, NEW open \in SUBSET (1 .. line), NextLine(open)
    PROVE  /\ line' = line + 1 /\ line' \in Nat \ {0}
           /\ scope' \in Seq(SUBSET Nat) /\ Len(scope') = line' - 1
           /\ \A l \in 1 .. line - 1 : scope'[l] = scope[l]
           /\ scope'[line] = open /\ scope'[line] \subseteq 1 .. line
           /\ line \in Nat \ {0}
<1>1. line \in Nat \ {0} /\ open \in SUBSET Nat
    BY DEF Structured, Typed
<1>2. QED  BY <1>1, NextLined DEF Structured

LEMMA PlainNextLine ==
    ASSUME Structured, NextLine(OpenClauses)
    PROVE  /\ line' = line + 1 /\ line' \in Nat \ {0}
           /\ scope' \in Seq(SUBSET Nat) /\ Len(scope') = line' - 1
           /\ \A l \in 1 .. line - 1 : scope'[l] = scope[l]
           /\ scope'[line] = OpenClauses /\ scope'[line] \subseteq 1 .. line
           /\ line \in Nat \ {0}
<1>1. OpenClauses \subseteq 1 .. line - 1
    BY OpenBefore, OpenClausesAreLines DEF OpenClauses, Structured
<1>2. line \in Nat \ {0}
    BY DEF Structured, Typed
<1>3. OpenClauses \in SUBSET (1 .. line)
    BY <1>1, <1>2
<1>4. QED  BY <1>3, NextLineTyped

LEMMA SameGrows == ASSUME NEW s, NEW at PROVE GrownAt(s, s, at)
    BY DEF GrownAt

LEMMA PassingAreRuns ==
    ASSUME NEW some \in SUBSET Runs, NEW test, NEW outcome
    PROVE  Passing(some, test, outcome) \in SUBSET Runs
    BY DEF Passing

LEMMA IfKeeps ==
    ASSUME Structured, WriteIf
    PROVE  Typed' /\ Fitting' /\ Ordered'
<1> DEFINE test == Head(pending).test
           added == [line |-> line, test |-> test, true_start |-> line + 1, true_end |-> Open,
                     false_start |-> Missing, false_end |-> Open]
           suite == [guard |-> Len(if_guards) + 1, clause |-> line, waiting |-> Passing(runs, test, FALSE), done |-> {}]
           more == [elses |-> {}, whole |-> FALSE]
<1>1. /\ line' = line + 1 /\ line' \in Nat \ {0}
      /\ scope' \in Seq(SUBSET Nat) /\ Len(scope') = line' - 1
      /\ \A l \in 1 .. line - 1 : scope'[l] = scope[l]
      /\ scope'[line] \subseteq 1 .. line
      /\ line \in Nat \ {0}
    BY PlainNextLine DEF WriteIf
<1>2. test \in Tests /\ pending' \in Seq(Ops)
    BY Drawn DEF Structured, WriteIf, Tests
<1>3. Passing(runs, test, FALSE) \in SUBSET Runs /\ Passing(runs, test, TRUE) \in SUBSET Runs
    BY PassingAreRuns DEF Structured, Typed
<1>4. added \in Guard
    BY <1>1, <1>2 DEF Guard, Open, Missing
<1>5. suite \in Suite
    <2>1. Len(if_guards) + 1 \in Nat
        BY Parts DEF Structured
    <2>2. QED  BY <1>1, <1>3, <2>1 DEF Suite
<1>6. more \in Clauses
    BY DEF Clauses
<1>7. added.line = line
    OBVIOUS
<1>8. /\ if_guards' = Append(if_guards, added) /\ suites' = Append(suites, suite)
      /\ clauses' = Append(clauses, more) /\ runs' = Passing(runs, test, TRUE)
      /\ UNCHANGED <<declared, asserts, returns, assignments, invalidations>>
    BY DEF WriteIf
<1> HIDE DEF test, added, suite, more
<1>9. Typed'
    <2>1. if_guards' \in Seq(Guard) /\ clauses' \in Seq(Clauses) /\ Len(clauses') = Len(if_guards')
        BY <1>4, <1>6, <1>8, Appended DEF Structured, Typed
    <2>2. suites' \in Seq(Suite)
        BY <1>5, <1>8, Appended DEF Structured, Typed
    <2>3. UNCHANGED <<declared, asserts, returns, assignments, invalidations>> /\ runs' \subseteq Runs
        BY <1>3, <1>8
    <2>4. Assignment' = Assignment
        BY <2>3 DEF Assignment, AllTypes
    <2>5. QED  BY <1>1, <1>2, <2>1, <2>2, <2>3, <2>4 DEF Structured, Typed
<1>10. Fitting'
    BY <1>8 DEF Structured, Fitting
<1>11. Ordered'
    <2>1. GrownAt(if_guards, if_guards', line)
        BY <1>4, <1>7, <1>8, AppendedGrows DEF Structured, Typed
    <2>2. \A i \in DOMAIN returns' : returns'[i] \in 1 .. line
        BY <1>1, <1>8 DEF Structured, Ordered
    <2>3. QED  BY <1>1, <1>8, <2>1, <2>2, SameGrows, OrderGrows DEF SameSets
<1>12. QED  BY <1>9, <1>10, <1>11

LEMMA ClauseKeeps ==
    ASSUME Structured, NEW whole \in BOOLEAN, NEW waiting \in SUBSET Runs, NextClause(whole, waiting),
           pending' \in Seq(Ops), runs' \subseteq Runs
    PROVE  Typed' /\ Fitting' /\ Ordered'
<1> suites # << >>
    BY DEF NextClause
<1> PICK n : n = Len(suites)
    OBVIOUS
<1> PICK k : k = Innermost.guard
    OBVIOUS
<1> DEFINE guard == NextSuite(if_guards[k])
           more == [elses |-> clauses[k].elses \cup {line}, whole |-> whole]
           suite == [guard |-> k, clause |-> line, waiting |-> waiting, done |-> Innermost.done \cup runs]
<1>1. /\ n \in Nat \ {0} /\ DOMAIN suites = 1 .. n /\ n \in DOMAIN suites
      /\ Innermost = suites[n] /\ Innermost \in Suite
      /\ k \in DOMAIN if_guards /\ if_guards[k] \in Guard /\ clauses[k] \in Clauses
      /\ DOMAIN clauses = DOMAIN if_guards
    BY InnermostIs
<1>2. OuterClauses \in SUBSET (1 .. line - 1) /\ line \in Nat \ {0}
    <2>1. n - 1 \in Int /\ n - 1 <= Len(suites) /\ n = Len(suites)
        BY <1>1
    <2>2. OpenTo(n - 1) \subseteq 1 .. line - 1
        BY <2>1, OpenBefore
    <2>3. QED  BY <2>1, <2>2 DEF OuterClauses, Structured, Typed
<1>3. /\ line' = line + 1 /\ line' \in Nat \ {0}
      /\ scope' \in Seq(SUBSET Nat) /\ Len(scope') = line' - 1
      /\ \A l \in 1 .. line - 1 : scope'[l] = scope[l]
      /\ scope'[line] \subseteq 1 .. line
    <2>1. OuterClauses \cup {line} \in SUBSET (1 .. line)
        BY <1>2
    <2>2. QED  BY <2>1, NextLineTyped DEF NextClause
<1>4. guard \in Guard /\ guard.line = if_guards[k].line
    <2>1. line - 1 \in Nat /\ line + 1 \in Nat
        BY <1>2
    <2>2. [if_guards[k] EXCEPT !.true_end = line - 1, !.false_start = line + 1] \in Guard
        BY <1>1, <2>1 DEF Guard
    <2>3. [if_guards[k] EXCEPT !.true_end = line - 1, !.false_start = line + 1].line = if_guards[k].line
        BY <1>1 DEF Guard
    <2>4. QED  BY <1>1, <2>2, <2>3 DEF NextSuite
<1>5. more \in Clauses
    BY <1>1, <1>2 DEF Clauses
<1>6. suite \in Suite
    <2>1. Innermost.done \cup runs \in SUBSET Runs /\ k \in Nat
        BY <1>1 DEF Suite, Structured, Typed
    <2>2. QED  BY <1>2, <2>1 DEF Suite
<1>7. /\ if_guards' = [if_guards EXCEPT ![k] = guard] /\ clauses' = [clauses EXCEPT ![k] = more]
      /\ suites' = [suites EXCEPT ![n] = suite]
      /\ UNCHANGED <<declared, asserts, returns, assignments, invalidations>>
    BY <1>1 DEF NextClause
<1> HIDE DEF guard, more, suite
<1>8. Typed'
    <2>1. if_guards' \in Seq(Guard) /\ Len(if_guards') = Len(if_guards)
        BY <1>1, <1>4, <1>7, Changed DEF Structured, Typed
    <2>2. clauses' \in Seq(Clauses) /\ Len(clauses') = Len(clauses)
        BY <1>1, <1>5, <1>7, Changed DEF Structured, Typed
    <2>3. suites' \in Seq(Suite)
        BY <1>1, <1>6, <1>7, Changed DEF Structured, Typed
    <2>4. Assignment' = Assignment
        BY <1>7 DEF Assignment, AllTypes
    <2>5. QED  BY <1>3, <1>7, <2>1, <2>2, <2>3, <2>4 DEF Structured, Typed
<1>9. Fitting'
    BY <1>7 DEF Structured, Fitting
<1>10. Ordered'
    <2>1. /\ DOMAIN if_guards' = DOMAIN if_guards /\ if_guards'[k] = guard
          /\ \A i \in DOMAIN if_guards : i # k => if_guards'[i] = if_guards[i]
        BY <1>1, <1>4, <1>7, Changed DEF Structured, Typed
    <2>2. GrownAt(if_guards, if_guards', line)
        BY <1>4, <2>1 DEF GrownAt
    <2>3. \A i \in DOMAIN returns' : returns'[i] \in 1 .. line
        BY <1>2, <1>7 DEF Structured, Ordered
    <2>4. QED  BY <1>3, <1>7, <2>2, <2>3, SameGrows, OrderGrows DEF SameSets
<1>11. QED  BY <1>8, <1>9, <1>10

LEMMA EndKeeps ==
    ASSUME Structured, WriteEnd
    PROVE  Typed' /\ Fitting' /\ Ordered'
<1> suites # << >>
    BY DEF WriteEnd
<1> PICK n : n = Len(suites)
    OBVIOUS
<1> PICK k : k = Innermost.guard
    OBVIOUS
<1> DEFINE guard == EndSuite(if_guards[k])
<1>1. /\ n \in Nat \ {0} /\ DOMAIN suites = 1 .. n /\ n \in DOMAIN suites
      /\ Innermost = suites[n] /\ Innermost \in Suite
      /\ k \in DOMAIN if_guards /\ if_guards[k] \in Guard
    BY InnermostIs
<1>2. line \in Nat \ {0}
    BY DEF Structured, Typed
<1>3. guard \in Guard /\ guard.line = if_guards[k].line
    <2>1. line - 1 \in Nat
        BY <1>2
    <2>2. [if_guards[k] EXCEPT !.true_end = line - 1] \in Guard
          /\ [if_guards[k] EXCEPT !.false_end = line - 1] \in Guard
        BY <1>1, <2>1 DEF Guard
    <2>3. [if_guards[k] EXCEPT !.true_end = line - 1].line = if_guards[k].line
          /\ [if_guards[k] EXCEPT !.false_end = line - 1].line = if_guards[k].line
        BY <1>1 DEF Guard
    <2>4. QED  BY <1>1, <2>2, <2>3 DEF EndSuite
<1>4. /\ if_guards' = [if_guards EXCEPT ![k] = guard] /\ pending' \in Seq(Ops)
      /\ UNCHANGED <<declared, line, scope, clauses, asserts, returns, assignments, invalidations>>
    BY Drawn DEF WriteEnd, Structured
<1> HIDE DEF guard
<1>5. /\ if_guards' \in Seq(Guard) /\ Len(if_guards') = Len(if_guards)
      /\ DOMAIN if_guards' = DOMAIN if_guards /\ if_guards'[k] = guard
      /\ \A i \in DOMAIN if_guards : i # k => if_guards'[i] = if_guards[i]
    BY <1>1, <1>3, <1>4, Changed DEF Structured, Typed
<1>6. Typed'
    <2>1. suites' \in Seq(Suite)
        BY Shortened DEF Structured, Typed, WriteEnd
    <2>2. runs' \subseteq Runs
        <3>1. Innermost.done \subseteq Runs /\ Innermost.waiting \subseteq Runs
            BY <1>1 DEF Suite
        <3>2. QED  BY <3>1 DEF WriteEnd, Structured, Typed
    <2>3. Assignment' = Assignment
        BY <1>4 DEF Assignment, AllTypes
    <2>4. QED  BY <1>4, <1>5, <2>1, <2>2, <2>3 DEF Structured, Typed
<1>7. Fitting'
    BY <1>4 DEF Structured, Fitting
<1>8. Ordered'
    <2>1. \A i \in DOMAIN if_guards' : i \in DOMAIN if_guards /\ if_guards'[i].line = if_guards[i].line
        BY <1>3, <1>5
    <2>2. SetLines' = SetLines
        BY <1>4 DEF SetLines
    <2>3. QED  BY <1>4, <2>1, <2>2 DEF Structured, Ordered
<1>9. QED  BY <1>6, <1>7, <1>8

PlainlyTyped ==
    /\ asserts' \in Seq(Assertion) /\ returns' \in Seq(Nat)
    /\ assignments' \in Seq(Assignment) /\ invalidations' \in Seq(Invalidation)
    /\ runs' \subseteq Runs /\ pending' \in Seq(Ops)

LEMMA PlainKeeps ==
    ASSUME Structured, PlainStep, PlainlyTyped,
           GrownAt(asserts, asserts', line),
           GrownAt(assignments, assignments', line), GrownAt(invalidations, invalidations', line),
           \A i \in DOMAIN returns' : returns'[i] \in 1 .. line,
           SameSets \/ SameTests, Fitting'
    PROVE  Structured'
<1>1. /\ line' = line + 1 /\ line' \in Nat \ {0}
      /\ scope' \in Seq(SUBSET Nat) /\ Len(scope') = line' - 1
      /\ \A l \in 1 .. line - 1 : scope'[l] = scope[l]
      /\ scope'[line] \subseteq 1 .. line
    BY PlainNextLine DEF PlainStep
<1>2. UNCHANGED <<declared, if_guards, suites, clauses>>
    BY DEF PlainStep
<1>3. Typed'
    <2>1. Assignment' = Assignment
        BY <1>2 DEF Assignment, AllTypes
    <2>2. QED  BY <1>1, <1>2, <2>1 DEF Structured, Typed, PlainlyTyped
<1>4. Ordered'
    BY <1>1, <1>2, SameGrows, OrderGrows
<1>5. QED  BY <1>3, <1>4, PlainKeepsShape DEF Structured

-----------------------------------------------------------------------------
(* Every step keeps the structure of the function. *)

LEMMA AssertKeeps ==
    ASSUME Structured, WriteAssert
    PROVE  Structured'
<1> DEFINE added == [line |-> line, test |-> Head(pending).test]
<1>1. Head(pending).test \in Tests /\ pending' \in Seq(Ops)
    BY Drawn DEF Structured, WriteAssert, Tests
<1>2. line \in Nat \ {0}
    BY DEF Structured, Typed
<1>3. added \in Assertion /\ added.line = line
    BY <1>1, <1>2 DEF Assertion
<1>4. /\ asserts' = Append(asserts, added) /\ PlainStep
      /\ UNCHANGED <<returns, assignments, invalidations, declared>>
      /\ runs' = Passing(runs, Head(pending).test, TRUE)
    BY DEF WriteAssert, PlainStep
<1> HIDE DEF added
<1>5. PlainlyTyped
    <2>1. runs' \subseteq Runs
        BY <1>4, PassingAreRuns DEF Structured, Typed
    <2>2. asserts' \in Seq(Assertion)
        BY <1>3, <1>4, Appended DEF Structured, Typed
    <2>3. QED  BY <1>1, <1>4, <2>1, <2>2 DEF PlainlyTyped, Structured, Typed
<1>6. GrownAt(asserts, asserts', line)
    BY <1>3, <1>4, AppendedGrows DEF Structured, Typed
<1>7. Fitting' /\ SameSets
    BY <1>4 DEF Structured, Fitting, SameSets
<1>8. \A i \in DOMAIN returns' : returns'[i] \in 1 .. line
    BY <1>2, <1>4 DEF Structured, Ordered
<1>9. QED  BY <1>4, <1>5, <1>6, <1>7, <1>8, SameGrows, PlainKeeps

LEMMA ReturnKeeps ==
    ASSUME Structured, WriteReturn
    PROVE  Structured'
<1>1. pending' \in Seq(Ops)
    BY Drawn DEF Structured, WriteReturn
<1>2. line \in Nat \ {0}
    BY DEF Structured, Typed
<1>3. /\ returns' = Append(returns, line) /\ PlainStep
      /\ UNCHANGED <<asserts, assignments, invalidations, declared>>
      /\ runs' = {}
    BY DEF WriteReturn, PlainStep
<1>4. /\ returns' \in Seq(Nat) /\ DOMAIN returns' = 1 .. (Len(returns) + 1)
      /\ \A i \in 1 .. Len(returns) : returns'[i] = returns[i]
      /\ returns'[Len(returns) + 1] = line
      /\ DOMAIN returns = 1 .. Len(returns) /\ Len(returns) \in Nat
    BY <1>2, <1>3, Appended DEF Structured, Typed
<1>5. PlainlyTyped
    BY <1>1, <1>3, <1>4 DEF PlainlyTyped, Structured, Typed
<1>6. Fitting' /\ SameSets
    BY <1>3 DEF Structured, Fitting, SameSets
<1>7. \A i \in DOMAIN returns' : returns'[i] \in 1 .. line
    <2>1. \A i \in 1 .. Len(returns) : returns[i] \in 1 .. line - 1
        BY <1>4 DEF Structured, Ordered
    <2>2. QED  BY <1>2, <1>4, <2>1
<1>8. QED  BY <1>3, <1>5, <1>6, <1>7, SameGrows, PlainKeeps

LEMMA AssignmentKeeps ==
    ASSUME Structured, WriteAssignment
    PROVE  Structured'
<1> PICK name : name = Head(pending).name
    OBVIOUS
<1> PICK value : value = Head(pending).value
    OBVIOUS
<1> DEFINE added == [name |-> name, value |-> value, line |-> line]
<1>1. Head(pending) \in Ops /\ Head(pending).op = "assign" /\ pending' \in Seq(Ops)
    BY Drawn DEF Structured, WriteAssignment
<1>2. line \in Nat \ {0} /\ declared \in DeclaredTypes
    BY DEF Structured, Typed
<1>3. /\ name \in Variables
      /\ value \notin Variables => value \in Types(declared, name)
      /\ value \in Variables /\ name \in Locals => Types(declared, value) \subseteq Types(declared, name)
    BY <1>1, <1>2, BlocksAssumption
<1>4. value \in Variables \cup AllTypes
    BY <1>3 DEF AllTypes
<1>5. added \in Assignment /\ added.line = line /\ added.name = name /\ added.value = value
    BY <1>2, <1>3, <1>4 DEF Assignment
<1>6. /\ assignments' = Append(assignments, added) /\ PlainStep
      /\ UNCHANGED <<if_guards, asserts, returns, invalidations, declared>>
      /\ runs' = UNION {Assigned(run, name, value) : run \in runs}
    BY DEF WriteAssignment, PlainStep
<1> HIDE DEF added
<1>7. /\ assignments' \in Seq(Assignment) /\ DOMAIN assignments' = 1 .. (Len(assignments) + 1)
      /\ \A i \in 1 .. Len(assignments) : assignments'[i] = assignments[i]
      /\ assignments'[Len(assignments) + 1] = added
      /\ DOMAIN assignments = 1 .. Len(assignments) /\ Len(assignments) \in Nat
    BY <1>5, <1>6, Appended DEF Structured, Typed
<1>8. PlainlyTyped
    <2>1. runs' \subseteq Runs
        BY <1>3, <1>4, <1>6, AssignedAreRuns DEF Structured, Typed
    <2>2. QED  BY <1>1, <1>6, <1>7, <2>1 DEF PlainlyTyped, Structured, Typed
<1>9. GrownAt(assignments, assignments', line)
    BY <1>5, <1>6, AppendedGrows DEF Structured, Typed
<1>10. Fitting'
    <2> SUFFICES ASSUME NEW i \in DOMAIN assignments'
                 PROVE  /\ assignments'[i].value \notin Variables =>
                              assignments'[i].value \in Types(declared, assignments'[i].name)
                        /\ assignments'[i].value \in Variables /\ assignments'[i].name \in Locals =>
                              Types(declared, assignments'[i].value) \subseteq Types(declared, assignments'[i].name)
        BY <1>6 DEF Fitting
    <2>1. CASE i = Len(assignments) + 1
        BY <1>3, <1>5, <1>7, <2>1
    <2>2. CASE i \in 1 .. Len(assignments)
        BY <1>7, <2>2 DEF Structured, Fitting
    <2>3. QED  BY <1>7, <2>1, <2>2
<1>11. SameTests /\ \A i \in DOMAIN returns' : returns'[i] \in 1 .. line
    BY <1>2, <1>6 DEF SameTests, Structured, Ordered
<1>12. QED  BY <1>6, <1>8, <1>9, <1>10, <1>11, SameGrows, PlainKeeps

LEMMA AugmentedKeeps ==
    ASSUME Structured, WriteAugmented
    PROVE  Structured'
<1> DEFINE added == [name |-> Parameter, value |-> declared, line |-> line]
           rebound == [kind |-> "rebind", name |-> Parameter, line |-> line]
<1>1. pending' \in Seq(Ops)
    BY Drawn DEF Structured, WriteAugmented
<1>2. line \in Nat \ {0} /\ declared \in DeclaredTypes
    BY DEF Structured, Typed
<1>3. declared \in Types(declared, Parameter) /\ declared \in AllTypes /\ Parameter \in Variables
    BY DeclaredIsType DEF Structured
<1>4. /\ added \in Assignment /\ added.line = line /\ added.name = Parameter /\ added.value = declared
      /\ rebound \in Invalidation /\ rebound.line = line
    BY <1>2, <1>3 DEF Assignment, Invalidation
<1>5. /\ assignments' = Append(assignments, added) /\ invalidations' = Append(invalidations, rebound)
      /\ PlainStep /\ UNCHANGED <<if_guards, asserts, returns, declared>>
      /\ runs' = UNION {Assigned(run, Parameter, declared) : run \in {run \in runs : run[Parameter] # Unbound}}
    BY DEF WriteAugmented, PlainStep
<1> HIDE DEF added, rebound
<1>6. /\ assignments' \in Seq(Assignment) /\ DOMAIN assignments' = 1 .. (Len(assignments) + 1)
      /\ \A i \in 1 .. Len(assignments) : assignments'[i] = assignments[i]
      /\ assignments'[Len(assignments) + 1] = added
      /\ DOMAIN assignments = 1 .. Len(assignments) /\ Len(assignments) \in Nat
      /\ invalidations' \in Seq(Invalidation)
    BY <1>4, <1>5, Appended DEF Structured, Typed
<1>7. PlainlyTyped
    <2>1. runs' \subseteq Runs
        BY <1>3, <1>5, AssignedAreRuns DEF Structured, Typed
    <2>2. QED  BY <1>1, <1>5, <1>6, <2>1 DEF PlainlyTyped, Structured, Typed
<1>8. GrownAt(assignments, assignments', line) /\ GrownAt(invalidations, invalidations', line)
    BY <1>4, <1>5, AppendedGrows DEF Structured, Typed
<1>9. Fitting'
    <2> SUFFICES ASSUME NEW i \in DOMAIN assignments'
                 PROVE  /\ assignments'[i].value \notin Variables =>
                              assignments'[i].value \in Types(declared, assignments'[i].name)
                        /\ assignments'[i].value \in Variables /\ assignments'[i].name \in Locals =>
                              Types(declared, assignments'[i].value) \subseteq Types(declared, assignments'[i].name)
        BY <1>5 DEF Fitting
    <2>1. CASE i = Len(assignments) + 1
        BY <1>3, <1>4, <1>6, <2>1, NamesAssumption
    <2>2. CASE i \in 1 .. Len(assignments)
        BY <1>6, <2>2 DEF Structured, Fitting
    <2>3. QED  BY <1>6, <2>1, <2>2
<1>10. SameTests /\ \A i \in DOMAIN returns' : returns'[i] \in 1 .. line
    BY <1>2, <1>5 DEF SameTests, Structured, Ordered
<1>11. QED  BY <1>5, <1>7, <1>8, <1>9, <1>10, SameGrows, PlainKeeps

LEMMA DeleteKeeps ==
    ASSUME Structured, WriteDelete
    PROVE  Structured'
<1> PICK name : name = Head(pending).name
    OBVIOUS
<1> DEFINE added == [kind |-> "delete", name |-> name, line |-> line]
<1>1. Head(pending) \in Ops /\ Head(pending).op = "delete" /\ pending' \in Seq(Ops)
    BY Drawn DEF Structured, WriteDelete
<1>2. line \in Nat \ {0} /\ name \in Variables
    BY <1>1, BlocksAssumption DEF Structured, Typed
<1>3. added \in Invalidation /\ added.line = line
    BY <1>2 DEF Invalidation
<1>4. /\ invalidations' = Append(invalidations, added) /\ PlainStep
      /\ UNCHANGED <<if_guards, asserts, returns, assignments, declared>>
      /\ runs' = {[run EXCEPT ![name] = Unbound] : run \in {run \in runs : run[name] # Unbound}}
    BY DEF WriteDelete, PlainStep
<1> HIDE DEF added
<1>5. PlainlyTyped
    <2>1. runs' \subseteq Runs
        <3>1. \A run \in Runs : [run EXCEPT ![name] = Unbound] \in Runs
            BY DEF Runs
        <3>2. QED  BY <1>4, <3>1 DEF Structured, Typed
    <2>2. invalidations' \in Seq(Invalidation)
        BY <1>3, <1>4, Appended DEF Structured, Typed
    <2>3. QED  BY <1>1, <1>4, <2>1, <2>2 DEF PlainlyTyped, Structured, Typed
<1>6. GrownAt(invalidations, invalidations', line)
    BY <1>3, <1>4, AppendedGrows DEF Structured, Typed
<1>7. Fitting' /\ SameTests
    BY <1>4 DEF Structured, Fitting, SameTests
<1>8. \A i \in DOMAIN returns' : returns'[i] \in 1 .. line
    BY <1>2, <1>4 DEF Structured, Ordered
<1>9. QED  BY <1>4, <1>5, <1>6, <1>7, <1>8, SameGrows, PlainKeeps

LEMMA PassKeeps ==
    ASSUME Structured, WritePass
    PROVE  Structured'
<1>1. pending' \in Seq(Ops) /\ line \in Nat \ {0}
    BY Drawn DEF Structured, WritePass, Typed
<1>2. PlainStep /\ UNCHANGED <<sites, declared, runs>>
    BY DEF WritePass, PlainStep, sites
<1>3. PlainlyTyped
    BY <1>1, <1>2 DEF PlainlyTyped, Structured, Typed, sites
<1>4. Fitting' /\ SameSets /\ UNCHANGED sites
    BY <1>2 DEF Structured, Fitting, SameSets, sites
<1>5. \A i \in DOMAIN returns' : returns'[i] \in 1 .. line
    BY <1>1, <1>4 DEF Structured, Ordered, sites
<1>6. QED  BY <1>2, <1>3, <1>4, <1>5, SameGrows, PlainKeeps DEF sites

SameShape == UNCHANGED <<declared, line, sites, suites, runs, scope, clauses>>

LEMMA SameShapeKeeps ==
    ASSUME Structured, SameShape, pending' \in Seq(Ops)
    PROVE  Structured'
<1>1. /\ UNCHANGED <<declared, line, suites, runs, scope, clauses>>
      /\ UNCHANGED <<if_guards, asserts, returns, assignments, invalidations>>
    BY DEF SameShape, sites
<1>2. Typed'
    <2>1. Assignment' = Assignment
        BY <1>1 DEF Assignment, AllTypes
    <2>2. QED  BY <1>1, <2>1 DEF Structured, Typed
<1>3. Fitting' /\ Ordered' /\ Laid'
    BY <1>1 DEF Structured, Fitting, Ordered, SetLines, Laid
<1>4. Nested'
    <2>1. \A i : OpenTo(i)' = OpenTo(i)
        BY <1>1 DEF OpenTo
    <2>2. QED  BY <1>1, <2>1 DEF Structured, Nested, Innest
<1>5. Scoped'
    BY <1>1 DEF Structured, Scoped, Inside
<1>6. QED  BY <1>2, <1>3, <1>4, <1>5 DEF Structured

LEMMA InitStructured == Init => Structured
<1> SUFFICES ASSUME Init PROVE Structured
    OBVIOUS
<1>1. /\ declared \in DeclaredTypes /\ line = 1
      /\ if_guards = << >> /\ asserts = << >> /\ returns = << >> /\ assignments = << >>
      /\ invalidations = << >> /\ suites = << >> /\ scope = << >> /\ clauses = << >> /\ pending = << >>
    BY DEF Init
<1>2. runs \subseteq Runs
    <2>1. ValuesOf(declared) \subseteq Values
        BY <1>1, TypesAssumption DEF Variables
    <2>2. \A value \in Values : [name \in Variables |-> IF name = Parameter THEN value ELSE Unbound] \in Runs
        BY DEF Runs
    <2>3. QED  BY <2>1, <2>2 DEF Init
<1>3. Typed
    BY <1>1, <1>2 DEF Typed
<1>4. Fitting /\ Ordered /\ Laid
    BY <1>1 DEF Fitting, Ordered, Laid
<1>5. Nested /\ Scoped
    BY <1>1 DEF Nested, Scoped
<1>6. QED  BY <1>3, <1>4, <1>5 DEF Structured

LEMMA ElifKeeps ==
    ASSUME Structured, WriteElif
    PROVE  Structured'
<1> PICK waiting : waiting = Passing(Innermost.waiting, Head(pending).test, FALSE)
    OBVIOUS
<1>1. NextClause(FALSE, waiting)
    BY DEF WriteElif
<1>2. Innermost.waiting \in SUBSET Runs
    BY <1>1, InnermostIs DEF NextClause, Suite
<1>3. waiting \in SUBSET Runs /\ runs' \subseteq Runs /\ pending' \in Seq(Ops)
    BY <1>2, PassingAreRuns, Drawn DEF WriteElif, Structured
<1>4. QED  BY <1>1, <1>3, ClauseKeeps, ClauseKeepsShape DEF Structured

LEMMA ElseKeeps ==
    ASSUME Structured, WriteElse
    PROVE  Structured'
<1>1. NextClause(TRUE, {})
    BY DEF WriteElse
<1>2. Innermost.waiting \in SUBSET Runs
    BY <1>1, InnermostIs DEF NextClause, Suite
<1>3. runs' \subseteq Runs /\ pending' \in Seq(Ops)
    BY <1>2, Drawn DEF WriteElse, Structured
<1>4. QED  BY <1>1, <1>3, ClauseKeeps, ClauseKeepsShape DEF Structured

LEMMA StructuredKept == Structured /\ [Next]_vars => Structured'
<1> SUFFICES ASSUME Structured, [Next]_vars PROVE Structured'
    OBVIOUS
<1>1. CASE BeginBlock
    <2>1. Blocks \subseteq Seq(Ops)
        BY BlocksAssumption
    <2>2. QED  BY <1>1, <2>1, SameShapeKeeps DEF BeginBlock, SameShape
<1>2. CASE WriteIf
    BY <1>2, IfKeeps, IfKeepsShape DEF Structured
<1>3. CASE WriteElif
    BY <1>3, ElifKeeps
<1>4. CASE WriteElse
    BY <1>4, ElseKeeps
<1>5. CASE WriteEnd
    BY <1>5, EndKeeps, EndKeepsShape DEF Structured
<1>6. CASE WriteAssert
    BY <1>6, AssertKeeps
<1>7. CASE WriteReturn
    BY <1>7, ReturnKeeps
<1>8. CASE WriteAssignment
    BY <1>8, AssignmentKeeps
<1>9. CASE WriteAugmented
    BY <1>9, AugmentedKeeps
<1>10. CASE WriteDelete
    BY <1>10, DeleteKeeps
<1>11. CASE WritePass
    BY <1>11, PassKeeps
<1>12. CASE UNCHANGED vars
    <2>1. SameShape /\ pending' = pending
        BY <1>12 DEF vars, SameShape
    <2>2. QED  BY <2>1, SameShapeKeeps DEF Structured, Typed
<1>13. QED
    BY <1>1, <1>2, <1>3, <1>4, <1>5, <1>6, <1>7, <1>8, <1>9, <1>10, <1>11, <1>12 DEF Next

\* In every function the parser can list sites of, the guards' lines lie one in the
\* other as the clauses do, the sites come in the order of their lines, none at the
\* line of a guard, and what is assigned to a name is of the name's types: what the
\* decisions of flow.rs take for granted of the sites.
THEOREM FunctionsAreStructured == Spec => []Structured
<1>1. QED  BY InitStructured, StructuredKept, PTL DEF Spec

\* The type invariant of the run is part of the structure.
LEMMA StructuredTypes == Structured => TypeOK
<1> SUFFICES ASSUME Structured PROVE TypeOK
    OBVIOUS
<1>1. \A site \in Range(assignments) \cup Range(invalidations) : site.line < line
    <2>1. line \in Nat
        BY DEF Structured, Typed
    <2>2. QED  BY <2>1 DEF Structured, Ordered, Range
<1>2. \A i \in DOMAIN suites : EndOf(if_guards[suites[i].guard]) = Open
    BY DEF Structured, Nested, Innest
<1>3. QED  BY <1>1, <1>2 DEF TypeOK, Structured, Ordered, Typed

\* The sites stay in the order of their lines, the ifs whose suites are open are open,
\* and the runs are runs.
THEOREM TypeCorrect == Spec => []TypeOK
<1>1. QED  BY FunctionsAreStructured, StructuredTypes, PTL

-----------------------------------------------------------------------------
(* How a run has come to where it is: the clauses it took, and what the names were at every line. *)

\* What an assignment may give, when the names were so before it.
Gives(site, before, value) ==
    IF site.value \notin Variables THEN value \in ValuesOf(site.value)
    ELSE before[site.value] # Unbound /\ value = before[site.value]
AssignedAt(i, name, l) == i \in DOMAIN assignments /\ assignments[i].name = name /\ assignments[i].line = l
DeletesAt(i, name, l) ==
    i \in DOMAIN invalidations /\ invalidations[i].kind = "delete"
    /\ invalidations[i].name = name /\ invalidations[i].line = l
\* What a name may be after a line.
Becomes(name, l, before, value) ==
    \/ value = before[name] /\ \A i : ~AssignedAt(i, name, l) /\ ~DeletesAt(i, name, l)
    \/ value = Unbound /\ \E i : DeletesAt(i, name, l)
    \/ \E i : AssignedAt(i, name, l) /\ Gives(assignments[i], before, value)
\* A run passes the line, and goes into the clause it opens if `inside`.
Happens(l, inside, before, after) ==
    /\ \A i \in DOMAIN returns : returns[i] # l
    /\ \A i \in DOMAIN if_guards : if_guards[i].line = l => May(before, if_guards[i].test, inside)
    /\ \A i \in DOMAIN asserts : asserts[i].line = l => May(before, asserts[i].test, TRUE)
    /\ \A name \in Variables : Becomes(name, l, before, after[name])

\* A run takes the first clause of an if or some of the others, and not none when there is
\* an else and it came to the if.
Coherent(took) ==
    \A i \in DOMAIN if_guards :
        /\ if_guards[i].line \in took => clauses[i].elses \cap took = {}
        /\ clauses[i].whole /\ scope[if_guards[i].line] \subseteq took => Chain(i) \cap took # {}

Live == {run \in Runs : run[Parameter] \in ValuesOf(declared) \cup {Unbound}}
\* What the names were at every line, in a run that took these clauses.
History(took, env) ==
    /\ env \in [1 .. line -> Live]
    /\ \A name \in Locals : env[1][name] = Unbound
    /\ took \subseteq 1 .. line - 1
    /\ \A l \in 1 .. line - 1 :
          IF scope[l] \subseteq took THEN Happens(l, l \in took, env[l], env[l + 1]) ELSE env[l + 1] = env[l]
    /\ Coherent(took)
Reaches(took, run) == \E env : History(took, env) /\ env[line] = run

\* A run waits at an if in none of its clauses, or is done with one before the last.
Waits(i, suite, took) == OpenTo(i - 1) \subseteq took /\ Chain(suite.guard) \cap took = {}
IsDone(i, suite, took) ==
    OpenTo(i - 1) \subseteq took /\ suite.clause \notin took /\ Chain(suite.guard) \cap took # {}
Histories ==
    /\ \A run \in runs : \E took : Reaches(took, run) /\ OpenClauses \subseteq took
    /\ \A i \in DOMAIN suites :
          /\ \A run \in suites[i].waiting : \E took : Reaches(took, run) /\ Waits(i, suites[i], took)
          /\ \A run \in suites[i].done : \E took : Reaches(took, run) /\ IsDone(i, suites[i], took)

Lived == Structured /\ Histories
-----------------------------------------------------------------------------
SiteKept(before, after, at) ==
    /\ \A i \in DOMAIN before : i \in DOMAIN after /\ after[i] = before[i]
    /\ \A i \in DOMAIN after : i \in DOMAIN before \/ after[i].line = at
SitesKept ==
    /\ SiteKept(asserts, asserts', line)
    /\ SiteKept(assignments, assignments', line)
    /\ SiteKept(invalidations, invalidations', line)
    /\ \A i \in DOMAIN returns' : (i \in DOMAIN returns /\ returns'[i] = returns[i]) \/ returns'[i] = line
    /\ \A i \in DOMAIN if_guards' :
          \/ i \in DOMAIN if_guards /\ if_guards'[i].line = if_guards[i].line /\ if_guards'[i].test = if_guards[i].test
          \/ if_guards'[i].line = line
    /\ line' = line + 1
    /\ \A l \in 1 .. line - 1 : scope'[l] = scope[l]
    /\ declared' = declared

LEMMA SameSiteKept == ASSUME NEW s, NEW at PROVE SiteKept(s, s, at)
    BY DEF SiteKept
LEMMA AppendedSiteKept ==
    ASSUME NEW S, NEW s \in Seq(S), NEW e \in S
    PROVE  SiteKept(s, Append(s, e), e.line)
    BY Appended DEF SiteKept

\* A step that adds sites of the line it writes changes nothing of the lines before.
LEMMA OldHappens ==
    ASSUME SitesKept, NEW l, l # line, NEW inside, NEW before, NEW after, Happens(l, inside, before, after)
    PROVE  Happens(l, inside, before, after)'
<1>1. \A i \in DOMAIN returns' : returns'[i] # l
    BY DEF SitesKept, Happens
<1>2. \A i \in DOMAIN if_guards' : if_guards'[i].line = l => May(before, if_guards'[i].test, inside)
    BY DEF SitesKept, Happens
<1>3. \A i \in DOMAIN asserts' : asserts'[i].line = l => May(before, asserts'[i].test, TRUE)
    BY DEF SitesKept, SiteKept, Happens
<1>4. ASSUME NEW name \in Variables PROVE Becomes(name, l, before, after[name])'
    <2>1. Becomes(name, l, before, after[name])
        BY DEF Happens
    <2>2. \A i : AssignedAt(i, name, l)' <=> AssignedAt(i, name, l)
        BY DEF SitesKept, SiteKept, AssignedAt
    <2>3. \A i : DeletesAt(i, name, l)' <=> DeletesAt(i, name, l)
        BY DEF SitesKept, SiteKept, DeletesAt
    <2>4. \A i : AssignedAt(i, name, l) => assignments'[i] = assignments[i]
        BY DEF SitesKept, SiteKept, AssignedAt
    <2>5. CASE after[name] = before[name] /\ \A i : ~AssignedAt(i, name, l) /\ ~DeletesAt(i, name, l)
        BY <2>2, <2>3, <2>5 DEF Becomes
    <2>6. CASE after[name] = Unbound /\ \E i : DeletesAt(i, name, l)
        BY <2>3, <2>6 DEF Becomes
    <2>7. CASE \E i : AssignedAt(i, name, l) /\ Gives(assignments[i], before, after[name])
        BY <2>2, <2>4, <2>7 DEF Becomes
    <2>8. QED  BY <2>1, <2>5, <2>6, <2>7 DEF Becomes
<1>5. QED  BY <1>1, <1>2, <1>3, <1>4 DEF Happens

\* A run goes on with the line `at` that comes next, or goes past it.
GoesOn(at, took, before, new, after) ==
    /\ new \in {took, took \cup {at}}
    /\ after \in Live
    /\ IF scope'[at] \subseteq new THEN Happens(at, at \in new, before, after)' ELSE after = before
    /\ Coherent(new)'

\* A history is one line longer by what happens at that line.
LEMMA Extends ==
    ASSUME Structured, SitesKept, NEW took, NEW before, Reaches(took, before),
           NEW at, at = line, NEW new, NEW after, GoesOn(at, took, before, new, after)
    PROVE  Reaches(new, after)'
<1>1. PICK env : History(took, env) /\ env[line] = before
    BY DEF Reaches
<1>2. line \in Nat \ {0} /\ line' = line + 1 /\ declared' = declared
    BY DEF Structured, Typed, SitesKept
<1>3. Live' = Live
    BY <1>2 DEF Live
<1> DEFINE longer == [l \in 1 .. line + 1 |-> IF l = line + 1 THEN after ELSE env[l]]
<1> PICK env2 : env2 = longer
    OBVIOUS
<1>4. /\ env2 \in [1 .. line + 1 -> Live] /\ env2[line + 1] = after
      /\ \A l \in 1 .. line : env2[l] = env[l]
    <2>1. env \in [1 .. line -> Live] /\ after \in Live
        BY <1>1 DEF History, GoesOn
    <2>2. \A l \in 1 .. line + 1 : l = line + 1 \/ l \in 1 .. line
        BY <1>2
    <2>3. \A l \in 1 .. line : l # line + 1 /\ l \in 1 .. line + 1
        BY <1>2
    <2>4. line + 1 \in 1 .. line + 1
        BY <1>2
    <2>5. QED  BY <2>1, <2>2, <2>3, <2>4
<1> HIDE DEF longer
<1>5. 1 \in 1 .. line /\ line \in 1 .. line
    BY <1>2
<1>6. \A name \in Locals : env2[1][name] = Unbound
    BY <1>1, <1>4, <1>5 DEF History
<1>7. new \subseteq 1 .. line
    BY <1>1, <1>2 DEF History, GoesOn
<1>8. ASSUME NEW l \in 1 .. line
      PROVE IF scope'[l] \subseteq new THEN Happens(l, l \in new, env2[l], env2[l + 1])' ELSE env2[l + 1] = env2[l]
    <2>1. CASE l = line
        BY <1>1, <1>4, <1>5, <2>1 DEF GoesOn
    <2>2. CASE l # line
        <3>1. l \in 1 .. line - 1 /\ l + 1 \in 1 .. line
            BY <1>2, <2>2
        <3>2. scope'[l] = scope[l] /\ scope[l] \subseteq 1 .. l
            BY <3>1 DEF SitesKept, Structured, Ordered
        <3>3. scope[l] \subseteq new <=> scope[l] \subseteq took
            BY <1>2, <3>1, <3>2 DEF GoesOn
        <3>4. l \in new <=> l \in took
            BY <2>2 DEF GoesOn
        <3>5. env2[l] = env[l] /\ env2[l + 1] = env[l + 1]
            BY <1>4, <3>1
        <3>6. IF scope[l] \subseteq took THEN Happens(l, l \in took, env[l], env[l + 1]) ELSE env[l + 1] = env[l]
            BY <1>1, <3>1 DEF History
        <3>7. (l \in new) = (l \in took)
            BY <3>4
        <3>8. CASE scope[l] \subseteq took
            <4>1. Happens(l, l \in took, env[l], env[l + 1])
                BY <3>6, <3>8
            <4>2. Happens(l, l \in took, env[l], env[l + 1])'
                BY <2>2, <4>1, OldHappens
            <4>3. QED  BY <3>2, <3>3, <3>5, <3>7, <3>8, <4>2
        <3>9. CASE ~(scope[l] \subseteq took)
            BY <3>2, <3>3, <3>5, <3>6, <3>9
        <3>10. QED  BY <3>8, <3>9
    <2>3. QED  BY <2>1, <2>2
<1>9. Coherent(new)'
    BY DEF GoesOn
<1>10. History(new, env2)'
    <2>1. line' - 1 = line
        BY <1>2
    <2>2. QED  BY <1>2, <1>3, <1>4, <1>6, <1>7, <1>8, <1>9, <2>1 DEF History
<1>11. QED  BY <1>2, <1>4, <1>10 DEF Reaches

-----------------------------------------------------------------------------
(* Every line but those of an if goes on with the runs that get past it. *)

LEMMA ReachesFacts ==
    ASSUME Structured, NEW took, NEW run, Reaches(took, run)
    PROVE  run \in Live /\ run \in Runs /\ took \subseteq 1 .. line - 1 /\ Coherent(took) /\ line \notin took
<1>1. PICK env : History(took, env) /\ env[line] = run
    BY DEF Reaches
<1>2. line \in 1 .. line /\ line \in Nat \ {0}
    BY DEF Structured, Typed
<1>3. run \in Live
    BY <1>1, <1>2 DEF History
<1>4. took \subseteq 1 .. line - 1 /\ Coherent(took)
    BY <1>1 DEF History
<1>5. line \notin took
    BY <1>2, <1>4
<1>6. QED  BY <1>3, <1>4, <1>5 DEF Live

LEMMA Skips ==
    ASSUME Structured, SitesKept, NEW took, NEW run, Reaches(took, run),
           ~(scope'[line] \subseteq took), Coherent(took)'
    PROVE  Reaches(took, run)'
<1> PICK at : at = line
    OBVIOUS
<1>1. run \in Live
    BY ReachesFacts
<1>2. GoesOn(at, took, run, took, run)
    BY <1>1 DEF GoesOn
<1>3. QED  BY <1>2, Extends

LEMMA Stays ==
    ASSUME Structured, SitesKept, NEW at, at = line, NEW took, NEW before, Reaches(took, before), NEW after,
           scope'[at] \subseteq took, Happens(at, FALSE, before, after)', after \in Live, Coherent(took)'
    PROVE  Reaches(took, after)'
<1>1. at \notin took
    BY ReachesFacts
<1>2. (at \in took) = FALSE
    BY <1>1
<1>3. GoesOn(at, took, before, took, after)
    BY <1>2 DEF GoesOn
<1>4. QED  BY <1>3, Extends

LEMMA Enters ==
    ASSUME Structured, SitesKept, NEW at, at = line, NEW took, NEW run, Reaches(took, run),
           scope'[at] \subseteq took \cup {at}, Happens(at, TRUE, run, run)', Coherent(took \cup {at})'
    PROVE  Reaches(took \cup {at}, run)'
<1> PICK new : new = took \cup {at}
    OBVIOUS
<1>1. (at \in new) = TRUE
    OBVIOUS
<1>2. run \in Live
    BY ReachesFacts
<1>3. GoesOn(at, took, run, new, run)
    BY <1>1, <1>2 DEF GoesOn
<1>4. QED  BY <1>3, Extends

LEMMA NoneAt ==
    ASSUME Structured
    PROVE  /\ \A i \in DOMAIN returns : returns[i] # line
           /\ \A i \in DOMAIN if_guards : if_guards[i].line # line
           /\ \A i \in DOMAIN asserts : asserts[i].line # line
           /\ \A i \in DOMAIN assignments : assignments[i].line # line
           /\ \A i \in DOMAIN invalidations : invalidations[i].line # line
<1>1. line \in Nat \ {0}
    BY DEF Structured, Typed
<1>2. QED  BY <1>1 DEF Structured, Ordered

\* A suite's clause is one of its if's.
LEMMA ClauseInChain ==
    ASSUME Structured, NEW i \in DOMAIN suites
    PROVE  suites[i].clause \in Chain(suites[i].guard) /\ suites[i].clause \in OpenClauses
<1>1. Innest(i, suites[i])
    BY DEF Structured, Nested
<1>2. i \in 1 .. Len(suites)
    BY Parts DEF Structured
<1>3. QED  BY <1>1, <1>2 DEF Innest, Chain, OpenClauses, OpenTo

LEMMA PlainIsCoherent ==
    ASSUME Structured, PlainStep, SitesKept, NEW took, Coherent(took)
    PROVE  Coherent(took)'
<1>1. UNCHANGED <<if_guards, clauses>>
    BY DEF PlainStep
<1>2. \A i \in DOMAIN if_guards : scope'[if_guards[i].line] = scope[if_guards[i].line]
    BY DEF SitesKept, Structured, Ordered
<1>3. QED  BY <1>1, <1>2 DEF Coherent, Chain

LEMMA PlainHistories ==
    ASSUME Structured, Histories, PlainStep, SitesKept, NEW at, at = line,
           \A after \in runs' : after \in Live /\ \E before \in runs : Happens(at, FALSE, before, after)'
    PROVE  Histories'
<1>1. UNCHANGED <<declared, if_guards, suites, clauses>> /\ scope'[at] = OpenClauses
    BY PlainNextLine DEF PlainStep
<1>2. OpenClauses' = OpenClauses /\ (\A i : OpenTo(i)' = OpenTo(i)) /\ \A i : Chain(i)' = Chain(i)
    BY <1>1 DEF OpenClauses, OpenTo, Chain
<1>3. ASSUME NEW after \in runs' PROVE \E took : Reaches(took, after)' /\ OpenClauses' \subseteq took
    <2>1. PICK before \in runs : Happens(at, FALSE, before, after)'
        OBVIOUS
    <2>2. PICK took : Reaches(took, before) /\ OpenClauses \subseteq took
        BY DEF Histories
    <2>3. Coherent(took)'
        BY <2>2, ReachesFacts, PlainIsCoherent
    <2>4. Reaches(took, after)'
        BY <1>1, <2>1, <2>2, <2>3, Stays
    <2>5. QED  BY <1>2, <2>2, <2>4
<1>4. ASSUME NEW i \in DOMAIN suites, NEW run, NEW took, Reaches(took, run), suites[i].clause \notin took
      PROVE  Reaches(took, run)'
    <2>1. Coherent(took)'
        BY <1>4, ReachesFacts, PlainIsCoherent
    <2>2. ~(scope'[line] \subseteq took)
        BY <1>1, <1>4, ClauseInChain
    <2>3. QED  BY <1>4, <2>1, <2>2, Skips
<1>5. ASSUME NEW i \in DOMAIN suites, NEW run \in suites[i].waiting
      PROVE  \E took : Reaches(took, run)' /\ Waits(i, suites[i], took)'
    <2>1. PICK took : Reaches(took, run) /\ Waits(i, suites[i], took)
        BY DEF Histories
    <2>2. suites[i].clause \notin took
        BY <2>1, ClauseInChain DEF Waits
    <2>3. Waits(i, suites[i], took)'
        BY <1>1, <1>2, <2>1 DEF Waits
    <2>4. QED  BY <1>4, <2>1, <2>2, <2>3
<1>6. ASSUME NEW i \in DOMAIN suites, NEW run \in suites[i].done
      PROVE  \E took : Reaches(took, run)' /\ IsDone(i, suites[i], took)'
    <2>1. PICK took : Reaches(took, run) /\ IsDone(i, suites[i], took)
        BY DEF Histories
    <2>2. suites[i].clause \notin took
        BY <2>1 DEF IsDone
    <2>3. IsDone(i, suites[i], took)'
        BY <1>1, <1>2, <2>1 DEF IsDone
    <2>4. QED  BY <1>4, <2>1, <2>2, <2>3
<1>7. QED  BY <1>1, <1>3, <1>5, <1>6 DEF Histories

\* What every plain step leaves of the lines before.
LEMMA PlainSites ==
    ASSUME Structured, PlainStep
    PROVE  /\ line' = line + 1 /\ (\A l \in 1 .. line - 1 : scope'[l] = scope[l]) /\ declared' = declared
           /\ \A i \in DOMAIN if_guards' : i \in DOMAIN if_guards
                /\ if_guards'[i].line = if_guards[i].line /\ if_guards'[i].test = if_guards[i].test
    BY PlainNextLine DEF PlainStep

LEMMA LiveRuns ==
    ASSUME Structured, Histories, NEW run \in runs
    PROVE  run \in Live /\ run \in Runs
    BY ReachesFacts DEF Histories

EndsIn(before, after, e, n) ==
    /\ DOMAIN after = 1 .. (n + 1)
    /\ \A i \in 1 .. n : after[i] = before[i]
    /\ after[n + 1] = e
    /\ DOMAIN before = 1 .. n

LEMMA AppendedAs ==
    ASSUME NEW S, NEW s \in Seq(S), NEW e \in S
    PROVE  \E n \in Nat : EndsIn(s, Append(s, e), e, n)
<1> PICK n \in Nat : n = Len(s)
    OBVIOUS
<1>1. EndsIn(s, Append(s, e), e, n)
    BY Appended DEF EndsIn
<1>2. QED  BY <1>1

LEMMA AssertLives ==
    ASSUME Structured, Histories, WriteAssert
    PROVE  Histories'
<1> PICK at : at = line
    OBVIOUS
<1> DEFINE added == [line |-> line, test |-> Head(pending).test]
<1>1. Head(pending).test \in Tests
    BY Drawn DEF Structured, WriteAssert, Tests
<1>2. line \in Nat \ {0}
    BY DEF Structured, Typed
<1>3. added \in Assertion /\ added.line = line /\ added.test = Head(pending).test
    BY <1>1, <1>2 DEF Assertion
<1>4. /\ asserts' = Append(asserts, added) /\ PlainStep
      /\ UNCHANGED <<if_guards, returns, assignments, invalidations, declared>>
      /\ runs' = Passing(runs, added.test, TRUE)
    BY DEF WriteAssert, PlainStep
<1> HIDE DEF added
<1>5. SiteKept(asserts, asserts', line)
    BY <1>3, <1>4, AppendedSiteKept DEF Structured, Typed
<1>6. SitesKept
    BY <1>4, <1>5, PlainSites, SameSiteKept DEF SitesKept
<1>7. ASSUME NEW run \in runs' PROVE run \in Live /\ run \in runs /\ Happens(at, FALSE, run, run)'
    <2>1. run \in runs /\ May(run, added.test, TRUE)
        BY <1>4 DEF Passing
    <2>2. /\ DOMAIN asserts' = 1 .. (Len(asserts) + 1) /\ asserts'[Len(asserts) + 1] = added
          /\ \A i \in 1 .. Len(asserts) : asserts'[i] = asserts[i]
          /\ DOMAIN asserts = 1 .. Len(asserts) /\ Len(asserts) \in Nat
        BY <1>3, <1>4, Appended DEF Structured, Typed
    <2>3. \A i \in DOMAIN asserts' : asserts'[i].line = at => May(run, asserts'[i].test, TRUE)
        <3>1. \A i \in DOMAIN asserts' : i = Len(asserts) + 1 \/ i \in DOMAIN asserts
            BY <2>2
        <3>2. \A i \in DOMAIN asserts : asserts'[i].line # at
            BY <2>2, NoneAt
        <3>3. QED  BY <2>1, <2>2, <3>1, <3>2
    <2>4. \A name \in Variables : Becomes(name, at, run, run[name])'
        BY <1>4, NoneAt DEF Becomes, AssignedAt, DeletesAt
    <2>5. QED  BY <1>4, <2>1, <2>3, <2>4, NoneAt, LiveRuns DEF Happens
<1>8. QED  BY <1>4, <1>6, <1>7, PlainHistories

LEMMA ReturnLives ==
    ASSUME Structured, Histories, WriteReturn
    PROVE  Histories'
<1> PICK at : at = line
    OBVIOUS
<1>1. line \in Nat \ {0}
    BY DEF Structured, Typed
<1>2. /\ returns' = Append(returns, line) /\ PlainStep
      /\ UNCHANGED <<asserts, assignments, invalidations, declared>>
      /\ runs' = {}
    BY DEF WriteReturn, PlainStep
<1>3. /\ DOMAIN returns' = 1 .. (Len(returns) + 1)
      /\ \A i \in 1 .. Len(returns) : returns'[i] = returns[i]
      /\ returns'[Len(returns) + 1] = line
      /\ DOMAIN returns = 1 .. Len(returns) /\ Len(returns) \in Nat
    BY <1>1, <1>2, Appended DEF Structured, Typed
<1>4. \A i \in DOMAIN returns' : (i \in DOMAIN returns /\ returns'[i] = returns[i]) \/ returns'[i] = line
    BY <1>3
<1>5. SitesKept
    BY <1>2, <1>4, PlainSites, SameSiteKept DEF SitesKept
<1>6. QED  BY <1>2, <1>5, PlainHistories

LEMMA AssignedLives ==
    ASSUME Structured, NEW name \in Variables, NEW value, NEW before \in Runs, NEW after \in Assigned(before, name, value)
    PROVE  /\ IF value \notin Variables THEN after[name] \in ValuesOf(value)
              ELSE before[value] # Unbound /\ after[name] = before[value]
           /\ \A other \in Variables : other # name => after[other] = before[other]
<1>1. DOMAIN before = Variables
    BY DEF Runs
<1>2. CASE value \notin Variables
    <2>1. PICK v \in ValuesOf(value) : after = [before EXCEPT ![name] = v]
        BY <1>2 DEF Assigned
    <2>2. QED  BY <1>1, <1>2, <2>1
<1>3. CASE value \in Variables
    <2>1. before[value] # Unbound /\ after = [before EXCEPT ![name] = before[value]]
        BY <1>3 DEF Assigned
    <2>2. QED  BY <1>1, <1>3, <2>1
<1>4. QED  BY <1>2, <1>3

LEMMA AssignmentLives ==
    ASSUME Structured, Histories, WriteAssignment
    PROVE  Histories'
<1> PICK at : at = line
    OBVIOUS
<1> PICK name : name = Head(pending).name
    OBVIOUS
<1> PICK value : value = Head(pending).value
    OBVIOUS
<1> DEFINE added == [name |-> name, value |-> value, line |-> line]
<1>1. Head(pending) \in Ops /\ Head(pending).op = "assign"
    BY Drawn DEF Structured, WriteAssignment
<1>2. line \in Nat \ {0} /\ declared \in DeclaredTypes
    BY DEF Structured, Typed
<1>3. name \in Variables /\ value \in Variables \cup AllTypes
    BY <1>1, <1>2, BlocksAssumption DEF AllTypes
<1>4. added \in Assignment /\ added.line = line /\ added.name = name /\ added.value = value
    BY <1>2, <1>3 DEF Assignment
<1>5. /\ assignments' = Append(assignments, added) /\ PlainStep
      /\ UNCHANGED <<if_guards, asserts, returns, invalidations, declared>>
      /\ runs' = UNION {Assigned(run, name, value) : run \in runs}
      /\ name = Parameter =>
            \A run \in runs : \A after \in Assigned(run, Parameter, value) : after[Parameter] \in ValuesOf(declared)
    BY DEF WriteAssignment, PlainStep
<1> HIDE DEF added
<1>6. PICK n \in Nat : EndsIn(assignments, assignments', added, n)
    <2>1. assignments \in Seq(Assignment)
        BY DEF Structured, Typed
    <2>2. \E i \in Nat : EndsIn(assignments, Append(assignments, added), added, i)
        BY <2>1, <1>4, <1>5, AppendedAs
    <2>3. QED  BY <2>2, <1>4, <1>5
<1>7. SiteKept(assignments, assignments', line)
    BY <1>4, <1>5, AppendedSiteKept DEF Structured, Typed
<1>8. SitesKept
    BY <1>5, <1>7, PlainSites, SameSiteKept DEF SitesKept
<1>9. ASSUME NEW after \in runs'
      PROVE  after \in Live /\ \E before \in runs : Happens(at, FALSE, before, after)'
    <2>1. PICK before \in runs : after \in Assigned(before, name, value)
        BY <1>5
    <2>2. before \in Live /\ before \in Runs
        BY LiveRuns
    <2>3. after \in Runs
        BY <1>3, <2>1, <2>2, AssignedAreRuns DEF Structured
    <2>4. /\ IF value \notin Variables THEN after[name] \in ValuesOf(value)
             ELSE before[value] # Unbound /\ after[name] = before[value]
          /\ \A other \in Variables : other # name => after[other] = before[other]
        BY <1>3, <2>1, <2>2, AssignedLives
    <2>5. after \in Live
        <3>1. CASE name = Parameter
            BY <1>5, <2>1, <2>3, <3>1 DEF Live
        <3>2. CASE name # Parameter
            BY <2>2, <2>3, <2>4, <3>2 DEF Live, Variables
        <3>3. QED  BY <3>1, <3>2
    <2>6. ASSUME NEW other \in Variables PROVE Becomes(other, at, before, after[other])'
        <3>1. CASE other = name
            <4>1. AssignedAt(n + 1, other, at)'
                BY <1>4, <1>6, <3>1 DEF AssignedAt, EndsIn
            <4>2. Gives(assignments'[n + 1], before, after[other])
                BY <1>4, <1>6, <2>4, <3>1 DEF Gives, EndsIn
            <4>3. QED  BY <4>1, <4>2 DEF Becomes
        <3>2. CASE other # name
            <4>1. \A i : ~AssignedAt(i, other, at)'
                BY <1>4, <1>6, <3>2, NoneAt DEF AssignedAt, EndsIn
            <4>2. \A i : ~DeletesAt(i, other, at)'
                BY <1>5, NoneAt DEF DeletesAt, EndsIn
            <4>3. QED  BY <2>4, <3>2, <4>1, <4>2 DEF Becomes
        <3>3. QED  BY <3>1, <3>2
    <2>7. Happens(at, FALSE, before, after)'
        BY <1>5, <2>6, NoneAt DEF Happens
    <2>8. QED  BY <2>5, <2>7
<1>10. QED  BY <1>5, <1>8, <1>9, PlainHistories

LEMMA AugmentedLives ==
    ASSUME Structured, Histories, WriteAugmented
    PROVE  Histories'
<1> PICK at : at = line
    OBVIOUS
<1> DEFINE added == [name |-> Parameter, value |-> declared, line |-> line]
           rebound == [kind |-> "rebind", name |-> Parameter, line |-> line]
<1>1. line \in Nat \ {0} /\ declared \in DeclaredTypes
    BY DEF Structured, Typed
<1>2. declared \in AllTypes /\ Parameter \in Variables /\ declared \notin Variables
    BY <1>1, DeclaredIsType, NamesAssumption DEF Structured
<1>3. /\ added \in Assignment /\ added.line = line /\ added.name = Parameter /\ added.value = declared
      /\ rebound \in Invalidation /\ rebound.line = line /\ rebound.kind = "rebind"
    BY <1>1, <1>2 DEF Assignment, Invalidation
<1>4. /\ assignments' = Append(assignments, added) /\ invalidations' = Append(invalidations, rebound)
      /\ PlainStep /\ UNCHANGED <<if_guards, asserts, returns, declared>>
      /\ runs' = UNION {Assigned(run, Parameter, declared) : run \in {run \in runs : run[Parameter] # Unbound}}
    BY DEF WriteAugmented, PlainStep
<1> HIDE DEF added, rebound
<1>5. PICK n \in Nat : EndsIn(assignments, assignments', added, n)
    <2>1. assignments \in Seq(Assignment)
        BY DEF Structured, Typed
    <2>2. \E i \in Nat : EndsIn(assignments, Append(assignments, added), added, i)
        BY <2>1, <1>3, <1>4, AppendedAs
    <2>3. QED  BY <2>2, <1>3, <1>4
<1>6. PICK m \in Nat : EndsIn(invalidations, invalidations', rebound, m)
    <2>1. invalidations \in Seq(Invalidation)
        BY DEF Structured, Typed
    <2>2. \E i \in Nat : EndsIn(invalidations, Append(invalidations, rebound), rebound, i)
        BY <2>1, <1>3, <1>4, AppendedAs
    <2>3. QED  BY <2>2, <1>3, <1>4
<1>7. SiteKept(assignments, assignments', line) /\ SiteKept(invalidations, invalidations', line)
    BY <1>3, <1>4, AppendedSiteKept DEF Structured, Typed
<1>8. SitesKept
    BY <1>4, <1>7, PlainSites, SameSiteKept DEF SitesKept
<1>9. ASSUME NEW after \in runs'
      PROVE  after \in Live /\ \E before \in runs : Happens(at, FALSE, before, after)'
    <2>1. PICK before \in runs : after \in Assigned(before, Parameter, declared)
        BY <1>4
    <2>2. before \in Live /\ before \in Runs
        BY LiveRuns
    <2>3. after \in Runs
        BY <1>2, <2>1, <2>2, AssignedAreRuns DEF Structured
    <2>4. /\ after[Parameter] \in ValuesOf(declared)
          /\ \A other \in Variables : other # Parameter => after[other] = before[other]
        BY <1>2, <2>1, <2>2, AssignedLives
    <2>5. after \in Live
        BY <2>3, <2>4 DEF Live
    <2>6. ASSUME NEW other \in Variables PROVE Becomes(other, at, before, after[other])'
        <3>1. CASE other = Parameter
            <4>1. AssignedAt(n + 1, other, at)'
                BY <1>3, <1>5, <3>1 DEF AssignedAt, EndsIn
            <4>2. Gives(assignments'[n + 1], before, after[other])
                BY <1>2, <1>3, <1>5, <2>4, <3>1 DEF Gives, EndsIn
            <4>3. QED  BY <4>1, <4>2 DEF Becomes
        <3>2. CASE other # Parameter
            <4>1. \A i : ~AssignedAt(i, other, at)'
                BY <1>3, <1>5, <3>2, NoneAt DEF AssignedAt, EndsIn
            <4>2. \A i : ~DeletesAt(i, other, at)'
                BY <1>3, <1>6, NoneAt DEF DeletesAt, EndsIn
            <4>3. QED  BY <2>4, <3>2, <4>1, <4>2 DEF Becomes
        <3>3. QED  BY <3>1, <3>2
    <2>7. Happens(at, FALSE, before, after)'
        BY <1>4, <2>6, NoneAt DEF Happens
    <2>8. QED  BY <2>5, <2>7
<1>10. QED  BY <1>4, <1>8, <1>9, PlainHistories

LEMMA DeleteLives ==
    ASSUME Structured, Histories, WriteDelete
    PROVE  Histories'
<1> PICK at : at = line
    OBVIOUS
<1> PICK name : name = Head(pending).name
    OBVIOUS
<1> DEFINE added == [kind |-> "delete", name |-> name, line |-> line]
<1>1. Head(pending) \in Ops /\ Head(pending).op = "delete"
    BY Drawn DEF Structured, WriteDelete
<1>2. line \in Nat \ {0} /\ name \in Variables
    BY <1>1, BlocksAssumption DEF Structured, Typed
<1>3. /\ added \in Invalidation /\ added.line = line /\ added.kind = "delete" /\ added.name = name
    BY <1>2 DEF Invalidation
<1>4. /\ invalidations' = Append(invalidations, added)
      /\ PlainStep /\ UNCHANGED <<if_guards, asserts, returns, assignments, declared>>
      /\ runs' = {[run EXCEPT ![name] = Unbound] : run \in {run \in runs : run[name] # Unbound}}
    BY DEF WriteDelete, PlainStep
<1> HIDE DEF added
<1>5. PICK m \in Nat : EndsIn(invalidations, invalidations', added, m)
    <2>1. invalidations \in Seq(Invalidation)
        BY DEF Structured, Typed
    <2>2. \E i \in Nat : EndsIn(invalidations, Append(invalidations, added), added, i)
        BY <2>1, <1>3, <1>4, AppendedAs
    <2>3. QED  BY <2>2, <1>3, <1>4
<1>6. SiteKept(invalidations, invalidations', line)
    BY <1>3, <1>4, AppendedSiteKept DEF Structured, Typed
<1>7. SitesKept
    BY <1>4, <1>6, PlainSites, SameSiteKept DEF SitesKept
<1>8. ASSUME NEW after \in runs'
      PROVE  after \in Live /\ \E before \in runs : Happens(at, FALSE, before, after)'
    <2>1. PICK before \in runs : after = [before EXCEPT ![name] = Unbound]
        BY <1>4
    <2>2. before \in Live /\ before \in Runs
        BY LiveRuns
    <2>3. /\ after \in Runs /\ after[name] = Unbound
          /\ \A other \in Variables : other # name => after[other] = before[other]
        BY <1>2, <2>1, <2>2 DEF Runs
    <2>4. after \in Live
        BY <2>2, <2>3 DEF Live, Variables
    <2>5. ASSUME NEW other \in Variables PROVE Becomes(other, at, before, after[other])'
        <3>1. CASE other = name
            <4>1. DeletesAt(m + 1, other, at)'
                BY <1>3, <1>5, <3>1 DEF DeletesAt, EndsIn
            <4>2. QED  BY <2>3, <3>1, <4>1 DEF Becomes
        <3>2. CASE other # name
            <4>1. \A i : ~DeletesAt(i, other, at)'
                BY <1>3, <1>5, <3>2, NoneAt DEF DeletesAt, EndsIn
            <4>2. \A i : ~AssignedAt(i, other, at)'
                BY <1>4, NoneAt DEF AssignedAt
            <4>3. QED  BY <2>3, <3>2, <4>1, <4>2 DEF Becomes
        <3>3. QED  BY <3>1, <3>2
    <2>6. Happens(at, FALSE, before, after)'
        BY <1>4, <2>5, NoneAt DEF Happens
    <2>7. QED  BY <2>4, <2>6
<1>9. QED  BY <1>4, <1>7, <1>8, PlainHistories

LEMMA PassLives ==
    ASSUME Structured, Histories, WritePass
    PROVE  Histories'
<1> PICK at : at = line
    OBVIOUS
<1>1. PlainStep /\ UNCHANGED <<if_guards, asserts, returns, assignments, invalidations, declared, runs>>
    BY DEF WritePass, PlainStep, sites
<1>2. SitesKept
    BY <1>1, PlainSites, SameSiteKept DEF SitesKept
<1>3. ASSUME NEW run \in runs' PROVE run \in Live /\ run \in runs /\ Happens(at, FALSE, run, run)'
    <2>1. \A name \in Variables : Becomes(name, at, run, run[name])'
        BY <1>1, NoneAt DEF Becomes, AssignedAt, DeletesAt
    <2>2. QED  BY <1>1, <2>1, NoneAt, LiveRuns DEF Happens
<1>4. QED  BY <1>1, <1>2, <1>3, PlainHistories

-----------------------------------------------------------------------------
(* At an if a run goes in, or waits: either way its history is one line longer. *)

LEMMA IfLives ==
    ASSUME Structured, Histories, WriteIf
    PROVE  Histories'
<1> PICK at : at = line
    OBVIOUS
<1>0. Len(if_guards) \in Nat /\ Len(suites) \in Nat
    BY Parts DEF Structured
<1> PICK m \in Nat : m = Len(if_guards) + 1
    BY <1>0
<1> PICK n \in Nat : n = Len(suites) + 1
    BY <1>0
<1> PICK test : test = Head(pending).test
    OBVIOUS
<1> DEFINE added == [line |-> line, test |-> test, true_start |-> line + 1, true_end |-> Open,
                     false_start |-> Missing, false_end |-> Open]
           suite == [guard |-> m, clause |-> line, waiting |-> Passing(runs, test, FALSE), done |-> {}]
           more == [elses |-> {}, whole |-> FALSE]
<1>1. /\ line' = line + 1 /\ line \in Nat \ {0}
      /\ \A l \in 1 .. line - 1 : scope'[l] = scope[l]
      /\ scope'[at] = OpenClauses
    BY PlainNextLine DEF WriteIf
<1>2. test \in Tests
    BY Drawn DEF Structured, WriteIf, Tests
<1>3. added \in Guard /\ suite \in Suite /\ more \in Clauses
    <2>1. Passing(runs, test, FALSE) \in SUBSET Runs
        BY PassingAreRuns DEF Structured, Typed
    <2>2. added \in Guard
        BY <1>1, <1>2 DEF Guard, Open, Missing
    <2>3. suite \in Suite
        BY <1>1, <2>1 DEF Suite
    <2>4. QED  BY <2>2, <2>3 DEF Clauses
<1>4. /\ if_guards' = Append(if_guards, added) /\ suites' = Append(suites, suite)
      /\ clauses' = Append(clauses, more) /\ runs' = Passing(runs, test, TRUE)
      /\ UNCHANGED <<declared, asserts, returns, assignments, invalidations>>
    BY DEF WriteIf
<1>5. /\ added.line = at /\ added.test = test /\ suite.guard = m /\ suite.clause = at
      /\ suite.waiting = Passing(runs, test, FALSE) /\ suite.done = {}
      /\ more.elses = {} /\ more.whole = FALSE
    OBVIOUS
<1> HIDE DEF added, suite, more
<1>6. /\ DOMAIN if_guards' = 1 .. m /\ DOMAIN if_guards = 1 .. m - 1 /\ m \in Nat \ {0}
      /\ \A i \in 1 .. m - 1 : if_guards'[i] = if_guards[i]
      /\ if_guards'[m] = added
    BY <1>3, <1>4, Appended DEF Structured, Typed
<1>7. /\ DOMAIN clauses' = 1 .. m
      /\ \A i \in 1 .. m - 1 : clauses'[i] = clauses[i]
      /\ clauses'[m] = more
    BY <1>3, <1>4, Appended DEF Structured, Typed
<1>8. /\ DOMAIN suites' = 1 .. n /\ DOMAIN suites = 1 .. n - 1 /\ n \in Nat \ {0}
      /\ Len(suites) = n - 1 /\ Len(suites') = n
      /\ \A i \in 1 .. n - 1 : suites'[i] = suites[i]
      /\ suites'[n] = suite
    BY <1>3, <1>4, Appended DEF Structured, Typed
<1>9. \A i \in DOMAIN if_guards' :
          \/ i \in DOMAIN if_guards /\ if_guards'[i].line = if_guards[i].line /\ if_guards'[i].test = if_guards[i].test
          \/ if_guards'[i].line = line
    BY <1>5, <1>6
<1>10. SitesKept
    BY <1>1, <1>4, <1>9, SameSiteKept DEF SitesKept
<1>11. \A i \in 1 .. m - 1 :
          /\ if_guards[i].line \in 1 .. at - 1 /\ scope[if_guards[i].line] \subseteq 1 .. at - 1
          /\ scope'[if_guards[i].line] = scope[if_guards[i].line]
          /\ clauses[i].elses \subseteq 1 .. at - 1
          /\ Chain(i)' = Chain(i)
    <2> SUFFICES ASSUME NEW i \in 1 .. m - 1
                 PROVE  /\ if_guards[i].line \in 1 .. at - 1 /\ scope[if_guards[i].line] \subseteq 1 .. at - 1
                        /\ scope'[if_guards[i].line] = scope[if_guards[i].line]
                        /\ clauses[i].elses \subseteq 1 .. at - 1
                        /\ Chain(i)' = Chain(i)
        OBVIOUS
    <2>1. i \in DOMAIN if_guards /\ if_guards[i].line \in 1 .. at - 1 /\ at \in Nat
        BY <1>1, <1>6 DEF Structured, Ordered
    <2>2. clauses[i].elses \subseteq (if_guards[i].line + 1) .. (at - 1)
        BY <2>1 DEF Structured, Laid, LaidOut
    <2>3. scope[if_guards[i].line] \subseteq 1 .. if_guards[i].line
        BY <2>1 DEF Structured, Ordered
    <2>4. clauses[i].elses \subseteq 1 .. at - 1
        BY <2>1, <2>2
    <2>5. Chain(i)' = Chain(i)
        BY <1>6, <1>7 DEF Chain
    <2>6. QED  BY <1>1, <2>1, <2>3, <2>4, <2>5
<1>12. ASSUME NEW took, Coherent(took), NEW new \in {took, took \cup {at}}
       PROVE  Coherent(new)'
    <2> SUFFICES ASSUME NEW i \in 1 .. m
                 PROVE  /\ if_guards'[i].line \in new => clauses'[i].elses \cap new = {}
                        /\ clauses'[i].whole /\ scope'[if_guards'[i].line] \subseteq new => Chain(i)' \cap new # {}
        BY <1>6 DEF Coherent
    <2>1. CASE i = m
        BY <1>5, <1>7, <2>1
    <2>2. CASE i # m
        <3>1. i \in 1 .. m - 1
            BY <1>6, <2>2
        <3>2. /\ if_guards[i].line \in took => clauses[i].elses \cap took = {}
              /\ clauses[i].whole /\ scope[if_guards[i].line] \subseteq took => Chain(i) \cap took # {}
            BY <1>6, <1>12, <3>1 DEF Coherent
        <3>3. at \notin 1 .. at - 1
            BY <1>1
        <3>4. QED  BY <1>6, <1>7, <1>11, <1>12, <3>1, <3>2, <3>3
    <2>3. QED  BY <2>1, <2>2
<1>13. \A run : \A outcome \in BOOLEAN : run \in Runs /\ May(run, test, outcome) => Happens(at, outcome, run, run)'
    <2> SUFFICES ASSUME NEW run, NEW outcome \in BOOLEAN, May(run, test, outcome)
                 PROVE  Happens(at, outcome, run, run)'
        OBVIOUS
    <2>1. \A name \in Variables : Becomes(name, at, run, run[name])'
        BY <1>4, NoneAt DEF Becomes, AssignedAt, DeletesAt
    <2>2. \A i \in DOMAIN if_guards' : if_guards'[i].line = at => May(run, if_guards'[i].test, outcome)
        <3>1. \A i \in 1 .. m : i = m \/ i \in 1 .. m - 1
            BY <1>6
        <3>2. QED  BY <1>5, <1>6, <3>1, NoneAt
    <2>3. QED  BY <1>4, <2>1, <2>2, NoneAt DEF Happens
<1>14. (\A i \in 0 .. n - 1 : OpenTo(i)' = OpenTo(i)) /\ OpenClauses = OpenTo(n - 1)
    BY <1>8 DEF OpenTo, OpenClauses
<1>15. OpenClauses' = OpenClauses \cup {at}
    <2>1. OpenClauses' = {suites'[i].clause : i \in 1 .. n}
        BY <1>8 DEF OpenClauses, OpenTo
    <2>2. OpenClauses = {suites[i].clause : i \in 1 .. n - 1}
        BY <1>8 DEF OpenClauses, OpenTo
    <2>3. \A i \in 1 .. n : i = n \/ i \in 1 .. n - 1
        BY <1>8
    <2>4. n \in 1 .. n /\ \A i \in 1 .. n - 1 : i \in 1 .. n
        BY <1>8
    <2>5. QED  BY <1>5, <1>8, <2>1, <2>2, <2>3, <2>4
<1>16. ASSUME NEW run \in runs' PROVE \E took : Reaches(took, run)' /\ OpenClauses' \subseteq took
    <2>1. run \in runs /\ May(run, test, TRUE)
        BY <1>4 DEF Passing
    <2>2. PICK took : Reaches(took, run) /\ OpenClauses \subseteq took
        BY <2>1 DEF Histories
    <2>3. Coherent(took \cup {at})' /\ run \in Runs
        BY <1>12, <2>2, ReachesFacts
    <2>4. Reaches(took \cup {at}, run)'
        BY <1>1, <1>10, <1>13, <2>1, <2>2, <2>3, Enters
    <2>5. OpenClauses' \subseteq took \cup {at}
        BY <1>15, <2>2
    <2>6. QED  BY <2>4, <2>5
<1>17. ASSUME NEW run \in suite.waiting
       PROVE  \E took : Reaches(took, run)' /\ Waits(n, suites[n], took)'
    <2>1. run \in runs /\ May(run, test, FALSE)
        BY <1>5, <1>17 DEF Passing
    <2>2. PICK took : Reaches(took, run) /\ OpenClauses \subseteq took
        BY <2>1 DEF Histories
    <2>3. Coherent(took)' /\ run \in Runs /\ run \in Live /\ at \notin took
        BY <1>12, <2>2, ReachesFacts
    <2>4. Reaches(took, run)'
        BY <1>1, <1>10, <1>13, <2>1, <2>2, <2>3, Stays
    <2>5. n - 1 \in 0 .. n - 1
        BY <1>8
    <2>6. OpenTo(n - 1)' \subseteq took
        BY <1>14, <2>2, <2>5
    <2>7. Chain(m)' = {at}
        BY <1>5, <1>6, <1>7 DEF Chain
    <2>8. Waits(n, suites[n], took)'
        BY <1>5, <1>8, <2>3, <2>6, <2>7 DEF Waits
    <2>9. QED  BY <2>4, <2>8
<1>18. ASSUME NEW i \in 1 .. n - 1, NEW run, NEW took, Reaches(took, run), suites[i].clause \notin took
       PROVE  Reaches(took, run)'
    <2>1. Coherent(took)'
        BY <1>12, <1>18, ReachesFacts
    <2>2. ~(scope'[line] \subseteq took)
        BY <1>1, <1>8, <1>18, ClauseInChain
    <2>3. QED  BY <1>10, <1>18, <2>1, <2>2, Skips
<1>19. ASSUME NEW i \in 1 .. n - 1
       PROVE  /\ OpenTo(i - 1)' = OpenTo(i - 1) /\ suites[i].guard \in 1 .. m - 1
              /\ Chain(suites[i].guard)' = Chain(suites[i].guard)
              /\ suites'[i] = suites[i]
    <2>1. suites[i].guard \in 1 .. m - 1
        BY <1>6, <1>8 DEF Structured, Nested, Innest
    <2>2. i - 1 \in 0 .. n - 1
        BY <1>8
    <2>3. suites'[i] = suites[i]
        BY <1>8
    <2>4. if_guards'[suites'[i].guard] = if_guards[suites[i].guard] /\ clauses'[suites'[i].guard] = clauses[suites[i].guard]
        BY <1>6, <1>7, <2>1, <2>3
    <2>5. QED  BY <1>14, <2>1, <2>2, <2>3, <2>4 DEF Chain
<1>20. ASSUME NEW i \in 1 .. n - 1, NEW run \in suites[i].waiting
       PROVE  \E took : Reaches(took, run)' /\ Waits(i, suites[i], took)'
    <2>1. i \in DOMAIN suites
        BY <1>8
    <2>2. PICK took : Reaches(took, run) /\ Waits(i, suites[i], took)
        BY <2>1 DEF Histories
    <2>3. suites[i].clause \notin took
        BY <2>1, <2>2, ClauseInChain DEF Waits
    <2>4. Waits(i, suites[i], took)'
        BY <1>19, <2>2 DEF Waits
    <2>5. QED  BY <1>18, <2>2, <2>3, <2>4
<1>21. ASSUME NEW i \in 1 .. n - 1, NEW run \in suites[i].done
       PROVE  \E took : Reaches(took, run)' /\ IsDone(i, suites[i], took)'
    <2>1. i \in DOMAIN suites
        BY <1>8
    <2>2. PICK took : Reaches(took, run) /\ IsDone(i, suites[i], took)
        BY <2>1 DEF Histories
    <2>3. suites[i].clause \notin took
        BY <2>2 DEF IsDone
    <2>4. IsDone(i, suites[i], took)'
        BY <1>19, <2>2 DEF IsDone
    <2>5. QED  BY <1>18, <2>2, <2>3, <2>4
<1>22. \A i \in 1 .. n : i = n \/ i \in 1 .. n - 1
    BY <1>8
<1>23. ASSUME NEW i \in 1 .. n, NEW run \in suites'[i].waiting
       PROVE  \E took : Reaches(took, run)' /\ Waits(i, suites[i], took)'
    BY <1>8, <1>17, <1>20, <1>22
<1>24. ASSUME NEW i \in 1 .. n, NEW run \in suites'[i].done
       PROVE  \E took : Reaches(took, run)' /\ IsDone(i, suites[i], took)'
    BY <1>5, <1>8, <1>21, <1>22
<1>25. QED  BY <1>8, <1>16, <1>23, <1>24 DEF Histories

-----------------------------------------------------------------------------
(* What waited goes into the next clause; what has done one goes past the others. *)

LEMMA ClauseLives ==
    ASSUME Structured, Histories, NEW whole \in BOOLEAN, NEW waiting \in SUBSET Runs, whole => waiting = {},
           NextClause(whole, waiting), waiting \subseteq Innermost.waiting, runs' \subseteq Innermost.waiting
    PROVE  Histories'
<1> suites # << >>
    BY DEF NextClause
<1> PICK at : at = line
    OBVIOUS
<1> PICK n : n = Len(suites)
    OBVIOUS
<1> PICK k : k = Innermost.guard
    OBVIOUS
<1> DEFINE guard == NextSuite(if_guards[k])
           more == [elses |-> clauses[k].elses \cup {line}, whole |-> whole]
           suite == [guard |-> k, clause |-> line, waiting |-> waiting, done |-> Innermost.done \cup runs]
<1>1. /\ n \in Nat \ {0} /\ DOMAIN suites = 1 .. n /\ n \in DOMAIN suites
      /\ Innermost = suites[n] /\ Innermost \in Suite
      /\ k \in DOMAIN if_guards /\ if_guards[k] \in Guard /\ clauses[k] \in Clauses
      /\ DOMAIN clauses = DOMAIN if_guards
      /\ LaidOut(if_guards[k], clauses[k], line) /\ Innest(n, suites[n])
      /\ if_guards[k].line \in 1 .. line - 1
      /\ scope[if_guards[k].line] = OuterClauses
      /\ \A i \in 1 .. n - 1 : suites[i].guard # k
    BY InnermostIs
<1>2. line \in Nat \ {0} /\ OuterClauses = OpenTo(n - 1) /\ OpenClauses = OpenTo(n)
    BY <1>1 DEF OuterClauses, OpenClauses, Structured, Typed
<1>3. OuterClauses \subseteq 1 .. line - 1
    <2>1. n - 1 \in Int /\ n - 1 <= Len(suites)
        BY <1>1
    <2>2. QED  BY <1>2, <2>1, OpenBefore
<1>4. /\ line' = line + 1
      /\ \A l \in 1 .. line - 1 : scope'[l] = scope[l]
      /\ scope'[at] = OuterClauses \cup {at}
    <2>1. OuterClauses \cup {line} \in SUBSET (1 .. line)
        BY <1>2, <1>3
    <2>2. QED  BY <2>1, NextLineTyped DEF NextClause
<1>5. guard \in Guard /\ guard.line = if_guards[k].line /\ guard.test = if_guards[k].test
    <2>1. line - 1 \in Nat /\ line + 1 \in Nat
        BY <1>2
    <2>2. [if_guards[k] EXCEPT !.true_end = line - 1, !.false_start = line + 1] \in Guard
        BY <1>1, <2>1 DEF Guard
    <2>3. [if_guards[k] EXCEPT !.true_end = line - 1, !.false_start = line + 1].line = if_guards[k].line
        BY <1>1 DEF Guard
    <2>4. [if_guards[k] EXCEPT !.true_end = line - 1, !.false_start = line + 1].test = if_guards[k].test
        BY <1>1 DEF Guard
    <2>5. QED  BY <1>1, <2>2, <2>3, <2>4 DEF NextSuite
<1>6. more \in Clauses
    BY <1>1, <1>2 DEF Clauses
<1>7. suite \in Suite
    <2>1. Innermost.done \cup runs \in SUBSET Runs /\ k \in Nat
        BY <1>1 DEF Suite, Structured, Typed
    <2>2. QED  BY <1>2, <2>1 DEF Suite
<1>8. /\ if_guards' = [if_guards EXCEPT ![k] = guard] /\ clauses' = [clauses EXCEPT ![k] = more]
      /\ suites' = [suites EXCEPT ![n] = suite]
      /\ UNCHANGED <<declared, asserts, returns, assignments, invalidations>>
    BY <1>1 DEF NextClause
<1>9. /\ more.elses = clauses[k].elses \cup {at} /\ more.whole = whole
      /\ suite.guard = k /\ suite.clause = at /\ suite.waiting = waiting
      /\ suite.done = suites[n].done \cup runs
    BY <1>1
<1> HIDE DEF guard, more, suite
<1>10. /\ DOMAIN if_guards' = DOMAIN if_guards /\ if_guards'[k] = guard
       /\ \A i \in DOMAIN if_guards : i # k => if_guards'[i] = if_guards[i]
    BY <1>1, <1>5, <1>8, Changed DEF Structured, Typed
<1>11. clauses'[k] = more /\ \A i \in DOMAIN if_guards : i # k => clauses'[i] = clauses[i]
    BY <1>1, <1>6, <1>8, Changed DEF Structured, Typed
<1>12. /\ DOMAIN suites' = 1 .. n /\ suites'[n] = suite /\ Len(suites') = n
       /\ \A i \in 1 .. n - 1 : suites'[i] = suites[i]
    BY <1>1, <1>7, <1>8, Changed DEF Structured, Typed
<1>13. \A i \in DOMAIN if_guards' :
          i \in DOMAIN if_guards /\ if_guards'[i].line = if_guards[i].line /\ if_guards'[i].test = if_guards[i].test
    BY <1>5, <1>10
<1>14. SitesKept
    BY <1>4, <1>8, <1>13, SameSiteKept DEF SitesKept
<1>15. \A i \in DOMAIN if_guards : i # k => Chain(i)' = Chain(i)
    BY <1>10, <1>11 DEF Chain
<1>16. Chain(k)' = Chain(k) \cup {at}
    BY <1>5, <1>9, <1>10, <1>11 DEF Chain
<1>17. \A i \in DOMAIN if_guards :
          /\ if_guards[i].line \in 1 .. at - 1 /\ scope[if_guards[i].line] \subseteq 1 .. at - 1
          /\ scope'[if_guards[i].line] = scope[if_guards[i].line]
          /\ clauses[i].elses \subseteq 1 .. at - 1
    <2> SUFFICES ASSUME NEW i \in DOMAIN if_guards
                 PROVE  /\ if_guards[i].line \in 1 .. at - 1 /\ scope[if_guards[i].line] \subseteq 1 .. at - 1
                        /\ scope'[if_guards[i].line] = scope[if_guards[i].line]
                        /\ clauses[i].elses \subseteq 1 .. at - 1
        OBVIOUS
    <2>1. if_guards[i].line \in 1 .. at - 1 /\ at \in Nat
        BY <1>2 DEF Structured, Ordered
    <2>2. clauses[i].elses \subseteq (if_guards[i].line + 1) .. (at - 1)
        BY DEF Structured, Laid, LaidOut
    <2>3. scope[if_guards[i].line] \subseteq 1 .. if_guards[i].line
        BY <2>1 DEF Structured, Ordered
    <2>4. clauses[i].elses \subseteq 1 .. at - 1
        BY <2>1, <2>2
    <2>5. QED  BY <1>4, <2>1, <2>3, <2>4
<1>18. ASSUME NEW took, Coherent(took), at \notin took, NEW new \in {took, took \cup {at}},
              at \in new => if_guards[k].line \notin took,
              whole /\ OuterClauses \subseteq new => Chain(k)' \cap new # {}
       PROVE  Coherent(new)'
    <2> SUFFICES ASSUME NEW i \in DOMAIN if_guards
                 PROVE  /\ if_guards'[i].line \in new => clauses'[i].elses \cap new = {}
                        /\ clauses'[i].whole /\ scope'[if_guards'[i].line] \subseteq new => Chain(i)' \cap new # {}
        BY <1>10 DEF Coherent
    <2>1. /\ if_guards[i].line \in took => clauses[i].elses \cap took = {}
          /\ clauses[i].whole /\ scope[if_guards[i].line] \subseteq took => Chain(i) \cap took # {}
        BY <1>18 DEF Coherent
    <2>2. at \notin 1 .. at - 1
        BY <1>2
    <2>3. if_guards'[i].line = if_guards[i].line /\ scope'[if_guards'[i].line] = scope[if_guards[i].line]
        BY <1>10, <1>13, <1>17
    <2>4. CASE i = k
        <3>1. if_guards'[k].line \in new => clauses'[k].elses \cap new = {}
            <4> SUFFICES ASSUME if_guards[k].line \in new PROVE clauses'[k].elses \cap new = {}
                BY <2>3, <2>4
            <4>1. if_guards[k].line \in took
                BY <1>17, <1>18, <2>2, <2>4
            <4>2. new = took
                BY <1>18, <4>1
            <4>3. QED  BY <1>9, <1>11, <1>18, <2>1, <2>4, <4>1, <4>2
        <3>2. clauses'[k].whole /\ scope'[if_guards'[k].line] \subseteq new => Chain(k)' \cap new # {}
            BY <1>1, <1>9, <1>11, <1>18, <2>3, <2>4
        <3>3. QED  BY <2>4, <3>1, <3>2
    <2>5. CASE i # k
        <3>1. clauses'[i] = clauses[i] /\ Chain(i)' = Chain(i)
            BY <1>11, <1>15, <2>5
        <3>2. QED  BY <1>17, <1>18, <2>1, <2>2, <2>3, <3>1
    <2>6. QED  BY <2>4, <2>5
<1>19. \A run : Happens(at, TRUE, run, run)'
    <2> SUFFICES ASSUME NEW run PROVE Happens(at, TRUE, run, run)'
        OBVIOUS
    <2>1. \A name \in Variables : Becomes(name, at, run, run[name])'
        BY <1>8, NoneAt DEF Becomes, AssignedAt, DeletesAt
    <2>2. \A i \in DOMAIN if_guards' : if_guards'[i].line # at
        BY <1>13, NoneAt
    <2>3. QED  BY <1>8, <2>1, <2>2, NoneAt DEF Happens
<1>20. \A i \in 0 .. n - 1 : OpenTo(i)' = OpenTo(i)
    BY <1>1, <1>12 DEF OpenTo
<1>21. OpenTo(n - 1)' = OuterClauses
    BY <1>1, <1>2, <1>20
<1>22. OpenClauses' = OuterClauses \cup {at}
    <2>1. OpenClauses' = {suites'[i].clause : i \in 1 .. n}
        BY <1>12 DEF OpenClauses, OpenTo
    <2>2. OuterClauses = {suites[i].clause : i \in 1 .. n - 1}
        BY <1>2 DEF OpenTo
    <2>3. \A i \in 1 .. n : i = n \/ i \in 1 .. n - 1
        BY <1>1
    <2>4. n \in 1 .. n /\ \A i \in 1 .. n - 1 : i \in 1 .. n
        BY <1>1
    <2>5. QED  BY <1>9, <1>12, <2>1, <2>2, <2>3, <2>4
<1>23. ASSUME NEW run \in suites[n].waiting
       PROVE  \E took : Reaches(took, run) /\ OuterClauses \subseteq took /\ Chain(k) \cap took = {}
                        /\ Coherent(took) /\ at \notin took /\ run \in Runs
    <2>1. PICK took : Reaches(took, run) /\ Waits(n, suites[n], took)
        BY <1>1 DEF Histories
    <2>2. Coherent(took) /\ at \notin took /\ run \in Runs
        BY <2>1, ReachesFacts
    <2>3. QED  BY <1>1, <1>2, <2>1, <2>2 DEF Waits
<1>24. ASSUME NEW run \in runs' PROVE \E took : Reaches(took, run)' /\ OpenClauses' \subseteq took
    <2>1. PICK took : /\ Reaches(took, run) /\ OuterClauses \subseteq took /\ Chain(k) \cap took = {}
                      /\ Coherent(took) /\ at \notin took /\ run \in Runs
        BY <1>1, <1>23
    <2>2. if_guards[k].line \notin took
        BY <2>1 DEF Chain
    <2>3. PICK new : new = took \cup {at}
        OBVIOUS
    <2>4. Coherent(new)'
        BY <1>16, <1>18, <2>1, <2>2, <2>3
    <2>5. Reaches(new, run)'
        BY <1>4, <1>14, <1>19, <2>1, <2>3, <2>4, Enters
    <2>6. OpenClauses' \subseteq new
        BY <1>22, <2>1, <2>3
    <2>7. QED  BY <2>5, <2>6
<1>25. ASSUME NEW run \in waiting PROVE \E took : Reaches(took, run)' /\ Waits(n, suites[n], took)'
    <2>1. PICK took : /\ Reaches(took, run) /\ OuterClauses \subseteq took /\ Chain(k) \cap took = {}
                      /\ Coherent(took) /\ at \notin took /\ run \in Runs
        BY <1>1, <1>23
    <2>2. ~whole
        BY <1>25
    <2>3. Coherent(took)'
        BY <1>18, <2>1, <2>2
    <2>4. ~(scope'[line] \subseteq took)
        BY <1>4, <2>1
    <2>5. Reaches(took, run)'
        BY <1>14, <2>1, <2>3, <2>4, Skips
    <2>6. Waits(n, suites[n], took)'
        BY <1>9, <1>12, <1>16, <1>21, <2>1 DEF Waits
    <2>7. QED  BY <2>5, <2>6
<1>26. ASSUME NEW run, NEW took, Reaches(took, run), OuterClauses \subseteq took, Chain(k) \cap took # {}
       PROVE  Reaches(took, run)' /\ IsDone(n, suites[n], took)'
    <2>1. Coherent(took) /\ at \notin took
        BY <1>26, ReachesFacts
    <2>2. Chain(k)' \cap took # {}
        BY <1>16, <1>26
    <2>3. Coherent(took)'
        BY <1>18, <2>1, <2>2
    <2>4. ~(scope'[line] \subseteq took)
        BY <1>4, <2>1
    <2>5. Reaches(took, run)'
        BY <1>14, <1>26, <2>3, <2>4, Skips
    <2>6. IsDone(n, suites[n], took)'
        BY <1>9, <1>12, <1>21, <1>26, <2>1, <2>2 DEF IsDone
    <2>7. QED  BY <2>5, <2>6
<1>27. ASSUME NEW run \in suite.done PROVE \E took : Reaches(took, run)' /\ IsDone(n, suites[n], took)'
    <2>1. CASE run \in suites[n].done
        <3>1. PICK took : Reaches(took, run) /\ IsDone(n, suites[n], took)
            BY <1>1, <2>1 DEF Histories
        <3>2. OuterClauses \subseteq took /\ Chain(k) \cap took # {}
            BY <1>1, <1>2, <3>1 DEF IsDone
        <3>3. QED  BY <1>26, <3>1, <3>2
    <2>2. CASE run \in runs
        <3>1. PICK took : Reaches(took, run) /\ OpenClauses \subseteq took
            BY <2>2 DEF Histories
        <3>2. suites[n].clause \in Chain(k) /\ suites[n].clause \in OpenClauses
            BY <1>1, ClauseInChain
        <3>3. OuterClauses \subseteq OpenClauses
            BY <1>1, <1>2 DEF OpenTo
        <3>4. QED  BY <1>26, <3>1, <3>2, <3>3
    <2>3. QED  BY <1>9, <1>27, <2>1, <2>2
<1>28. ASSUME NEW i \in 1 .. n - 1
       PROVE  /\ i \in DOMAIN suites /\ suites'[i] = suites[i]
              /\ OpenTo(i - 1)' = OpenTo(i - 1)
              /\ Chain(suites[i].guard)' = Chain(suites[i].guard)
              /\ suites[i].clause \in OuterClauses
    <2>1. i \in DOMAIN suites /\ i - 1 \in 0 .. n - 1 /\ suites'[i] = suites[i]
        BY <1>1, <1>12
    <2>2. suites[i].guard \in DOMAIN if_guards /\ suites[i].guard # k
        BY <1>1, <2>1 DEF Structured, Nested, Innest
    <2>3. if_guards'[suites'[i].guard] = if_guards[suites[i].guard] /\ clauses'[suites'[i].guard] = clauses[suites[i].guard]
        BY <1>10, <1>11, <2>1, <2>2
    <2>4. suites[i].clause \in OuterClauses
        BY <1>2 DEF OpenTo
    <2>5. QED  BY <1>20, <2>1, <2>3, <2>4 DEF Chain
<1>29. ASSUME NEW i \in 1 .. n - 1, NEW run, NEW took, Reaches(took, run), suites[i].clause \notin took
       PROVE  Reaches(took, run)'
    <2>1. suites[i].clause \in OuterClauses
        BY <1>28
    <2>2. ~(OuterClauses \subseteq took)
        BY <1>29, <2>1
    <2>3. Coherent(took) /\ at \notin took
        BY <1>29, ReachesFacts
    <2>4. Coherent(took)'
        BY <1>18, <2>2, <2>3
    <2>5. ~(scope'[line] \subseteq took)
        BY <1>4, <2>2
    <2>6. QED  BY <1>14, <1>29, <2>4, <2>5, Skips
<1>30. ASSUME NEW i \in 1 .. n - 1, NEW run \in suites[i].waiting
       PROVE  \E took : Reaches(took, run)' /\ Waits(i, suites[i], took)'
    <2>1. PICK took : Reaches(took, run) /\ Waits(i, suites[i], took)
        BY <1>28 DEF Histories
    <2>2. suites[i].clause \notin took
        BY <1>28, <2>1, ClauseInChain DEF Waits
    <2>3. Waits(i, suites[i], took)'
        BY <1>28, <2>1 DEF Waits
    <2>4. QED  BY <1>29, <2>1, <2>2, <2>3
<1>31. ASSUME NEW i \in 1 .. n - 1, NEW run \in suites[i].done
       PROVE  \E took : Reaches(took, run)' /\ IsDone(i, suites[i], took)'
    <2>1. PICK took : Reaches(took, run) /\ IsDone(i, suites[i], took)
        BY <1>28 DEF Histories
    <2>2. suites[i].clause \notin took
        BY <2>1 DEF IsDone
    <2>3. IsDone(i, suites[i], took)'
        BY <1>28, <2>1 DEF IsDone
    <2>4. QED  BY <1>29, <2>1, <2>2, <2>3
<1>32. \A i \in 1 .. n : i = n \/ i \in 1 .. n - 1
    BY <1>1
<1>33. ASSUME NEW i \in 1 .. n, NEW run \in suites'[i].waiting
       PROVE  \E took : Reaches(took, run)' /\ Waits(i, suites[i], took)'
    BY <1>9, <1>12, <1>25, <1>28, <1>30, <1>32
<1>34. ASSUME NEW i \in 1 .. n, NEW run \in suites'[i].done
       PROVE  \E took : Reaches(took, run)' /\ IsDone(i, suites[i], took)'
    BY <1>12, <1>27, <1>28, <1>31, <1>32
<1>35. QED  BY <1>12, <1>24, <1>33, <1>34 DEF Histories

\* The lines of an if's suites are all that changes.
LEMMA SameHistories ==
    ASSUME Structured, UNCHANGED <<declared, line, scope, clauses, asserts, returns, assignments, invalidations>>,
           DOMAIN if_guards' = DOMAIN if_guards,
           \A i \in DOMAIN if_guards : if_guards'[i].line = if_guards[i].line /\ if_guards'[i].test = if_guards[i].test,
           NEW took, NEW run, Reaches(took, run)
    PROVE  Reaches(took, run)' /\ \A i \in DOMAIN if_guards : Chain(i)' = Chain(i)
<1>1. PICK env : History(took, env) /\ env[line] = run
    BY DEF Reaches
<1>2. \A i \in DOMAIN if_guards : Chain(i)' = Chain(i)
    BY DEF Chain
<1>3. Coherent(took)'
    BY <1>1, <1>2 DEF History, Coherent
<1>4. Live' = Live
    BY DEF Live
<1>5. ASSUME NEW l, NEW inside, NEW before, NEW after, Happens(l, inside, before, after)
      PROVE  Happens(l, inside, before, after)'
    <2>1. \A name, value : Becomes(name, l, before, value)' = Becomes(name, l, before, value)
        BY DEF Becomes, AssignedAt, DeletesAt
    <2>2. QED  BY <1>5, <2>1 DEF Happens
<1>6. \A l \in 1 .. line - 1 : IF scope[l] \subseteq took THEN Happens(l, l \in took, env[l], env[l + 1])'
                               ELSE env[l + 1] = env[l]
    BY <1>1, <1>5 DEF History
<1>7. History(took, env)'
    BY <1>1, <1>3, <1>4, <1>6 DEF History
<1>8. QED  BY <1>1, <1>2, <1>7 DEF Reaches

LEMMA EndLives ==
    ASSUME Structured, Histories, WriteEnd
    PROVE  Histories'
<1> suites # << >>
    BY DEF WriteEnd
<1> PICK n : n = Len(suites)
    OBVIOUS
<1> PICK k : k = Innermost.guard
    OBVIOUS
<1> DEFINE guard == EndSuite(if_guards[k])
<1>1. /\ n \in Nat \ {0} /\ DOMAIN suites = 1 .. n /\ n \in DOMAIN suites
      /\ Innermost = suites[n] /\ Innermost \in Suite
      /\ k \in DOMAIN if_guards /\ if_guards[k] \in Guard
    BY InnermostIs
<1>2. line \in Nat \ {0}
    BY DEF Structured, Typed
<1>3. guard \in Guard /\ guard.line = if_guards[k].line /\ guard.test = if_guards[k].test
    <2>1. line - 1 \in Nat
        BY <1>2
    <2>2. [if_guards[k] EXCEPT !.true_end = line - 1] \in Guard
          /\ [if_guards[k] EXCEPT !.false_end = line - 1] \in Guard
        BY <1>1, <2>1 DEF Guard
    <2>3. [if_guards[k] EXCEPT !.true_end = line - 1].line = if_guards[k].line
          /\ [if_guards[k] EXCEPT !.false_end = line - 1].line = if_guards[k].line
          /\ [if_guards[k] EXCEPT !.true_end = line - 1].test = if_guards[k].test
          /\ [if_guards[k] EXCEPT !.false_end = line - 1].test = if_guards[k].test
        BY <1>1 DEF Guard
    <2>4. QED  BY <1>1, <2>2, <2>3 DEF EndSuite
<1>4. /\ if_guards' = [if_guards EXCEPT ![k] = guard]
      /\ UNCHANGED <<declared, line, scope, clauses, asserts, returns, assignments, invalidations>>
      /\ runs' = runs \cup suites[n].done \cup suites[n].waiting
    BY <1>1 DEF WriteEnd
<1> HIDE DEF guard
<1>5. /\ DOMAIN if_guards' = DOMAIN if_guards
      /\ \A i \in DOMAIN if_guards : if_guards'[i].line = if_guards[i].line /\ if_guards'[i].test = if_guards[i].test
    BY <1>1, <1>3, <1>4, Changed DEF Structured, Typed
<1>6. ASSUME NEW took, NEW run, Reaches(took, run) PROVE Reaches(took, run)'
    BY <1>4, <1>5, <1>6, SameHistories
<1>7. \A i \in DOMAIN if_guards : Chain(i)' = Chain(i)
    BY <1>4, <1>5 DEF Chain
<1>8. /\ DOMAIN suites' = 1 .. n - 1 /\ Len(suites') = n - 1
      /\ \A i \in 1 .. n - 1 : suites'[i] = suites[i]
    BY <1>1, Shortened DEF Structured, Typed, WriteEnd
<1>9. \A i \in 0 .. n - 1 : OpenTo(i)' = OpenTo(i)
    <2>1. ASSUME NEW i \in 0 .. n - 1, NEW j \in 1 .. i PROVE suites'[j] = suites[j]
        <3>1. j \in 1 .. n - 1
            BY <1>1
        <3>2. QED  BY <1>8, <3>1
    <2>2. QED  BY <2>1 DEF OpenTo
<1>10. OpenClauses' = OpenTo(n - 1) /\ OpenTo(n - 1) \subseteq OpenClauses
    <2>1. n - 1 \in 0 .. n - 1
        BY <1>1
    <2>2. OpenClauses' = {suites'[i].clause : i \in 1 .. n - 1}
        BY <1>8 DEF OpenClauses, OpenTo
    <2>3. OpenClauses' = OpenTo(n - 1)
        BY <1>8, <2>2 DEF OpenTo
    <2>4. \A i \in 1 .. n - 1 : i \in 1 .. n
        BY <1>1
    <2>5. QED  BY <1>1, <2>3, <2>4 DEF OpenClauses, OpenTo
<1>11. ASSUME NEW run \in runs' PROVE \E took : Reaches(took, run)' /\ OpenClauses' \subseteq took
    <2>1. CASE run \in runs
        BY <1>6, <1>10, <2>1 DEF Histories
    <2>2. CASE run \in suites[n].done
        BY <1>1, <1>6, <1>10, <2>2 DEF Histories, IsDone
    <2>3. CASE run \in suites[n].waiting
        BY <1>1, <1>6, <1>10, <2>3 DEF Histories, Waits
    <2>4. QED  BY <1>4, <2>1, <2>2, <2>3
<1>12. ASSUME NEW i \in 1 .. n - 1
       PROVE  /\ \A run \in suites'[i].waiting : \E took : Reaches(took, run)' /\ Waits(i, suites[i], took)'
              /\ \A run \in suites'[i].done : \E took : Reaches(took, run)' /\ IsDone(i, suites[i], took)'
    <2>1. i \in DOMAIN suites /\ i - 1 \in 0 .. n - 1 /\ suites'[i] = suites[i]
        BY <1>1, <1>8
    <2>2. OpenTo(i - 1)' = OpenTo(i - 1)
        BY <1>9, <2>1
    <2>3. suites[i].guard \in DOMAIN if_guards
        BY <2>1 DEF Structured, Nested, Innest
    <2>4. \A took : Waits(i, suites[i], took)' = Waits(i, suites[i], took)
        BY <1>4, <1>5, <2>1, <2>2, <2>3 DEF Waits, Chain
    <2>5. \A took : IsDone(i, suites[i], took)' = IsDone(i, suites[i], took)
        BY <1>4, <1>5, <2>1, <2>2, <2>3 DEF IsDone, Chain
    <2>6. QED  BY <1>6, <2>1, <2>4, <2>5 DEF Histories
<1>13. QED  BY <1>8, <1>11, <1>12 DEF Histories

LEMMA SameShapeLives ==
    ASSUME Structured, Histories, SameShape
    PROVE  Histories'
<1>1. /\ UNCHANGED <<declared, line, suites, runs, scope, clauses>>
      /\ UNCHANGED <<if_guards, asserts, returns, assignments, invalidations>>
    BY DEF SameShape, sites
<1>2. ASSUME NEW took, NEW run, Reaches(took, run) PROVE Reaches(took, run)'
    BY <1>1, <1>2, SameHistories
<1>3. OpenClauses' = OpenClauses /\ (\A i : OpenTo(i)' = OpenTo(i)) /\ \A i : Chain(i)' = Chain(i)
    BY <1>1 DEF OpenClauses, OpenTo, Chain
<1>4. \A i, suite, took : Waits(i, suite, took)' = Waits(i, suite, took) /\ IsDone(i, suite, took)' = IsDone(i, suite, took)
    BY <1>3 DEF Waits, IsDone
<1>5. \A run \in runs' : \E took : Reaches(took, run)' /\ OpenClauses' \subseteq took
    BY <1>1, <1>2, <1>3 DEF Histories
<1>6. ASSUME NEW i \in DOMAIN suites'
      PROVE  /\ \A run \in suites'[i].waiting : \E took : Reaches(took, run)' /\ Waits(i, suites[i], took)'
             /\ \A run \in suites'[i].done : \E took : Reaches(took, run)' /\ IsDone(i, suites[i], took)'
    <2>1. \A took : Waits(i, suites[i], took)' = Waits(i, suites[i], took) /\ IsDone(i, suites[i], took)' = IsDone(i, suites[i], took)
        BY <1>1, <1>3 DEF Waits, IsDone
    <2>2. QED  BY <1>1, <1>2, <2>1 DEF Histories
<1>7. QED  BY <1>5, <1>6 DEF Histories

LEMMA InitLived == Init => Histories
<1> SUFFICES ASSUME Init PROVE Histories
    OBVIOUS
<1>1. Structured
    BY InitStructured
<1>2. /\ line = 1 /\ suites = << >> /\ if_guards = << >> /\ declared \in DeclaredTypes
    BY DEF Init
<1>3. OpenClauses = {} /\ Coherent({})
    <2>1. OpenClauses = {}
        BY <1>2 DEF OpenClauses, OpenTo
    <2>2. QED  BY <1>2, <2>1 DEF Coherent
<1>4. ASSUME NEW run \in runs PROVE Reaches({}, run)
    <2>1. PICK value \in ValuesOf(declared) : run = [name \in Variables |-> IF name = Parameter THEN value ELSE Unbound]
        BY DEF Init
    <2>2. run \in Live
        BY <1>1, <2>1 DEF Live, Structured, Typed, Variables
    <2>3. \A name \in Locals : run[name] = Unbound
        BY <2>1, NamesAssumption DEF Variables
    <2> DEFINE env == [l \in 1 .. 1 |-> run]
    <2>4. env \in [1 .. line -> Live] /\ env[1] = run
        BY <1>2, <2>2
    <2> HIDE DEF env
    <2>5. 1 .. line - 1 = {}
        BY <1>2
    <2>6. History({}, env)
        BY <1>3, <2>3, <2>4, <2>5 DEF History
    <2>7. QED  BY <1>2, <2>4, <2>6 DEF Reaches
<1>5. QED  BY <1>2, <1>3, <1>4 DEF Histories

LEMMA ElifLives ==
    ASSUME Structured, Histories, WriteElif
    PROVE  Histories'
<1> PICK waiting : waiting = Passing(Innermost.waiting, Head(pending).test, FALSE)
    OBVIOUS
<1>1. NextClause(FALSE, waiting)
    BY DEF WriteElif
<1>2. Innermost.waiting \in SUBSET Runs
    BY <1>1, InnermostIs DEF NextClause, Suite
<1>3. waiting \subseteq Innermost.waiting /\ runs' \subseteq Innermost.waiting
    BY DEF WriteElif, Passing
<1>4. waiting \in SUBSET Runs
    BY <1>2, <1>3
<1>5. QED  BY <1>1, <1>3, <1>4, ClauseLives

LEMMA ElseLives ==
    ASSUME Structured, Histories, WriteElse
    PROVE  Histories'
<1>1. NextClause(TRUE, {}) /\ runs' \subseteq Innermost.waiting
    BY DEF WriteElse
<1>2. QED  BY <1>1, ClauseLives

LEMMA LivedKept == Structured /\ Histories /\ [Next]_vars => Histories'
<1> SUFFICES ASSUME Structured, Histories, [Next]_vars PROVE Histories'
    OBVIOUS
<1>1. CASE BeginBlock
    BY <1>1, SameShapeLives DEF BeginBlock, SameShape
<1>2. CASE WriteIf
    BY <1>2, IfLives
<1>3. CASE WriteElif
    BY <1>3, ElifLives
<1>4. CASE WriteElse
    BY <1>4, ElseLives
<1>5. CASE WriteEnd
    BY <1>5, EndLives
<1>6. CASE WriteAssert
    BY <1>6, AssertLives
<1>7. CASE WriteReturn
    BY <1>7, ReturnLives
<1>8. CASE WriteAssignment
    BY <1>8, AssignmentLives
<1>9. CASE WriteAugmented
    BY <1>9, AugmentedLives
<1>10. CASE WriteDelete
    BY <1>10, DeleteLives
<1>11. CASE WritePass
    BY <1>11, PassLives
<1>12. CASE UNCHANGED vars
    BY <1>12, SameShapeLives DEF vars, SameShape
<1>13. QED
    BY <1>1, <1>2, <1>3, <1>4, <1>5, <1>6, <1>7, <1>8, <1>9, <1>10, <1>11, <1>12 DEF Next

\* Whatever the function, every run at the next line, and every run that waits at an
\* open if, has come there through the lines: each test had the outcome of the clause
\* the run took, each assertion held, no return was passed, and the names changed
\* where an assignment or a deletion stands and nowhere else.
THEOREM RunsHaveHistories == Spec => []Lived
<1>1. Init => Lived
    BY InitStructured, InitLived DEF Lived
<1>2. Lived /\ [Next]_vars => Lived'
    BY StructuredKept, LivedKept DEF Lived
<1>3. QED  BY <1>1, <1>2, PTL DEF Spec

-----------------------------------------------------------------------------
(* Induction over sets of numbers, and folds one element at a time. *)

LEMMA Least ==
    ASSUME NEW set \in SUBSET Nat, set # {}
    PROVE  \E least \in set : \A other \in set : least <= other
<1> DEFINE Less == {pair \in Nat \X Nat : pair[1] < pair[2]}
<1>1. IsWellFoundedOn(Less, Nat)
    <2>1. OpToRel(<, Nat) = Less
        BY DEF OpToRel
    <2>2. QED  BY <2>1, NatLessThanWellFounded
<1> HIDE DEF Less
<1>2. PICK least \in set : \A other \in set : <<other, least>> \notin Less
    BY <1>1, WFMin
<1>3. \A other \in set : ~(other < least)
    BY <1>2 DEF Less
<1>4. QED  BY <1>3

\* A set of naturals that holds 0 and goes on from each number to the next holds
\* them all, up to a bound.
LEMMA Steps ==
    ASSUME NEW n \in Nat, NEW good, 0 \in good,
           \A i \in 1 .. n : i - 1 \in good => i \in good
    PROVE  0 .. n \subseteq good
<1> DEFINE bad == (0 .. n) \ good
<1> SUFFICES ASSUME bad # {} PROVE FALSE
    OBVIOUS
<1>1. bad \in SUBSET Nat /\ bad \subseteq 0 .. n
    OBVIOUS
<1> HIDE DEF bad
<1>2. PICK least \in bad : \A other \in bad : least <= other
    BY <1>1, Least
<1>3. least \in 1 .. n /\ least - 1 \in 0 .. n
    BY <1>1, <1>2 DEF bad
<1>4. least - 1 \notin bad
    BY <1>1, <1>2, <1>3
<1>5. QED  BY <1>2, <1>3, <1>4 DEF bad

LEMMA MaxOfTo ==
    ASSUME NEW n \in Nat, NEW set \in SUBSET (1 .. n), set # {}
    PROVE  Max(set) \in set /\ \A other \in set : other <= Max(set)
<1>1. {n - i : i \in set} \in SUBSET Nat /\ {n - i : i \in set} # {}
    <2>1. \A i \in set : n - i \in Nat
        OBVIOUS
    <2>2. QED  BY <2>1
<1>2. PICK gap \in {n - i : i \in set} : \A other \in {n - i : i \in set} : gap <= other
    BY <1>1, Least
<1>3. PICK max \in set : gap = n - max
    BY <1>2
<1>4. \A other \in set : other <= max
    BY <1>2, <1>3
<1>5. \E max2 \in set : \A other \in set : max2 >= other
    BY <1>4
<1>6. QED  BY <1>5 DEF Max

\* The types a guard after the other leaves.
NarrowedBy(told, base, name, facts) ==
    /\ told[0] = base
    /\ \A i \in 1 .. Len(facts) : told[i] = Told(told[i - 1], name, facts[i])
    /\ Narrowed(base, name, facts) = told[Len(facts)]

LEMMA NarrowedSteps ==
    ASSUME NEW base, NEW name, NEW facts, Len(facts) \in Nat
    PROVE  \E told : NarrowedBy(told, base, name, facts)
<1> DEFINE Step(type, i) == Told(type, name, facts[i])
           Is(f) == f = [i \in 0 .. Len(facts) |-> IF i = 0 THEN base ELSE Step(f[i - 1], i)]
           f == CHOOSE f : Is(f)
<1>1. Narrowed(base, name, facts) = f[Len(facts)]
    BY DEF Narrowed
<1> PICK n \in Nat : n = Len(facts)
    OBVIOUS
<1> HIDE DEF Step
<1> DEFINE To(k, g) == g = [i \in 0 .. k |-> IF i = 0 THEN base ELSE Step(g[i - 1], i)]
           good == {k \in 0 .. n : \E g : To(k, g)}
<1>2. 0 \in good
    <2> DEFINE g == [i \in 0 .. 0 |-> base]
    <2>1. To(0, g)
        OBVIOUS
    <2> HIDE DEF g, To
    <2>2. QED  BY <2>1
<1>3. ASSUME NEW k \in 1 .. n, k - 1 \in good PROVE k \in good
    <2>1. PICK g : To(k - 1, g)
        BY <1>3
    <2> DEFINE h == [i \in 0 .. k |-> IF i = k THEN Step(g[k - 1], k) ELSE g[i]]
    <2>2. \A i \in 0 .. k : h[i] = IF i = 0 THEN base ELSE Step(h[i - 1], i)
        <3> SUFFICES ASSUME NEW i \in 0 .. k PROVE h[i] = IF i = 0 THEN base ELSE Step(h[i - 1], i)
            OBVIOUS
        <3>1. CASE i = k
            <4>1. k - 1 \in 0 .. k /\ k - 1 # k /\ k # 0
                OBVIOUS
            <4>2. h[k - 1] = g[k - 1] /\ h[k] = Step(g[k - 1], k)
                BY <4>1
            <4>3. QED  BY <3>1, <4>1, <4>2
        <3>2. CASE i # k
            <4>1. i \in 0 .. k - 1 /\ (i # 0 => i - 1 \in 0 .. k /\ i - 1 # k)
                BY <3>2
            <4>2. g[i] = IF i = 0 THEN base ELSE Step(g[i - 1], i)
                BY <2>1, <4>1
            <4>3. h[i] = g[i] /\ (i # 0 => h[i - 1] = g[i - 1])
                BY <3>2, <4>1
            <4>4. QED  BY <4>2, <4>3
        <3>3. QED  BY <3>1, <3>2
    <2>3. h = [i \in 0 .. k |-> h[i]]
        OBVIOUS
    <2> HIDE DEF h
    <2>4. To(k, h)
        BY <2>2, <2>3
    <2>5. QED  BY <2>4
<1>4. n \in good
    <2> HIDE DEF good
    <2>1. 0 .. n \subseteq good
        BY <1>2, <1>3, Steps
    <2>2. QED  BY <2>1
<1>5. PICK g : To(n, g)
    BY <1>4
<1>6. Is(f)
    <2>1. Is(g)
        BY <1>5
    <2> HIDE DEF Is
    <2>2. QED  BY <2>1
<1>7. f[0] = base /\ \A i \in 1 .. Len(facts) : f[i] = Told(f[i - 1], name, facts[i])
    <2> HIDE DEF f
    <2>1. \A i \in 0 .. n : f[i] = IF i = 0 THEN base ELSE Step(f[i - 1], i)
        BY <1>6
    <2>2. QED  BY <2>1 DEF Step
<1> HIDE DEF f
<1>8. NarrowedBy(f, base, name, facts)
    BY <1>1, <1>7 DEF NarrowedBy
<1>9. QED  BY <1>8
-----------------------------------------------------------------------------
(* The types at a line are made of those at the lines before. *)

LEMMA PastGuard ==
    ASSUME Structured, NEW i \in DOMAIN if_guards, NEW at \in 1 .. line, IsPast(if_guards[i], at),
           if_guards[i].false_start # Missing
    PROVE  /\ if_guards[i].true_start = if_guards[i].line + 1 /\ if_guards[i].true_end \in Nat
           /\ if_guards[i].line \in 1 .. line - 1 /\ if_guards[i].true_end < if_guards[i].false_end
           /\ if_guards[i].false_start = if_guards[i].true_end + 2 /\ if_guards[i].true_end # Open
           /\ if_guards[i].false_end \in Nat /\ if_guards[i].false_end # Open /\ if_guards[i].false_end < at
           /\ if_guards[i].line <= if_guards[i].true_end
<1>1. if_guards[i] \in Guard /\ LaidOut(if_guards[i], clauses[i], line) /\ if_guards[i].line \in 1 .. line - 1
    BY Parts DEF Structured, Laid, Ordered
<1>2. line \in Nat
    BY DEF Structured, Typed
<1>3. QED  BY <1>1, <1>2 DEF LaidOut, IsPast, EndOf, Guard, Open, Missing

\* The types do as well for a name's assignments that agree on the lines before.
AgreeBefore(types, others, at) == \A l \in 1 .. at - 1 : types[l] = others[l]

LEMMA LastAssignmentIs ==
    ASSUME NEW name, NEW from, NEW to, NEW site \in LastAssignment(name, from, to)
    PROVE  /\ \E i \in DOMAIN assignments : assignments[i] = site
           /\ site.name = name /\ from <= site.line /\ site.line <= to
           /\ \A i \in DOMAIN assignments :
                 assignments[i].name = name /\ from <= assignments[i].line /\ assignments[i].line <= to =>
                     assignments[i].line <= site.line
    BY DEF LastAssignment, Range

LEMMA AssignedTypeLocal ==
    ASSUME NEW types, NEW others, NEW at, AgreeBefore(types, others, at), NEW found,
           \A site \in found : site.line \in 1 .. at - 1
    PROVE  AssignedType(types, found) = AssignedType(others, found)
<1>1. CASE found = {}
    BY <1>1 DEF AssignedType
<1>2. CASE found # {}
    <2> DEFINE site == CHOOSE site \in found : TRUE
    <2>1. site \in found
        BY <1>2
    <2> HIDE DEF site
    <2>2. types[site.line] = others[site.line]
        BY <2>1 DEF AgreeBefore
    <2>3. QED  BY <1>2, <2>2 DEF AssignedType, site
<1>3. QED  BY <1>1, <1>2

LEMMA SitesOfIf ==
    ASSUME Structured, NEW at \in 1 .. line, NEW name, NEW i \in JoiningGuards(name, at)
    PROVE  /\ i \in DOMAIN if_guards /\ if_guards[i].false_start # Missing /\ IsPast(if_guards[i], at)
           /\ ~Reassigned(name, if_guards[i].false_end, at)
           /\ \A site \in OfTrue(name, if_guards[i]) \cup OfFalse(name, if_guards[i]) : site.line \in 1 .. at - 1
<1>1. /\ i \in DOMAIN if_guards /\ if_guards[i].false_start # Missing /\ IsPast(if_guards[i], at)
      /\ ~Reassigned(name, if_guards[i].false_end, at)
    BY DEF JoiningGuards
<1>2. /\ if_guards[i].true_start = if_guards[i].line + 1 /\ if_guards[i].true_end \in Nat
      /\ if_guards[i].line \in 1 .. line - 1 /\ if_guards[i].true_end < if_guards[i].false_end
      /\ if_guards[i].false_start = if_guards[i].true_end + 2
      /\ if_guards[i].false_end \in Nat /\ if_guards[i].false_end < at
    BY <1>1, PastGuard
<1>3. ASSUME NEW site \in OfTrue(name, if_guards[i]) PROVE site.line \in 1 .. at - 1
    <2>1. /\ \E j \in DOMAIN assignments : assignments[j] = site
          /\ if_guards[i].true_start <= site.line /\ site.line <= if_guards[i].true_end
        BY LastAssignmentIs DEF OfTrue
    <2>2. site.line \in Nat
        BY <2>1, Parts DEF Structured, Assignment
    <2>3. QED  BY <1>2, <2>1, <2>2
<1>4. ASSUME NEW site \in OfFalse(name, if_guards[i]) PROVE site.line \in 1 .. at - 1
    <2>1. /\ \E j \in DOMAIN assignments : assignments[j] = site
          /\ if_guards[i].false_start <= site.line /\ site.line <= if_guards[i].false_end
        BY LastAssignmentIs DEF OfFalse
    <2>2. site.line \in Nat
        BY <2>1, Parts DEF Structured, Assignment
    <2>3. QED  BY <1>2, <2>1, <2>2
<1>5. QED  BY <1>1, <1>3, <1>4

LEMMA JoinedTypeLocal ==
    ASSUME Structured, NEW at \in 1 .. line, NEW types, NEW others, AgreeBefore(types, others, at), NEW name
    PROVE  JoinedType(types, name, at) = JoinedType(others, name, at)
<1>1. CASE JoiningGuards(name, at) = {}
    BY <1>1 DEF JoinedType
<1>2. CASE JoiningGuards(name, at) # {}
    <2> DEFINE i == CHOOSE i \in JoiningGuards(name, at) : TRUE
    <2>1. i \in JoiningGuards(name, at)
        BY <1>2
    <2> HIDE DEF i
    <2>2. \A site \in OfTrue(name, if_guards[i]) \cup OfFalse(name, if_guards[i]) : site.line \in 1 .. at - 1
        BY <2>1, SitesOfIf
    <2>3. /\ AssignedType(types, OfTrue(name, if_guards[i])) = AssignedType(others, OfTrue(name, if_guards[i]))
          /\ AssignedType(types, OfFalse(name, if_guards[i])) = AssignedType(others, OfFalse(name, if_guards[i]))
        BY <2>2, AssignedTypeLocal
    <2>4. QED  BY <2>3 DEF JoinedType, i
<1>3. QED  BY <1>1, <1>2

LEMMA SinceDeletedBefore ==
    ASSUME Structured, NEW at \in 1 .. line, NEW name, NEW site \in SinceDeleted(name, at)
    PROVE  site.line \in 1 .. at - 1
<1>1. (\E j \in DOMAIN assignments : assignments[j] = site) /\ site.line <= at - 1
    BY LastAssignmentIs DEF SinceDeleted
<1>2. site.line \in 1 .. line - 1
    BY <1>1 DEF Structured, Ordered
<1>3. QED  BY <1>1, <1>2

LEMMA TypesLocal ==
    ASSUME Structured, NEW at \in 1 .. line, NEW types, NEW others, AgreeBefore(types, others, at)
    PROVE  TypesBy(types, at) = TypesBy(others, at)
<1>1. ASSUME NEW name PROVE LocalType(types, name, at) = LocalType(others, name, at)
    <2>1. JoinedType(types, name, at) = JoinedType(others, name, at)
        BY JoinedTypeLocal
    <2>2. AssignedType(types, SinceDeleted(name, at)) = AssignedType(others, SinceDeleted(name, at))
        BY SinceDeletedBefore, AssignedTypeLocal
    <2>3. QED  BY <2>1, <2>2 DEF LocalType, IsJoined
<1>2. QED  BY <1>1 DEF TypesBy

-----------------------------------------------------------------------------
(* The functions over lines have the values their recursion says. *)

\* The types at a line are those the recursion says.
LEMMA TypesUnfold ==
    ASSUME Structured
    PROVE  \A at \in 1 .. line : TypesAt[at] = TypesBy(TypesAt, at)
<1> PICK n \in Nat : n = line
    BY DEF Structured, Typed
<1> DEFINE By(f, at) == TypesBy(f, at)
           To(k, f) == f = [at \in 1 .. k |-> By(f, at)]
           good == {k \in 0 .. n : \E f : To(k, f)}
           f == CHOOSE f : To(line, f)
<1>1. ASSUME NEW at \in 1 .. n, NEW g, NEW h, AgreeBefore(g, h, at) PROVE By(g, at) = By(h, at)
    BY <1>1, TypesLocal
<1>2. TypesAt = f
    BY DEF TypesAt
<1> HIDE DEF By
<1>3. 0 \in good
    <2> DEFINE g == [at \in 1 .. 0 |-> 0]
    <2>1. g = [at \in 1 .. 0 |-> By(g, at)]
        <3> HIDE DEF g
        <3>1. 1 .. 0 = {}
            OBVIOUS
        <3>2. g = [at \in {} |-> 0] /\ [at \in {} |-> 0] = [at \in {} |-> By(g, at)]
            BY <3>1 DEF g
        <3>3. QED  BY <3>1, <3>2
    <2> HIDE DEF g
    <2>2. To(0, g)
        BY <2>1
    <2> HIDE DEF To
    <2>3. QED  BY <2>2
<1>4. ASSUME NEW k \in 1 .. n, k - 1 \in good PROVE k \in good
    <2>1. PICK g : To(k - 1, g)
        BY <1>4
    <2> DEFINE h == [at \in 1 .. k |-> IF at = k THEN By(g, k) ELSE g[at]]
    <2>2. \A at \in 1 .. k : h[at] = By(h, at)
        <3> SUFFICES ASSUME NEW at \in 1 .. k PROVE h[at] = By(h, at)
            OBVIOUS
        <3>1. \A l \in 1 .. at - 1 : l \in 1 .. k /\ l # k
            OBVIOUS
        <3>2. \A l \in 1 .. at - 1 : h[l] = g[l]
            BY <3>1
        <3> HIDE DEF h
        <3>3. By(g, at) = By(h, at)
            <4>1. AgreeBefore(g, h, at) /\ at \in 1 .. n
                BY <3>2 DEF AgreeBefore
            <4>2. QED  BY <1>1, <4>1
        <3>4. CASE at = k
            BY <3>3, <3>4 DEF h
        <3>5. CASE at # k
            <4>1. at \in 1 .. k - 1
                BY <3>5
            <4>2. g[at] = By(g, at)
                BY <2>1, <4>1
            <4>3. h[at] = g[at]
                BY <3>5 DEF h
            <4>4. QED  BY <3>3, <4>2, <4>3
        <3>6. QED  BY <3>4, <3>5
    <2>3. h = [at \in 1 .. k |-> h[at]]
        OBVIOUS
    <2> HIDE DEF h
    <2>4. To(k, h)
        BY <2>2, <2>3
    <2>5. QED  BY <2>4
<1>5. n \in good
    <2> HIDE DEF good
    <2>1. 0 .. n \subseteq good
        BY <1>3, <1>4, Steps
    <2>2. QED  BY <2>1
<1>6. PICK g : To(line, g)
    BY <1>5
<1>7. To(line, f)
    <2> HIDE DEF To
    <2>1. QED  BY <1>6
<1>8. \A at \in 1 .. line : TypesAt[at] = By(TypesAt, at)
    <2> HIDE DEF f
    <2>1. \A at \in 1 .. line : f[at] = By(f, at)
        BY <1>7
    <2>2. QED  BY <1>2, <2>1
<1>9. QED  BY <1>8 DEF By

LEMMA TypeSitesBefore ==
    ASSUME Structured, NEW at \in 1 .. line, NEW name, NEW site \in TypeSites(name, at)
    PROVE  site.line \in 1 .. at - 1
<1>1. CASE IsJoined(TypesAt, name, at)
    <2>1. PICK i \in JoiningGuards(name, at) : site \in OfTrue(name, if_guards[i]) \cup OfFalse(name, if_guards[i])
        BY <1>1 DEF TypeSites
    <2>2. QED  BY <2>1, SitesOfIf
<1>2. CASE ~IsJoined(TypesAt, name, at)
    BY <1>2, SinceDeletedBefore DEF TypeSites
<1>3. QED  BY <1>1, <1>2

LEMMA RestsLocal ==
    ASSUME Structured, NEW at \in 1 .. line, NEW resting, NEW others, AgreeBefore(resting, others, at)
    PROVE  RestsBy(resting, at) = RestsBy(others, at)
<1>1. \A name : \A site \in TypeSites(name, at) : resting[site.line] = others[site.line]
    BY TypeSitesBefore DEF AgreeBefore
<1>2. \A name : (\A site \in TypeSites(name, at) : site.value \in Variables => site.value \in resting[site.line])
            <=> (\A site \in TypeSites(name, at) : site.value \in Variables => site.value \in others[site.line])
    BY <1>1
<1>3. \A name : name \in RestsBy(resting, at) <=> name \in RestsBy(others, at)
    BY <1>2 DEF RestsBy
<1>4. QED  BY <1>3

\* What types rest on is what the recursion says.
LEMMA RestingUnfold ==
    ASSUME Structured
    PROVE  \A at \in 1 .. line : Resting[at] = RestsBy(Resting, at)
<1> PICK n \in Nat : n = line
    BY DEF Structured, Typed
<1> DEFINE By(f, at) == RestsBy(f, at)
           To(k, f) == f = [at \in 1 .. k |-> By(f, at)]
           good == {k \in 0 .. n : \E f : To(k, f)}
           f == CHOOSE f : To(line, f)
<1>1. ASSUME NEW at \in 1 .. n, NEW g, NEW h, AgreeBefore(g, h, at) PROVE By(g, at) = By(h, at)
    BY <1>1, RestsLocal
<1>2. Resting = f
    BY DEF Resting
<1> HIDE DEF By
<1>3. 0 \in good
    <2> DEFINE g == [at \in 1 .. 0 |-> 0]
    <2>1. g = [at \in 1 .. 0 |-> By(g, at)]
        <3> HIDE DEF g
        <3>1. 1 .. 0 = {}
            OBVIOUS
        <3>2. g = [at \in {} |-> 0] /\ [at \in {} |-> 0] = [at \in {} |-> By(g, at)]
            BY <3>1 DEF g
        <3>3. QED  BY <3>1, <3>2
    <2> HIDE DEF g
    <2>2. To(0, g)
        BY <2>1
    <2> HIDE DEF To
    <2>3. QED  BY <2>2
<1>4. ASSUME NEW k \in 1 .. n, k - 1 \in good PROVE k \in good
    <2>1. PICK g : To(k - 1, g)
        BY <1>4
    <2> DEFINE h == [at \in 1 .. k |-> IF at = k THEN By(g, k) ELSE g[at]]
    <2>2. \A at \in 1 .. k : h[at] = By(h, at)
        <3> SUFFICES ASSUME NEW at \in 1 .. k PROVE h[at] = By(h, at)
            OBVIOUS
        <3>1. \A l \in 1 .. at - 1 : l \in 1 .. k /\ l # k
            OBVIOUS
        <3>2. \A l \in 1 .. at - 1 : h[l] = g[l]
            BY <3>1
        <3> HIDE DEF h
        <3>3. By(g, at) = By(h, at)
            <4>1. AgreeBefore(g, h, at) /\ at \in 1 .. n
                BY <3>2 DEF AgreeBefore
            <4>2. QED  BY <1>1, <4>1
        <3>4. CASE at = k
            BY <3>3, <3>4 DEF h
        <3>5. CASE at # k
            <4>1. at \in 1 .. k - 1
                BY <3>5
            <4>2. g[at] = By(g, at)
                BY <2>1, <4>1
            <4>3. h[at] = g[at]
                BY <3>5 DEF h
            <4>4. QED  BY <3>3, <4>2, <4>3
        <3>6. QED  BY <3>4, <3>5
    <2>3. h = [at \in 1 .. k |-> h[at]]
        OBVIOUS
    <2> HIDE DEF h
    <2>4. To(k, h)
        BY <2>2, <2>3
    <2>5. QED  BY <2>4
<1>5. n \in good
    <2> HIDE DEF good
    <2>1. 0 .. n \subseteq good
        BY <1>3, <1>4, Steps
    <2>2. QED  BY <2>1
<1>6. PICK g : To(line, g)
    BY <1>5
<1>7. To(line, f)
    <2> HIDE DEF To
    <2>1. QED  BY <1>6
<1>8. \A at \in 1 .. line : Resting[at] = By(Resting, at)
    <2> HIDE DEF f
    <2>1. \A at \in 1 .. line : f[at] = By(f, at)
        BY <1>7
    <2>2. QED  BY <1>2, <2>1
<1>9. QED  BY <1>8 DEF By

-----------------------------------------------------------------------------
(* What happens to a run on its way to a line. *)

Unset(name, l) == \A i : ~AssignedAt(i, name, l) /\ ~DeletesAt(i, name, l)

\* A name that no line on the way sets is what it was.
LEMMA Persists ==
    ASSUME Structured, NEW took, NEW env, History(took, env), NEW name \in Variables,
           NEW from \in 1 .. line, NEW to \in 1 .. line, from <= to,
           \A l \in from .. to - 1 : scope[l] \subseteq took => Unset(name, l)
    PROVE  env[to][name] = env[from][name]
<1>1. line \in Nat /\ from \in Nat /\ to \in Nat
    BY DEF Structured, Typed
<1> PICK n \in Nat : n = to - from
    BY <1>1
<1> DEFINE good == {k \in 0 .. n : env[from + k][name] = env[from][name]}
<1>2. 0 \in good
    BY <1>1
<1>3. ASSUME NEW k \in 1 .. n, k - 1 \in good PROVE k \in good
    <2>1. PICK l : l = from + (k - 1)
        OBVIOUS
    <2>2. l \in from .. to - 1 /\ l \in 1 .. line - 1 /\ l + 1 = from + k
        BY <1>1, <2>1
    <2>3. env[l][name] = env[from][name]
        BY <1>3, <2>1
    <2>4. env[l + 1][name] = env[l][name]
        <3>1. CASE scope[l] \subseteq took
            <4>1. Happens(l, l \in took, env[l], env[l + 1])
                BY <2>2, <3>1 DEF History
            <4>2. Becomes(name, l, env[l], env[l + 1][name])
                BY <4>1 DEF Happens
            <4>3. Unset(name, l)
                BY <2>2, <3>1
            <4>4. QED  BY <4>2, <4>3 DEF Becomes, Unset
        <3>2. CASE ~(scope[l] \subseteq took)
            BY <2>2, <3>2 DEF History
        <3>3. QED  BY <3>1, <3>2
    <2>5. QED  BY <2>2, <2>3, <2>4
<1>4. n \in good
    <2> HIDE DEF good
    <2>1. 0 .. n \subseteq good
        BY <1>2, <1>3, Steps
    <2>2. QED  BY <2>1
<1>5. from + n = to
    BY <1>1
<1>6. QED  BY <1>4, <1>5

\* What is not reassigned by lines is not set on the way.
LEMMA NotReassigned ==
    ASSUME Structured, NEW name, NEW g \in 1 .. line - 1, g \notin SetLines, NEW at \in 1 .. line,
           ~Reassigned(name, g, at)
    PROVE  \A l \in g .. at - 1 : Unset(name, l)
<1>1. line \in Nat
    BY DEF Structured, Typed
<1>2. ~DirectlyReassigned(name, g, at)
    BY DEF Reassigned
<1>3. ASSUME NEW l \in g .. at - 1, NEW i PROVE ~AssignedAt(i, name, l) /\ ~DeletesAt(i, name, l)
    <2>1. CASE l = g
        BY <2>1 DEF AssignedAt, DeletesAt, SetLines
    <2>2. CASE l # g
        <3>1. g < l /\ l < at
            BY <1>1, <2>2
        <3>2. QED  BY <1>2, <3>1 DEF AssignedAt, DeletesAt, DirectlyReassigned, Range
    <2>3. QED  BY <2>1, <2>2
<1>4. QED  BY <1>3 DEF Unset

\* A guard's clause that holds a line, and not the other.
LEMMA InsideAny ==
    ASSUME Structured, NEW i \in DOMAIN if_guards, NEW at \in 1 .. line
    PROVE  Inside(i, at, ScopeAt(at))
<1>1. CASE at = line
    BY <1>1, InsideNow DEF ScopeAt
<1>2. CASE at # line
    <2>1. at \in 1 .. line - 1
        BY <1>2 DEF Structured, Typed
    <2>2. QED  BY <1>2, <2>1 DEF Structured, Scoped, ScopeAt
<1>3. QED  BY <1>1, <1>2

\* Which outcome a test had in a run that comes to its if.
LEMMA TestHad ==
    ASSUME Structured, NEW took, NEW env, History(took, env), NEW i \in DOMAIN if_guards,
           scope[if_guards[i].line] \subseteq took, NEW outcome \in BOOLEAN,
           outcome <=> if_guards[i].line \in took
    PROVE  May(env[if_guards[i].line], if_guards[i].test, outcome)
<1>1. if_guards[i].line \in 1 .. line - 1
    BY DEF Structured, Ordered
<1> PICK l : l = if_guards[i].line
    OBVIOUS
<1>2. Happens(l, l \in took, env[l], env[l + 1])
    BY <1>1 DEF History
<1>3. (l \in took) = outcome
    OBVIOUS
<1>4. QED  BY <1>2, <1>3 DEF Happens

\* At a line of a suite, the run had the test's outcome.
LEMMA BranchTaken ==
    ASSUME Structured, NEW took, NEW env, History(took, env), NEW i \in DOMAIN if_guards,
           NEW at \in 1 .. line, ScopeAt(at) \subseteq took, NEW outcome \in InBranch(if_guards[i], at)
    PROVE  outcome \in BOOLEAN /\ May(env[if_guards[i].line], if_guards[i].test, outcome)
<1> DEFINE guard == if_guards[i]
<1>1. guard \in Guard /\ LaidOut(guard, clauses[i], line)
    BY Parts DEF Structured, Laid
<1>2. Inside(i, at, ScopeAt(at))
    BY InsideAny
<1>3. Coherent(took)
    BY DEF History
<1>4. CASE InSuite(guard.true_start, guard.true_end, at)
    <2>1. outcome = TRUE
        BY <1>4 DEF InBranch
    <2>2. scope[guard.line] \subseteq took /\ guard.line \in took
        BY <1>2, <1>4 DEF Inside
    <2>3. QED  BY <2>1, <2>2, TestHad
<1>5. CASE ~InSuite(guard.true_start, guard.true_end, at)
    <2>1. InSuite(guard.false_start, guard.false_end, at) /\ outcome = FALSE
        BY <1>5 DEF InBranch
    <2>2. InElses(guard, at)
        BY <1>1, <2>1 DEF InElses, InSuite, LaidOut, Guard, Missing
    <2>3. scope[guard.line] \subseteq took /\ clauses[i].elses \cap took # {}
        BY <1>2, <2>2 DEF Inside
    <2>4. guard.line \notin took
        BY <1>3, <2>3 DEF Coherent
    <2>5. QED  BY <2>1, <2>3, <2>4, TestHad
<1>6. QED  BY <1>4, <1>5

\* A run goes on past no return.
LEMMA NoReturnPassed ==
    ASSUME Structured, NEW took, NEW env, History(took, env), NEW i \in DOMAIN if_guards,
           NEW clause \in took, scope[if_guards[i].line] \subseteq took
    PROVE  ~Returns(i, clause)
<1> SUFFICES ASSUME Returns(i, clause) PROVE FALSE
    OBVIOUS
<1>1. PICK j \in DOMAIN returns : scope[returns[j]] = scope[if_guards[i].line] \cup {clause}
    BY DEF Returns, DirectlyIn, Range
<1>2. returns[j] \in 1 .. line - 1 /\ scope[returns[j]] \subseteq took
    BY <1>1 DEF Structured, Ordered
<1> PICK l : l = returns[j]
    OBVIOUS
<1>3. Happens(l, l \in took, env[l], env[l + 1])
    BY <1>2 DEF History
<1>4. QED  BY <1>3 DEF Happens

\* Past an if with a suite that surely returns, the run had the other outcome.
LEMMA AfterReturnTaken ==
    ASSUME Structured, NEW took, NEW env, History(took, env), NEW i \in DOMAIN if_guards,
           NEW at \in 1 .. line, ScopeAt(at) \subseteq took, NEW outcome \in AfterReturn(if_guards[i], at),
           Precedes(if_guards[i].line, at), SurelyReturns(i, ~outcome)
    PROVE  outcome \in BOOLEAN /\ May(env[if_guards[i].line], if_guards[i].test, outcome)
<1>1. outcome \in BOOLEAN
    BY DEF AfterReturn
<1>2. scope[if_guards[i].line] \subseteq took /\ Coherent(took)
    BY DEF Precedes, History
<1>3. CASE outcome = TRUE
    <2>1. clauses[i].whole /\ \A clause \in clauses[i].elses : Returns(i, clause)
        BY <1>3 DEF SurelyReturns
    <2>2. clauses[i].elses \cap took = {}
        BY <1>2, <2>1, NoReturnPassed
    <2>3. Chain(i) \cap took # {}
        BY <1>2, <2>1 DEF Coherent
    <2>4. if_guards[i].line \in took
        BY <2>2, <2>3 DEF Chain
    <2>5. QED  BY <1>1, <1>2, <1>3, <2>4, TestHad
<1>4. CASE outcome = FALSE
    <2>1. Returns(i, if_guards[i].line)
        BY <1>4 DEF SurelyReturns
    <2>2. if_guards[i].line \notin took
        BY <1>2, <2>1, NoReturnPassed
    <2>3. QED  BY <1>1, <1>2, <1>4, <2>2, TestHad
<1>5. QED  BY <1>1, <1>3, <1>4
-----------------------------------------------------------------------------
(* Facts: what guards tell is so. *)

FactsOf(name, at) ==
    {Fact(name, at, if_guards[i], InBranch(if_guards[i], at)) : i \in DOMAIN if_guards}
    \cup {Fact(name, at, if_guards[i], AfterReturn(if_guards[i], at)) : i \in DOMAIN if_guards}
    \cup {Fact(name, at, asserts[i], AfterAssert(asserts[i], at)) : i \in DOMAIN asserts}

LEMMA SequenceOf ==
    ASSUME NEW S, NEW n \in Nat, NEW f, f = [i \in 1 .. n |-> f[i]], \A i \in 1 .. n : f[i] \in S
    PROVE  f \in Seq(S)
<1>1. f \in [1 .. n -> S]
    OBVIOUS
<1>2. QED  BY <1>1

LEMMA FactsAre ==
    ASSUME Structured, NEW name, NEW at
    PROVE  Len(Facts(name, at)) \in Nat /\ \A i \in 1 .. Len(Facts(name, at)) : Facts(name, at)[i] \in FactsOf(name, at)
<1> DEFINE S == FactsOf(name, at)
           one == [i \in DOMAIN if_guards |-> Fact(name, at, if_guards[i], InBranch(if_guards[i], at))]
           two == [i \in DOMAIN if_guards |-> Fact(name, at, if_guards[i], AfterReturn(if_guards[i], at))]
           three == [i \in DOMAIN asserts |-> Fact(name, at, asserts[i], AfterAssert(asserts[i], at))]
<1>1. PICK n \in Nat, m \in Nat : DOMAIN if_guards = 1 .. n /\ DOMAIN asserts = 1 .. m
    BY DEF Structured, Typed
<1>2. (\A i \in 1 .. n : one[i] \in S /\ two[i] \in S) /\ \A i \in 1 .. m : three[i] \in S
    BY <1>1 DEF FactsOf
<1>3. DOMAIN one = 1 .. n /\ DOMAIN two = 1 .. n /\ DOMAIN three = 1 .. m
    BY <1>1
<1>4. one = [i \in 1 .. n |-> one[i]] /\ two = [i \in 1 .. n |-> two[i]] /\ three = [i \in 1 .. m |-> three[i]]
    BY <1>1
<1>5. Facts(name, at) = one \o two \o three
    BY DEF Facts
<1> HIDE DEF S, one, two, three
<1>6. one \in Seq(S) /\ two \in Seq(S) /\ three \in Seq(S)
    <2>1. one \in Seq(S)
        BY <1>2, <1>4, SequenceOf
    <2>2. two \in Seq(S)
        BY <1>2, <1>4, SequenceOf
    <2>3. three \in Seq(S)
        BY <1>2, <1>4, SequenceOf
    <2>4. QED  BY <2>1, <2>2, <2>3
<1>7. Facts(name, at) \in Seq(S)
    BY <1>5, <1>6
<1>8. QED  BY <1>7 DEF S

FactTyped(fact) == fact.test \in Tests /\ fact.outcomes \subseteq BOOLEAN
Sound(fact, name, value) ==
    \A outcome \in fact.outcomes : \E run \in Runs : May(run, fact.test, outcome) /\ run[name] = value

LEMMA FactsTyped ==
    ASSUME Structured, NEW name, NEW at, NEW fact \in FactsOf(name, at)
    PROVE  FactTyped(fact)
<1>1. \A guard, outcomes : /\ Fact(name, at, guard, outcomes).test = guard.test
                           /\ Fact(name, at, guard, outcomes).outcomes \subseteq outcomes
    BY DEF Fact
<1>2. \A i \in DOMAIN if_guards : if_guards[i].test \in Tests
    BY Parts DEF Structured, Guard
<1>3. \A i \in DOMAIN asserts : asserts[i].test \in Tests
    BY Parts DEF Structured, Assertion
<1>4. \A guard : InBranch(guard, at) \subseteq BOOLEAN /\ AfterReturn(guard, at) \subseteq BOOLEAN
                 /\ AfterAssert(guard, at) \subseteq BOOLEAN
    BY DEF InBranch, AfterReturn, AfterAssert
<1>5. CASE \E i \in DOMAIN if_guards : fact = Fact(name, at, if_guards[i], InBranch(if_guards[i], at))
    BY <1>1, <1>2, <1>4, <1>5 DEF FactTyped
<1>6. CASE \E i \in DOMAIN if_guards : fact = Fact(name, at, if_guards[i], AfterReturn(if_guards[i], at))
    BY <1>1, <1>2, <1>4, <1>6 DEF FactTyped
<1>7. CASE \E i \in DOMAIN asserts : fact = Fact(name, at, asserts[i], AfterAssert(asserts[i], at))
    BY <1>1, <1>3, <1>4, <1>7 DEF FactTyped
<1>8. QED  BY <1>5, <1>6, <1>7 DEF FactsOf

\* What a fact tells of a name at a line is true of the run that is there.
LEMMA FactsAreSound ==
    ASSUME Structured, NEW took, NEW env, History(took, env), NEW name \in Variables,
           NEW at \in 1 .. line, ScopeAt(at) \subseteq took, name \in Resting[at], NEW fact \in FactsOf(name, at)
    PROVE  Sound(fact, name, env[at][name])
<1>1. name \in RestsBy(Resting, at)
    BY RestingUnfold
<1>2. /\ \A guard \in Range(asserts) :
            guard.line < at /\ ~Reassigned(name, guard.line, at) => Precedes(guard.line, at)
      /\ \A i \in DOMAIN if_guards :
            AfterReturn(if_guards[i], at) # {} /\ ~Reassigned(name, if_guards[i].line, at) =>
                /\ Precedes(if_guards[i].line, at)
                /\ \A outcome \in AfterReturn(if_guards[i], at) : SurelyReturns(i, ~outcome)
    BY <1>1 DEF RestsBy
<1>3. env \in [1 .. line -> Live] /\ line \in Nat
    BY DEF History, Structured, Typed
<1>4. ASSUME NEW guard, guard.line \in 1 .. line - 1, guard.line \notin SetLines, NEW outcomes,
             fact = Fact(name, at, guard, outcomes),
             guard.line < at /\ ~Reassigned(name, guard.line, at) =>
                 \A outcome \in outcomes : May(env[guard.line], guard.test, outcome)
      PROVE  Sound(fact, name, env[at][name])
    <2> PICK g : g = guard.line
        OBVIOUS
    <2>1. fact.test = guard.test
        BY <1>4 DEF Fact
    <2>2. fact.outcomes = IF g < at /\ ~Reassigned(name, g, at) THEN outcomes ELSE {}
        BY <1>4 DEF Fact
    <2>3. CASE ~(g < at /\ ~Reassigned(name, g, at))
        BY <2>2, <2>3 DEF Sound
    <2>4. CASE g < at /\ ~Reassigned(name, g, at)
        <3>1. g \in 1 .. line - 1 /\ g \in 1 .. line /\ g <= at
            BY <1>3, <1>4, <2>4
        <3>2. \A l \in g .. at - 1 : Unset(name, l)
            BY <1>4, <2>4, <3>1, NotReassigned
        <3>3. env[at][name] = env[g][name]
            BY <3>1, <3>2, Persists
        <3>4. env[g] \in Runs
            BY <1>3, <3>1 DEF Live
        <3>5. \A outcome \in outcomes : May(env[g], fact.test, outcome)
            BY <1>4, <2>1, <2>4
        <3>6. QED  BY <2>2, <2>4, <3>3, <3>4, <3>5 DEF Sound
    <2>5. QED  BY <2>3, <2>4
<1>5. \A i \in DOMAIN if_guards : if_guards[i].line \in 1 .. line - 1 /\ if_guards[i].line \notin SetLines
    BY DEF Structured, Ordered
<1>6. \A i \in DOMAIN asserts : asserts[i].line \in 1 .. line - 1 /\ asserts[i].line \notin SetLines
    BY DEF Structured, Ordered
<1>7. CASE \E i \in DOMAIN if_guards : fact = Fact(name, at, if_guards[i], InBranch(if_guards[i], at))
    <2>1. PICK i \in DOMAIN if_guards : fact = Fact(name, at, if_guards[i], InBranch(if_guards[i], at))
        BY <1>7
    <2>2. \A outcome \in InBranch(if_guards[i], at) : May(env[if_guards[i].line], if_guards[i].test, outcome)
        BY BranchTaken
    <2>3. QED  BY <1>4, <1>5, <2>1, <2>2
<1>8. CASE \E i \in DOMAIN if_guards : fact = Fact(name, at, if_guards[i], AfterReturn(if_guards[i], at))
    <2>1. PICK i \in DOMAIN if_guards : fact = Fact(name, at, if_guards[i], AfterReturn(if_guards[i], at))
        BY <1>8
    <2>2. ASSUME ~Reassigned(name, if_guards[i].line, at), NEW outcome \in AfterReturn(if_guards[i], at)
          PROVE  May(env[if_guards[i].line], if_guards[i].test, outcome)
        <3>1. Precedes(if_guards[i].line, at) /\ SurelyReturns(i, ~outcome)
            BY <1>2, <2>2
        <3>2. QED  BY <2>2, <3>1, AfterReturnTaken
    <2>3. QED  BY <1>4, <1>5, <2>1, <2>2
<1>9. CASE \E i \in DOMAIN asserts : fact = Fact(name, at, asserts[i], AfterAssert(asserts[i], at))
    <2>1. PICK i \in DOMAIN asserts : fact = Fact(name, at, asserts[i], AfterAssert(asserts[i], at))
        BY <1>9
    <2>2. ASSUME asserts[i].line < at, ~Reassigned(name, asserts[i].line, at), NEW outcome \in AfterAssert(asserts[i], at)
          PROVE  May(env[asserts[i].line], asserts[i].test, outcome)
        <3> PICK l : l = asserts[i].line
            OBVIOUS
        <3>1. outcome = TRUE /\ Precedes(l, at)
            BY <1>2, <2>2 DEF AfterAssert, Range
        <3>2. scope[l] \subseteq took /\ l \in 1 .. line - 1
            BY <1>6, <3>1 DEF Precedes
        <3>3. Happens(l, l \in took, env[l], env[l + 1])
            BY <3>2 DEF History
        <3>4. QED  BY <3>1, <3>3 DEF Happens
    <2>3. QED  BY <1>4, <1>6, <2>1, <2>2
<1>10. QED  BY <1>7, <1>8, <1>9 DEF FactsOf

LEMMA ToldHolds ==
    ASSUME declared \in DeclaredTypes, NEW name \in Variables, NEW type \in Types(declared, name), NEW fact, FactTyped(fact)
    PROVE  /\ Told(type, name, fact) \in Types(declared, name)
           /\ \A value \in ValuesOf(type) : Sound(fact, name, value) => value \in ValuesOf(Told(type, name, fact))
<1>1. CASE fact.outcomes = {}
    BY <1>1 DEF Told
<1>2. CASE fact.outcomes # {}
    <2> DEFINE outcome == CHOOSE outcome \in fact.outcomes : TRUE
    <2>1. outcome \in fact.outcomes /\ outcome \in BOOLEAN /\ fact.test \in Tests
        BY <1>2 DEF FactTyped
    <2> HIDE DEF outcome
    <2>2. LET possible == {run[name] : run \in {run \in Runs : May(run, fact.test, outcome)}}
              narrowed == Narrow(type, name, fact.test, outcome)
          IN  narrowed \in Types(declared, name) /\ ValuesOf(type) \cap possible \subseteq ValuesOf(narrowed)
        BY <2>1, GuardsTell
    <2>3. Told(type, name, fact) = Narrow(type, name, fact.test, outcome)
        BY <1>2 DEF Told, outcome
    <2>4. QED  BY <2>1, <2>2, <2>3 DEF Sound
<1>3. QED  BY <1>1, <1>2

\* A type that holds a value holds it still when the facts have narrowed it.
LEMMA NarrowedHolds ==
    ASSUME declared \in DeclaredTypes, NEW name \in Variables, NEW base \in Types(declared, name), NEW facts,
           Len(facts) \in Nat, \A i \in 1 .. Len(facts) : FactTyped(facts[i])
    PROVE  /\ Narrowed(base, name, facts) \in Types(declared, name)
           /\ \A value \in ValuesOf(base) :
                 (\A i \in 1 .. Len(facts) : Sound(facts[i], name, value)) => value \in ValuesOf(Narrowed(base, name, facts))
<1>0. PICK told : NarrowedBy(told, base, name, facts)
    BY NarrowedSteps
<1>1. /\ told[0] = base
      /\ \A i \in 1 .. Len(facts) : told[i] = Told(told[i - 1], name, facts[i])
      /\ Narrowed(base, name, facts) = told[Len(facts)]
    BY <1>0 DEF NarrowedBy
<1> PICK n \in Nat : n = Len(facts)
    OBVIOUS
<1> DEFINE Holds(i) ==
               /\ told[i] \in Types(declared, name)
               /\ \A value \in ValuesOf(base) :
                     (\A j \in 1 .. n : Sound(facts[j], name, value)) => value \in ValuesOf(told[i])
           good == {i \in 0 .. n : Holds(i)}
<1>2. 0 \in good
    BY <1>1
<1>3. ASSUME NEW i \in 1 .. n, i - 1 \in good PROVE i \in good
    <2>1. Holds(i - 1)
        BY <1>3
    <2>2. told[i] = Told(told[i - 1], name, facts[i]) /\ FactTyped(facts[i])
        BY <1>1
    <2>3. Holds(i)
        BY <2>1, <2>2, ToldHolds
    <2>4. QED  BY <2>3
<1>4. n \in good
    <2> HIDE DEF good
    <2>1. 0 .. n \subseteq good
        BY <1>2, <1>3, Steps
    <2>2. QED  BY <2>1
<1>5. QED  BY <1>1, <1>4

-----------------------------------------------------------------------------
(* The type of a name at a line holds what it is there. *)

HoldsFor(name, at, took, env) ==
    TypesAt[at][name] # Unresolved =>
        /\ TypesAt[at][name] \in Types(declared, name)
        /\ ScopeAt(at) \subseteq took /\ name \in Resting[at] /\ env[at][name] # Unbound =>
              env[at][name] \in ValuesOf(TypesAt[at][name])
HoldsAt(at, took, env) == \A name \in Variables : HoldsFor(name, at, took, env)

\* An assignment that is the last of its name before a line, in a run that makes it.
AssignmentsOf(name) == {site \in Range(assignments) : site.name = name}

LEMMA SiteTyped ==
    ASSUME Structured, NEW name \in Locals, NEW site \in AssignmentsOf(name), NEW took, NEW env,
           HoldsAt(site.line, took, env), AssignedType(TypesAt, {site}) # Unresolved
    PROVE  AssignedType(TypesAt, {site}) \in Types(declared, name)
<1>1. PICK i \in DOMAIN assignments : assignments[i] = site /\ site.name = name
    BY DEF AssignmentsOf, Range
<1>2. site.value \notin Variables => site.value \in Types(declared, name)
    BY <1>1 DEF Structured, Fitting
<1>3. site.value \in Variables => Types(declared, site.value) \subseteq Types(declared, name)
    BY <1>1 DEF Structured, Fitting
<1>4. AssignedType(TypesAt, {site}) = IF site.value \in Variables THEN TypesAt[site.line][site.value] ELSE site.value
    BY DEF AssignedType
<1>5. QED  BY <1>2, <1>3, <1>4 DEF HoldsAt, HoldsFor

\* The type of an assignment holds what the name got, as long as no line set it again.
LEMMA SiteHolds ==
    ASSUME Structured, NEW name \in Locals, NEW site \in AssignmentsOf(name), NEW took, NEW env, History(took, env),
           HoldsAt(site.line, took, env), AssignedType(TypesAt, {site}) # Unresolved,
           scope[site.line] \subseteq took, site.value \in Variables => site.value \in Resting[site.line],
           env[site.line + 1][name] # Unbound
    PROVE  env[site.line + 1][name] \in ValuesOf(AssignedType(TypesAt, {site}))
<1>1. PICK i \in DOMAIN assignments : assignments[i] = site /\ site.name = name
    BY DEF AssignmentsOf, Range
<1>2. name \in Variables
    BY DEF Variables
<1> PICK l : l = site.line
    OBVIOUS
<1>3. l \in 1 .. line - 1
    BY <1>1 DEF Structured, Ordered
<1>4. Happens(l, l \in took, env[l], env[l + 1])
    BY <1>3 DEF History
<1>5. Becomes(name, l, env[l], env[l + 1][name])
    BY <1>2, <1>4 DEF Happens
<1>6. AssignedAt(i, name, l)
    BY <1>1 DEF AssignedAt
<1>7. PICK j : AssignedAt(j, name, l) /\ Gives(assignments[j], env[l], env[l + 1][name])
    BY <1>5, <1>6 DEF Becomes
<1>8. i = j
    <2>1. j \in DOMAIN assignments /\ assignments[j].line = assignments[i].line /\ assignments[i].line \in Nat
        BY <1>1, <1>3, <1>7 DEF AssignedAt
    <2>2. i \in Nat /\ j \in Nat
        BY <2>1 DEF Structured, Typed
    <2>3. ~(i < j) /\ ~(j < i)
        BY <2>1 DEF Structured, Ordered
    <2>4. QED  BY <2>2, <2>3
<1>9. Gives(site, env[l], env[l + 1][name])
    BY <1>1, <1>7, <1>8
<1>10. AssignedType(TypesAt, {site}) = IF site.value \in Variables THEN TypesAt[l][site.value] ELSE site.value
    BY DEF AssignedType
<1>11. CASE site.value \notin Variables
    BY <1>9, <1>10, <1>11 DEF Gives
<1>12. CASE site.value \in Variables
    <2>1. env[l][site.value] # Unbound /\ env[l + 1][name] = env[l][site.value]
        BY <1>9, <1>12 DEF Gives
    <2>2. ScopeAt(l) \subseteq took
        <3>1. l # line
            BY <1>3 DEF Structured, Typed
        <3>2. QED  BY <3>1 DEF ScopeAt
    <2>3. HoldsFor(site.value, l, took, env)
        BY <1>12 DEF HoldsAt
    <2>4. QED  BY <1>10, <1>12, <2>1, <2>2, <2>3 DEF HoldsFor
<1>13. QED  BY <1>11, <1>12

\* The last assignment of a range is one.
LEMMA LastIsOne ==
    ASSUME Structured, NEW name, NEW from, NEW to, AssignedType(TypesAt, LastAssignment(name, from, to)) # Unresolved
    PROVE  \E site \in AssignmentsOf(name) : LastAssignment(name, from, to) = {site}
<1>1. LastAssignment(name, from, to) # {}
    BY DEF AssignedType
<1>2. PICK site \in LastAssignment(name, from, to) : TRUE
    BY <1>1
<1>3. site \in AssignmentsOf(name)
    BY <1>2 DEF LastAssignment, AssignmentsOf
<1>4. ASSUME NEW other \in LastAssignment(name, from, to) PROVE other = site
    <2>1. other \in Range(assignments) /\ site \in Range(assignments) /\ other.line <= site.line /\ site.line <= other.line
        BY <1>2 DEF LastAssignment
    <2>2. PICK i \in DOMAIN assignments : assignments[i] = site
        BY <2>1 DEF Range
    <2>3. PICK j \in DOMAIN assignments : assignments[j] = other
        BY <2>1 DEF Range
    <2>4. site.line \in Nat /\ other.line \in Nat
        BY <2>2, <2>3, Parts DEF Structured, Assignment
    <2>5. site.line = other.line
        BY <2>1, <2>4
    <2>6. i \in Nat /\ j \in Nat
        BY DEF Structured, Typed
    <2>7. ~(i < j) /\ ~(j < i)
        BY <2>2, <2>3, <2>4, <2>5 DEF Structured, Ordered
    <2>8. i = j
        BY <2>6, <2>7
    <2>9. QED  BY <2>2, <2>3, <2>8
<1>5. QED  BY <1>2, <1>3, <1>4

LEMMA DeletedAtIs ==
    ASSUME Structured, NEW name, NEW at \in 1 .. line
    PROVE  DeletedAt(name, at) \in Nat /\ \A l \in DeletedAt(name, at) + 1 .. at - 1 : \A i : ~DeletesAt(i, name, l)
<1> DEFINE set == DeletionsBefore(name, at)
<1>1. line \in Nat
    BY DEF Structured, Typed
<1>2. \A i, l : DeletesAt(i, name, l) /\ l < at => l \in set
    BY DEF DeletesAt, DeletionsBefore, Range
<1>3. set \in SUBSET (1 .. line)
    BY <1>1 DEF DeletionsBefore, Range, Structured, Ordered
<1>4. CASE set = {}
    <2>1. DeletedAt(name, at) = 0
        BY <1>4 DEF DeletedAt
    <2>2. \A l \in 1 .. at - 1 : l < at
        BY <1>1
    <2>3. QED  BY <1>2, <1>4, <2>1, <2>2
<1>5. CASE set # {}
    <2>1. Max(set) \in set /\ \A other \in set : other <= Max(set)
        BY <1>1, <1>3, <1>5, MaxOfTo
    <2>2. DeletedAt(name, at) = Max(set)
        BY <1>5 DEF DeletedAt
    <2>3. PICK d \in 1 .. line : d = Max(set)
        BY <1>3, <2>1
    <2>4. \A l \in d + 1 .. at - 1 : l < at /\ ~(l <= d)
        BY <1>1, <2>3
    <2>5. QED  BY <1>2, <2>1, <2>2, <2>3, <2>4
<1>6. QED  BY <1>4, <1>5

\* A local that is not joined is what the last assignment made it.
LEMMA LocalSinceDeleted ==
    ASSUME Structured, NEW name \in Locals, NEW took, NEW env, History(took, env), NEW at \in 1 .. line,
           \A l \in 1 .. at - 1 : HoldsAt(l, took, env),
           ~IsJoined(TypesAt, name, at), LocalType(TypesAt, name, at) # Unresolved
    PROVE  /\ LocalType(TypesAt, name, at) \in Types(declared, name)
           /\ ScopeAt(at) \subseteq took /\ name \in Resting[at] /\ env[at][name] # Unbound =>
                 env[at][name] \in ValuesOf(LocalType(TypesAt, name, at))
<1>1. LocalType(TypesAt, name, at) = AssignedType(TypesAt, SinceDeleted(name, at))
    BY DEF LocalType
<1>2. PICK site \in AssignmentsOf(name) : SinceDeleted(name, at) = {site}
    BY <1>1, LastIsOne DEF SinceDeleted
<1> PICK l : l = site.line
    OBVIOUS
<1>3. l \in 1 .. at - 1 /\ line \in Nat
    BY <1>2, SinceDeletedBefore DEF Structured, Typed
<1>4. HoldsAt(l, took, env)
    BY <1>3
<1>5. LocalType(TypesAt, name, at) \in Types(declared, name)
    BY <1>1, <1>2, <1>4, SiteTyped
<1>6. ASSUME ScopeAt(at) \subseteq took, name \in Resting[at], env[at][name] # Unbound
      PROVE  env[at][name] \in ValuesOf(LocalType(TypesAt, name, at))
    <2>1. name \in RestsBy(Resting, at)
        BY <1>6, RestingUnfold
    <2>2. AssignedBefore(name, at)
        BY <2>1 DEF RestsBy
    <2>3. site \in TypeSites(name, at)
        BY <1>2 DEF TypeSites
    <2>4. site.value \in Variables => site.value \in Resting[l]
        BY <2>1, <2>3 DEF RestsBy
    <2>5. scope[l] \subseteq took
        BY <1>2, <1>6, <2>2 DEF AssignedBefore, Precedes
    <2>6. ASSUME NEW k \in l + 1 .. at - 1 PROVE Unset(name, k)
        <3>1. /\ DeletedAt(name, at) \in Nat
              /\ \A m \in DeletedAt(name, at) + 1 .. at - 1 : \A i : ~DeletesAt(i, name, m)
            BY DeletedAtIs
        <3>2. /\ DeletedAt(name, at) + 1 <= l
              /\ \A i \in DOMAIN assignments :
                    assignments[i].name = name /\ DeletedAt(name, at) + 1 <= assignments[i].line
                        /\ assignments[i].line <= at - 1 =>
                        assignments[i].line <= l
            BY <1>2, LastAssignmentIs DEF SinceDeleted
        <3>3. k \in DeletedAt(name, at) + 1 .. at - 1 /\ ~(k <= l)
            BY <1>3, <2>6, <3>1, <3>2
        <3>4. \A i : ~DeletesAt(i, name, k)
            BY <3>1, <3>3
        <3>5. \A i : ~AssignedAt(i, name, k)
            BY <3>2, <3>3 DEF AssignedAt
        <3>6. QED  BY <3>4, <3>5 DEF Unset
    <2>7. l + 1 \in 1 .. line /\ l + 1 <= at /\ name \in Variables
        BY <1>3 DEF Variables
    <2>8. env[at][name] = env[l + 1][name]
        BY <2>6, <2>7, Persists
    <2>9. QED  BY <1>1, <1>2, <1>4, <1>6, <2>4, <2>5, <2>8, SiteHolds
<1>7. QED  BY <1>5, <1>6

\* A site of an if in whose clause the run went, and which no line set since.
LEMMA OfClauseHolds ==
    ASSUME Structured, NEW name \in Locals, NEW took, NEW env, History(took, env), NEW at \in 1 .. line,
           NEW site \in AssignmentsOf(name), site.line \in 1 .. at - 1, HoldsAt(site.line, took, env),
           AssignedType(TypesAt, {site}) # Unresolved, scope[site.line] \subseteq took,
           site.value \in Variables => site.value \in Resting[site.line],
           \A l \in site.line + 1 .. at - 1 : scope[l] \subseteq took => Unset(name, l),
           env[at][name] # Unbound
    PROVE  env[at][name] \in ValuesOf(AssignedType(TypesAt, {site}))
<1> PICK l : l = site.line
    OBVIOUS
<1>1. line \in Nat \ {0} /\ name \in Variables
    BY DEF Variables, Structured, Typed
<1>2. l + 1 \in 1 .. line /\ l + 1 <= at
    BY <1>1
<1>3. env[at][name] = env[l + 1][name]
    BY <1>1, <1>2, Persists
<1>4. QED  BY <1>1, <1>3, SiteHolds

\* A local that is joined is what one of the two suites assigned it.
LEMMA LocalJoined ==
    ASSUME Structured, NEW name \in Locals, NEW took, NEW env, History(took, env), NEW at \in 1 .. line,
           \A l \in 1 .. at - 1 : HoldsAt(l, took, env), IsJoined(TypesAt, name, at)
    PROVE  /\ LocalType(TypesAt, name, at) \in Types(declared, name)
           /\ ScopeAt(at) \subseteq took /\ name \in Resting[at] /\ env[at][name] # Unbound =>
                 env[at][name] \in ValuesOf(LocalType(TypesAt, name, at))
<1> DEFINE i == CHOOSE i \in JoiningGuards(name, at) : TRUE
           guard == if_guards[i]
           of_true == AssignedType(TypesAt, OfTrue(name, guard))
           of_false == AssignedType(TypesAt, OfFalse(name, guard))
<1>1. /\ LocalType(TypesAt, name, at) = Join(<<of_true, of_false>>)
      /\ JoiningGuards(name, at) # {} /\ of_true # Unresolved /\ of_false # Unresolved
    BY DEF LocalType, IsJoined, JoinedType
<1>2. i \in JoiningGuards(name, at)
    BY <1>1
<1> HIDE DEF i
<1>3. /\ i \in DOMAIN if_guards /\ guard.false_start # Missing /\ IsPast(guard, at)
      /\ ~Reassigned(name, guard.false_end, at)
      /\ \A site \in OfTrue(name, guard) \cup OfFalse(name, guard) : site.line \in 1 .. at - 1
    BY <1>2, SitesOfIf
<1>4. /\ guard.true_start = guard.line + 1 /\ guard.true_end \in Nat
      /\ guard.line \in 1 .. line - 1 /\ guard.true_end < guard.false_end
      /\ guard.false_start = guard.true_end + 2 /\ guard.true_end # Open
      /\ guard.false_end \in Nat /\ guard.false_end # Open /\ guard.false_end < at
      /\ guard.line <= guard.true_end
    BY <1>3, PastGuard
<1>5. PICK yes \in AssignmentsOf(name) : OfTrue(name, guard) = {yes}
    BY <1>1, LastIsOne DEF OfTrue
<1>6. PICK no \in AssignmentsOf(name) : OfFalse(name, guard) = {no}
    BY <1>1, LastIsOne DEF OfFalse
<1>7. yes.line \in 1 .. at - 1 /\ no.line \in 1 .. at - 1
    BY <1>3, <1>5, <1>6
<1>8. HoldsAt(yes.line, took, env) /\ HoldsAt(no.line, took, env)
    BY <1>7
<1>9. of_true \in Types(declared, name) /\ of_false \in Types(declared, name)
    BY <1>1, <1>5, <1>6, <1>8, SiteTyped
<1>10. declared \in DeclaredTypes /\ line \in Nat
    BY DEF Structured, Typed
<1>11. /\ Join(<<of_true, of_false>>) \in Types(declared, name)
       /\ ValuesOf(of_true) \subseteq ValuesOf(Join(<<of_true, of_false>>))
       /\ ValuesOf(of_false) \subseteq ValuesOf(Join(<<of_true, of_false>>))
    <2> HIDE DEF of_true, of_false
    <2>1. LET joined == Join(<<of_true, of_false>>)
          IN  joined \in Types(declared, name) /\ ValuesOf(of_true) \cup ValuesOf(of_false) \subseteq ValuesOf(joined)
        BY <1>9, <1>10, JoinsHold
    <2>2. QED  BY <2>1
<1>12. ASSUME ScopeAt(at) \subseteq took, name \in Resting[at], env[at][name] # Unbound
       PROVE  env[at][name] \in ValuesOf(of_true) \/ env[at][name] \in ValuesOf(of_false)
    <2>1. name \in RestsBy(Resting, at)
        BY <1>12, RestingUnfold
    <2>2. EitherAssigned(name, at) /\ \A site \in TypeSites(name, at) :
              site.value \in Variables => site.value \in Resting[site.line]
        BY <2>1 DEF RestsBy
    <2>3. /\ Precedes(guard.line, at) /\ clauses[i].whole
          /\ DirectlyIn(i, guard.line, yes.line)
          /\ \A clause \in clauses[i].elses : DirectlyIn(i, clause, no.line)
        BY <1>2, <1>5, <1>6, <2>2 DEF EitherAssigned
    <2>4. yes \in TypeSites(name, at) /\ no \in TypeSites(name, at)
        BY <1>2, <1>5, <1>6 DEF TypeSites
    <2>5. scope[guard.line] \subseteq took /\ Coherent(took)
        BY <1>12, <2>3 DEF Precedes, History
    <2>6. Chain(i) \cap took # {}
        BY <1>3, <2>3, <2>5 DEF Coherent
    <2>7. \A l \in 1 .. at - 1 : \A j : ~DeletesAt(j, name, l)
        <3>1. DeletedAt(name, at) = 0
            BY DEF IsJoined
        <3>2. QED  BY <3>1, DeletedAtIs
    <2>8. ASSUME NEW l \in guard.false_end + 1 .. at - 1 PROVE Unset(name, l)
        <3>1. guard.false_end < l /\ l < at /\ l \in 1 .. at - 1
            BY <1>4, <1>10
        <3>2. ~DirectlyReassigned(name, guard.false_end, at)
            BY <1>3 DEF Reassigned
        <3>3. \A j : ~AssignedAt(j, name, l)
            BY <3>1, <3>2 DEF DirectlyReassigned, AssignedAt, Range
        <3>4. QED  BY <2>7, <3>1, <3>3 DEF Unset
    <2>9. CASE guard.line \in took
        <3>1. scope[yes.line] \subseteq took
            BY <2>3, <2>5, <2>9 DEF DirectlyIn
        <3>2. clauses[i].elses \cap took = {}
            BY <1>3, <2>5, <2>9 DEF Coherent
        <3>3. /\ guard.true_start <= yes.line /\ yes.line <= guard.true_end
              /\ \A j \in DOMAIN assignments :
                    assignments[j].name = name /\ guard.true_start <= assignments[j].line
                        /\ assignments[j].line <= guard.true_end => assignments[j].line <= yes.line
            BY <1>5, LastAssignmentIs DEF OfTrue
        <3>4. ASSUME NEW l \in yes.line + 1 .. at - 1, scope[l] \subseteq took PROVE Unset(name, l)
            <4>1. l \in 1 .. at - 1 /\ l \in 1 .. line - 1 /\ ~(l <= yes.line) /\ guard.true_start <= l
                BY <1>4, <1>7, <1>10, <3>3
            <4>2. CASE l <= guard.true_end
                BY <2>7, <3>3, <4>1, <4>2 DEF AssignedAt, Unset
            <4>3. CASE guard.true_end < l /\ l <= guard.false_end
                <5>1. Inside(i, l, scope[l])
                    BY <1>3, <4>1 DEF Structured, Scoped
                <5>2. InElses(guard, l)
                    BY <1>3, <4>3 DEF InElses
                <5>3. QED  BY <3>2, <3>4, <5>1, <5>2 DEF Inside
            <4>4. CASE guard.false_end < l
                <5>1. l \in guard.false_end + 1 .. at - 1
                    BY <1>4, <1>10, <4>1, <4>4
                <5>2. QED  BY <2>8, <5>1
            <4>5. QED  BY <1>4, <4>1, <4>2, <4>3, <4>4
        <3>5. env[at][name] \in ValuesOf(AssignedType(TypesAt, {yes}))
            BY <1>1, <1>5, <1>7, <1>8, <1>12, <2>2, <2>4, <3>1, <3>4, OfClauseHolds
        <3>6. QED  BY <1>5, <3>5
    <2>10. CASE guard.line \notin took
        <3>1. PICK clause \in clauses[i].elses : clause \in took
            BY <2>6, <2>10 DEF Chain
        <3>2. scope[no.line] \subseteq took
            BY <2>3, <2>5, <3>1 DEF DirectlyIn
        <3>3. /\ guard.false_start <= no.line /\ no.line <= guard.false_end
              /\ \A j \in DOMAIN assignments :
                    assignments[j].name = name /\ guard.false_start <= assignments[j].line
                        /\ assignments[j].line <= guard.false_end => assignments[j].line <= no.line
            BY <1>6, LastAssignmentIs DEF OfFalse
        <3>4. ASSUME NEW l \in no.line + 1 .. at - 1, scope[l] \subseteq took PROVE Unset(name, l)
            <4>1. l \in 1 .. at - 1 /\ ~(l <= no.line) /\ guard.false_start <= l
                BY <1>4, <1>7, <1>10, <3>3
            <4>2. CASE l <= guard.false_end
                BY <2>7, <3>3, <4>1, <4>2 DEF AssignedAt, Unset
            <4>3. CASE guard.false_end < l
                <5>1. l \in guard.false_end + 1 .. at - 1
                    BY <1>4, <1>10, <4>1, <4>3
                <5>2. QED  BY <2>8, <5>1
            <4>4. QED  BY <1>4, <4>1, <4>2, <4>3
        <3>5. env[at][name] \in ValuesOf(AssignedType(TypesAt, {no}))
            BY <1>1, <1>6, <1>7, <1>8, <1>12, <2>2, <2>4, <3>2, <3>4, OfClauseHolds
        <3>6. QED  BY <1>6, <3>5
    <2>11. QED  BY <2>9, <2>10
<1>13. QED  BY <1>1, <1>11, <1>12

\* From the lines before to the line.
LEMMA TypesHoldNext ==
    ASSUME Structured, NEW took, NEW env, History(took, env), NEW at \in 1 .. line,
           \A l \in 1 .. at - 1 : HoldsAt(l, took, env)
    PROVE  HoldsAt(at, took, env)
<1> SUFFICES ASSUME NEW name \in Variables, TypesAt[at][name] # Unresolved
             PROVE  /\ TypesAt[at][name] \in Types(declared, name)
                    /\ ScopeAt(at) \subseteq took /\ name \in Resting[at] /\ env[at][name] # Unbound =>
                          env[at][name] \in ValuesOf(TypesAt[at][name])
    BY DEF HoldsAt, HoldsFor
<1> DEFINE base == IF name = Parameter THEN declared ELSE LocalType(TypesAt, name, at)
<1>1. TypesAt[at][name] = NarrowedOrElse(base, name, at)
    <2>1. TypesAt[at] = TypesBy(TypesAt, at)
        BY TypesUnfold
    <2>2. QED  BY <2>1 DEF TypesBy
<1>2. base # Unresolved /\ TypesAt[at][name] = Narrowed(base, name, Facts(name, at))
    BY <1>1 DEF NarrowedOrElse
<1>3. declared \in DeclaredTypes
    BY DEF Structured, Typed
<1>4. /\ base \in Types(declared, name)
      /\ ScopeAt(at) \subseteq took /\ name \in Resting[at] /\ env[at][name] # Unbound =>
            env[at][name] \in ValuesOf(base)
    <2>1. CASE name = Parameter
        <3>1. declared \in Types(declared, Parameter)
            BY DeclaredIsType DEF Structured
        <3>2. env[at] \in Live
            BY DEF History
        <3>3. QED  BY <2>1, <3>1, <3>2 DEF Live
    <2>2. CASE name # Parameter
        <3>1. name \in Locals /\ base = LocalType(TypesAt, name, at)
            BY <2>2 DEF Variables
        <3> HIDE DEF base
        <3>2. CASE IsJoined(TypesAt, name, at)
            BY <3>1, <3>2, LocalJoined
        <3>3. CASE ~IsJoined(TypesAt, name, at)
            BY <1>2, <3>1, <3>3, LocalSinceDeleted
        <3>4. QED  BY <3>2, <3>3
    <2>3. QED  BY <2>1, <2>2
<1> HIDE DEF base
<1> PICK facts : facts = Facts(name, at)
    OBVIOUS
<1>5. Len(facts) \in Nat /\ \A i \in 1 .. Len(facts) : facts[i] \in FactsOf(name, at)
    BY FactsAre
<1>6. \A i \in 1 .. Len(facts) : FactTyped(facts[i])
    BY <1>5, FactsTyped
<1>7. /\ Narrowed(base, name, facts) \in Types(declared, name)
      /\ \A value \in ValuesOf(base) :
            (\A i \in 1 .. Len(facts) : Sound(facts[i], name, value)) => value \in ValuesOf(Narrowed(base, name, facts))
    BY <1>3, <1>4, <1>5, <1>6, NarrowedHolds
<1>8. ASSUME ScopeAt(at) \subseteq took, name \in Resting[at]
      PROVE  \A i \in 1 .. Len(facts) : Sound(facts[i], name, env[at][name])
    BY <1>5, <1>8, FactsAreSound
<1>9. QED  BY <1>2, <1>4, <1>7, <1>8

\* The type of a name holds its value at every line a history passes.
LEMMA TypesHold ==
    ASSUME Structured, NEW took, NEW env, History(took, env)
    PROVE  HoldsAt(line, took, env)
<1> PICK n \in Nat : n = line /\ n # 0
    BY DEF Structured, Typed
<1> DEFINE good == {k \in 0 .. n : \A l \in 1 .. k : HoldsAt(l, took, env)}
<1>1. 0 \in good
    OBVIOUS
<1>2. ASSUME NEW k \in 1 .. n, k - 1 \in good PROVE k \in good
    <2>1. \A l \in 1 .. k - 1 : HoldsAt(l, took, env)
        BY <1>2
    <2>2. HoldsAt(k, took, env)
        BY <2>1, TypesHoldNext
    <2>3. \A l \in 1 .. k : l = k \/ l \in 1 .. k - 1
        OBVIOUS
    <2>4. QED  BY <2>1, <2>2, <2>3
<1>3. n \in good
    <2> HIDE DEF good
    <2>1. 0 .. n \subseteq good
        BY <1>1, <1>2, Steps
    <2>2. QED  BY <2>1
<1>4. n \in 1 .. n
    OBVIOUS
<1>5. QED  BY <1>3, <1>4

LEMMA LivedIsSafe == Lived => NarrowingIsSafe
<1> SUFFICES ASSUME Lived, NEW name \in Variables, TypeAt(name, line) # Unresolved, RestsOn(name, line),
                    NEW run \in runs, run[name] # Unbound
             PROVE  run[name] \in ValuesOf(TypeAt(name, line))
    BY DEF NarrowingIsSafe
<1>1. PICK took : Reaches(took, run) /\ OpenClauses \subseteq took
    BY DEF Lived, Histories
<1>2. PICK env : History(took, env) /\ env[line] = run
    BY <1>1 DEF Reaches
<1>3. HoldsFor(name, line, took, env)
    BY <1>2, TypesHold DEF Lived, HoldsAt
<1>4. QED  BY <1>1, <1>2, <1>3 DEF HoldsFor, TypeAt, RestsOn, ScopeAt

\* language-spec-v1.md:2053, for every function, menu of blocks, set of names and types:
\* the type the checker gives a name by the lines of guards, returns, assignments and
\* deletions (apply_guard_narrowing_semantic_with_context of flow.rs) holds the
\* name's value in every run that is there, at every line that comes after all the
\* type rests on.
THEOREM NarrowingSafe == Spec => []NarrowingIsSafe
<1>1. QED  BY RunsHaveHistories, LivedIsSafe, PTL
==============================================================================
