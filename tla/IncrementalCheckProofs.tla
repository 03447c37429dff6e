----------------------- MODULE IncrementalCheckProofs -----------------------
(***************************************************************************)
(* What the two front ends rely on, for any workspaces whatever their size *)
(* and imports: a module that the plan of an update leaves out would be    *)
(* checked with the result of before, unless a module it reaches changed   *)
(* what no summary holds.                                                  *)
(***************************************************************************)
EXTENDS IncrementalCheck, WellFoundedInduction, TLAPS

\* The import targets of every module are sequences of segments.
IsWorkspace(workspace) ==
    \A module \in DOMAIN workspace : workspace[module].imports \subseteq Seq(STRING)
-----------------------------------------------------------------------------
\* A set of naturals that is not empty has a least element.
LEMMA LeastElement ==
    ASSUME NEW set \in SUBSET Nat, set # {}
    PROVE  \E least \in set : \A other \in set : least <= other
<1> DEFINE Less == {pair \in Nat \X Nat : pair[1] < pair[2]}
<1>1. IsWellFoundedOn(Less, Nat)
    <2>1. OpToRel(<, Nat) = Less
        BY DEF OpToRel
    <2>2. QED  BY <2>1, NatLessThanWellFounded
<1> HIDE DEF Less
<1>2. PICK least \in set : \A other \in set : <<other, least>> \notin Less
    BY <1>1, WFMin
<1>3. \A other \in set : ~(other < least)
    BY <1>2 DEF Less
<1>4. QED  BY <1>3

\* resolve_import_module_key finds a module whenever one encloses the target.
LEMMA LongestKey ==
    ASSUME NEW target \in Seq(STRING), NEW keys, NEW some \in keys \cap Prefixes(target)
    PROVE  \E key : ResolvesTo(target, keys, key)
<1> DEFINE Candidates == keys \cap Prefixes(target)
           Rest(key) == Len(target) - Len(key)
<1>1. \A key \in Prefixes(target) : Len(key) \in Nat /\ Len(key) <= Len(target)
    BY DEF Prefixes
<1>2. {Rest(key) : key \in Candidates} \in SUBSET Nat
    BY <1>1
<1>3. PICK least \in {Rest(key) : key \in Candidates} :
        \A other \in {Rest(key) : key \in Candidates} : least <= other
    <2>1. {Rest(key) : key \in Candidates} # {}
        OBVIOUS
    <2> HIDE DEF Candidates, Rest
    <2>2. QED  BY <1>2, <2>1, LeastElement
<1>4. PICK key \in Candidates : least = Rest(key)
    BY <1>3
<1>5. ASSUME NEW other \in Candidates PROVE Len(other) <= Len(key)
    <2>1. Rest(key) <= Rest(other)
        BY <1>3, <1>4
    <2>2. QED  BY <1>1, <1>4, <2>1
<1>6. QED  BY <1>4, <1>5 DEF ResolvesTo

\* If what a target resolves to in one workspace and what it resolves to in
\* another is in both, it is the same module.
LEMMA SameResolution ==
    ASSUME NEW target \in Seq(STRING), NEW here, NEW there,
           NEW key, ResolvesTo(target, here, key), key \in there,
           \A other : ResolvesTo(target, there, other) => other \in here
    PROVE  ResolvesTo(target, there, key)
<1>1. key \in there \cap Prefixes(target)
    BY DEF ResolvesTo
<1>2. PICK longest : ResolvesTo(target, there, longest)
    BY <1>1, LongestKey
<1>3. Len(longest) <= Len(key)
    BY <1>2 DEF ResolvesTo
<1>4. \A other \in there \cap Prefixes(target) : Len(other) <= Len(longest)
    BY <1>2 DEF ResolvesTo
<1>5. \A other \in Prefixes(target) : Len(other) \in Nat
    BY DEF Prefixes
<1>6. longest \in Prefixes(target)
    BY <1>2 DEF ResolvesTo
<1>7. QED  BY <1>1, <1>3, <1>4, <1>5, <1>6 DEF ResolvesTo

\* A module whose targets stay, and resolve to what is in both workspaces, has the
\* same imports in both.
LEMMA SameImports ==
    ASSUME NEW here, NEW there, NEW module \in DOMAIN here \cap DOMAIN there,
           here[module] = there[module], here[module] \subseteq Seq(STRING),
           Imports(here, module) \subseteq DOMAIN there,
           Imports(there, module) \subseteq DOMAIN here
    PROVE  Imports(here, module) = Imports(there, module)
<1>1. ASSUME NEW target \in here[module], NEW key
      PROVE  ResolvesTo(target, DOMAIN here, key) <=> ResolvesTo(target, DOMAIN there, key)
    <2>1. \A other : ResolvesTo(target, DOMAIN here, other) => other \in DOMAIN there
        BY DEF Imports, ResolvesTo
    <2>2. \A other : ResolvesTo(target, DOMAIN there, other) => other \in DOMAIN here
        BY DEF Imports, ResolvesTo
    <2>3. ResolvesTo(target, DOMAIN here, key) => ResolvesTo(target, DOMAIN there, key)
        BY <2>1, <2>2, SameResolution
    <2>4. ResolvesTo(target, DOMAIN there, key) => ResolvesTo(target, DOMAIN here, key)
        BY <2>1, <2>2, SameResolution
    <2>5. QED  BY <2>3, <2>4
<1>2. ASSUME NEW key PROVE key \in Imports(here, module) <=> key \in Imports(there, module)
    BY <1>1 DEF Imports, ResolvesTo
<1>3. QED  BY <1>2 DEF Imports
-----------------------------------------------------------------------------
\* Closure is a set of nodes that holds its seeds and that no step leaves, and it
\* is in every such set.
LEMMA ClosureIsClosed ==
    ASSUME NEW next, NEW seeds \in SUBSET DOMAIN next,
           \A node \in DOMAIN next : next[node] \subseteq DOMAIN next
    PROVE  /\ Closure(seeds, next) \subseteq DOMAIN next
           /\ seeds \subseteq Closure(seeds, next)
           /\ \A node \in Closure(seeds, next) : next[node] \subseteq Closure(seeds, next)
<1>1. seeds \subseteq Closure(seeds, next)
    BY DEF Closure
<1>2. ASSUME NEW node \in Closure(seeds, next), NEW to \in next[node]
      PROVE  to \in Closure(seeds, next)
    BY <1>2 DEF Closure
<1>3. QED  BY <1>1, <1>2 DEF Closure

LEMMA ClosureIsLeast ==
    ASSUME NEW next, NEW seeds, NEW set \in SUBSET DOMAIN next,
           seeds \subseteq set, \A node \in set : next[node] \subseteq set
    PROVE  Closure(seeds, next) \subseteq set
BY DEF Closure

\* Two functions that agree on a set no step leaves reach the same from it.
LEMMA SameClosure ==
    ASSUME NEW one, NEW other, NEW set \in SUBSET (DOMAIN one \cap DOMAIN other),
           NEW seeds \in SUBSET set,
           \A node \in DOMAIN one : one[node] \subseteq DOMAIN one,
           \A node \in DOMAIN other : other[node] \subseteq DOMAIN other,
           \A node \in set : one[node] = other[node] /\ one[node] \subseteq set
    PROVE  Closure(seeds, one) = Closure(seeds, other) /\ Closure(seeds, one) \subseteq set
<1>1. Closure(seeds, one) \subseteq set /\ Closure(seeds, other) \subseteq set
    BY ClosureIsLeast
<1>2. \A node \in Closure(seeds, one) : one[node] \subseteq Closure(seeds, one)
    BY ClosureIsClosed
<1>3. \A node \in Closure(seeds, other) : other[node] \subseteq Closure(seeds, other)
    BY ClosureIsClosed
<1>4. seeds \subseteq Closure(seeds, one) /\ seeds \subseteq Closure(seeds, other)
    BY ClosureIsClosed
<1>5. Closure(seeds, one) \subseteq Closure(seeds, other)
    BY <1>1, <1>3, <1>4, ClosureIsLeast
<1>6. Closure(seeds, other) \subseteq Closure(seeds, one)
    BY <1>1, <1>2, <1>4, ClosureIsLeast
<1>7. QED  BY <1>1, <1>5, <1>6
-----------------------------------------------------------------------------
\* An index leads from modules to modules.
LEMMA IndexOfModules ==
    ASSUME NEW workspace
    PROVE  /\ DOMAIN IndexOf(workspace) = DOMAIN workspace
           /\ \A module \in DOMAIN workspace :
                /\ IndexOf(workspace)[module] = Imports(workspace, module)
                /\ Imports(workspace, module) \subseteq DOMAIN workspace
BY DEF IndexOf, Imports

\* A plan holds the visited modules: the changed ones, and with a module whatever
\* imports it before or after the update.
LEMMA PlanHoldsVisited ==
    ASSUME NEW previous, NEW current, NEW direct,
           NEW changed \in SUBSET (DOMAIN previous \cup DOMAIN current)
    PROVE  \E visited \in SUBSET (DOMAIN previous \cup DOMAIN current) :
              /\ changed \subseteq visited
              /\ direct \cup (visited \cap DOMAIN current)
                    \subseteq Affected(IndexOf(previous), IndexOf(current), direct, changed)
              /\ \A module \in DOMAIN previous \ visited : Imports(previous, module) \cap visited = {}
              /\ \A module \in DOMAIN current \ visited : Imports(current, module) \cap visited = {}
<1> DEFINE modules == DOMAIN previous \cup DOMAIN current
           Importers(module) == ReverseImporters(IndexOf(previous), IndexOf(current), module)
           importers == [module \in modules |-> Importers(module)]
           visited == Closure(changed, importers)
           Importing == UNION {importers[module] : module \in visited}
<1>1. \A module : Importers(module) \subseteq modules
    BY IndexOfModules DEF ReverseImporters, ImportersIn
<1>2. DOMAIN importers = modules /\ \A module \in modules : importers[module] = Importers(module)
    OBVIOUS
<1>3. /\ visited \subseteq modules /\ changed \subseteq visited
      /\ \A module \in visited : importers[module] \subseteq visited
    BY <1>1, <1>2, ClosureIsClosed
<1>4. visited = changed \cup Importing
    <2>1. changed \cup Importing \subseteq visited
        BY <1>3
    <2>2. \A module \in changed \cup Importing : importers[module] \subseteq changed \cup Importing
        BY <2>1
    <2>3. visited \subseteq changed \cup Importing
        <3> HIDE DEF Importing, importers
        <3> QED  BY <1>2, <1>3, <2>1, <2>2, ClosureIsLeast
    <2>4. QED  BY <2>1, <2>3
<1>5. \A other \in visited : ReverseImporters(IndexOf(previous), IndexOf(current), other) \subseteq visited
    <2> HIDE DEF visited
    <2> QED  BY <1>2, <1>3
<1>6. /\ \A module \in DOMAIN previous \ visited : Imports(previous, module) \cap visited = {}
      /\ \A module \in DOMAIN current \ visited : Imports(current, module) \cap visited = {}
    <2> HIDE DEF visited
    <2> QED  BY <1>5, IndexOfModules DEF ReverseImporters, ImportersIn
<1>7. Affected(IndexOf(previous), IndexOf(current), direct, changed)
        = direct \cup (changed \cap DOMAIN current) \cup Importing
    BY IndexOfModules DEF Affected
<1>8. QED
    <2> HIDE DEF visited, Importing
    <2> QED  BY <1>3, <1>4, <1>6, <1>7

\* The imports and the public surface of every module.
LEMMA SummaryFacts ==
    ASSUME NEW workspace
    PROVE  /\ DOMAIN Summaries(workspace) = DOMAIN workspace
           /\ \A module \in DOMAIN workspace :
                Summaries(workspace)[module] = Summary(workspace[module])
           /\ DOMAIN ImportTargets(workspace) = DOMAIN workspace
           /\ \A module \in DOMAIN workspace :
                ImportTargets(workspace)[module] = workspace[module].imports
BY DEF Summaries, ReusedSummaries, ImportTargets

\* A summary is reused only where it still is the module's.
LEMMA ReusedAreCurrent ==
    ASSUME NEW previous, NEW current, NEW rebuild,
           \A module \in DOMAIN previous \cap DOMAIN current :
               Summary(previous[module]) # Summary(current[module]) => module \in rebuild
    PROVE  ReusedSummaries(current, Summaries(previous), rebuild) = Summaries(current)
<1>1. \A module \in DOMAIN current :
        (module \in rebuild \/ module \notin DOMAIN previous)
            \/ Summaries(previous)[module] = Summary(current[module])
    BY SummaryFacts
<1>2. QED  BY <1>1, SummaryFacts DEF ReusedSummaries, Summaries

\* The index a state's summaries give is that of the workspace they are of.
LEMMA IndexOfSummaries ==
    ASSUME NEW workspace
    PROVE  IndexOf(ImportTargets(Summaries(workspace))) = Index(workspace)
<1>1. ASSUME NEW module \in DOMAIN workspace
      PROVE  Summaries(workspace)[module].imports = workspace[module].imports
    <2>1. Summary(workspace[module]).imports = workspace[module].imports
        BY DEF Summary
    <2>2. QED  BY <2>1, SummaryFacts
<1>2. ImportTargets(Summaries(workspace)) = ImportTargets(workspace)
    BY <1>1, SummaryFacts DEF ImportTargets
<1>3. QED  BY <1>2 DEF Index

\* What an update changes of the summaries.
ChangedSummaries(previous, current) == DiffModules(Summaries(previous), Summaries(current))

\* For any two workspaces: a module that affected_modules leaves out has its text of
\* before, reaches the modules it reached and finds their summaries as they were, as
\* long as the direct changes hold every module whose text is another.  Its result
\* stands if and only if none of those modules has changed what no summary holds.
THEOREM LeftOutChecksAreKept ==
    ASSUME NEW previous, NEW current, IsWorkspace(previous), IsWorkspace(current), NEW direct,
           \A module \in DOMAIN previous \cap DOMAIN current :
               previous[module] # current[module] => module \in direct,
           NEW module \in DOMAIN current \
               Affected(Index(previous), Index(current), direct, ChangedSummaries(previous, current))
    PROVE  /\ module \in DOMAIN previous
           /\ previous[module] = current[module]
           /\ AsSummarized(CheckOf(current, module)) = AsSummarized(CheckOf(previous, module))
           /\ (CheckOf(current, module) = CheckOf(previous, module))
                <=> \A other \in Reached(current, module) :
                        current[other].hidden = previous[other].hidden
<1> DEFINE changed == ChangedSummaries(previous, current)
           before == ImportTargets(previous)
           now == ImportTargets(current)
<1>1. DOMAIN before = DOMAIN previous /\ DOMAIN now = DOMAIN current
    BY SummaryFacts
<1>2. changed \subseteq DOMAIN previous \cup DOMAIN current
    BY SummaryFacts DEF ChangedSummaries, DiffModules
<1>3. PICK visited \in SUBSET (DOMAIN previous \cup DOMAIN current) :
        /\ changed \subseteq visited
        /\ direct \cup (visited \cap DOMAIN current)
              \subseteq Affected(IndexOf(before), IndexOf(now), direct, changed)
        /\ \A other \in DOMAIN previous \ visited : Imports(before, other) \cap visited = {}
        /\ \A other \in DOMAIN current \ visited : Imports(now, other) \cap visited = {}
    <2> HIDE DEF changed, before, now
    <2> QED  BY <1>1, <1>2, PlanHoldsVisited
<1>4. module \notin visited /\ module \notin direct
    BY <1>3 DEF Index
<1> DEFINE Kept == (DOMAIN previous \cup DOMAIN current) \ visited
<1>5. ASSUME NEW other \in Kept
      PROVE  /\ other \in DOMAIN previous \cap DOMAIN current
             /\ Summary(previous[other]) = Summary(current[other])
    BY <1>3, SummaryFacts DEF ChangedSummaries, DiffModules
<1>6. ASSUME NEW other \in Kept
      PROVE  /\ Index(previous)[other] = Index(current)[other]
             /\ Index(current)[other] \subseteq Kept
    <2>1. before[other] = now[other] /\ before[other] \subseteq Seq(STRING)
        BY <1>5, SummaryFacts DEF Summary, IsWorkspace
    <2>2. Imports(before, other) \subseteq Kept /\ Imports(now, other) \subseteq Kept
        BY <1>1, <1>3, <1>5, IndexOfModules
    <2>3. Imports(before, other) \subseteq DOMAIN now /\ Imports(now, other) \subseteq DOMAIN before
        BY <1>1, <1>5, <2>2
    <2>4. Imports(before, other) = Imports(now, other)
        <3> HIDE DEF before, now
        <3> QED  BY <1>1, <1>5, <2>1, <2>3, SameImports
    <2>5. Index(previous)[other] = Imports(before, other) /\ Index(current)[other] = Imports(now, other)
        BY <1>1, <1>5, IndexOfModules DEF Index
    <2>6. QED  BY <2>2, <2>4, <2>5
<1>7. module \in Kept
    BY <1>4
<1>8. module \in DOMAIN previous /\ previous[module] = current[module]
    BY <1>4, <1>5, <1>7
<1> DEFINE reached == Reached(current, module)
<1>9. Reached(previous, module) = reached /\ reached \subseteq Kept
    <2>1. DOMAIN Index(previous) = DOMAIN previous /\ DOMAIN Index(current) = DOMAIN current
        BY <1>1, IndexOfModules DEF Index
    <2>2. /\ \A other \in DOMAIN previous : Index(previous)[other] \subseteq DOMAIN previous
          /\ \A other \in DOMAIN current : Index(current)[other] \subseteq DOMAIN current
        BY <1>1, IndexOfModules DEF Index
    <2>3. Kept \subseteq DOMAIN previous \cap DOMAIN current
        BY <1>5
    <2> HIDE DEF Kept
    <2>4. Index(previous)[module] = Index(current)[module] /\ Index(current)[module] \subseteq Kept
        BY <1>6, <1>7
    <2>5. QED  BY <1>6, <2>1, <2>2, <2>3, <2>4, SameClosure DEF Reached
<1> HIDE DEF reached, Kept
<1>10. [other \in reached |-> Summary(current[other])] = [other \in reached |-> Summary(previous[other])]
    BY <1>5, <1>9
<1> DEFINE now_hidden == [other \in reached |-> current[other].hidden]
           then_hidden == [other \in reached |-> previous[other].hidden]
<1>11. /\ CheckOf(current, module).text = CheckOf(previous, module).text
       /\ CheckOf(current, module).seen = CheckOf(previous, module).seen
       /\ CheckOf(current, module).hidden = now_hidden
       /\ CheckOf(previous, module).hidden = then_hidden
    BY <1>8, <1>9, <1>10 DEF CheckOf, reached
<1>12. AsSummarized(CheckOf(current, module)) = AsSummarized(CheckOf(previous, module))
    BY <1>11 DEF AsSummarized
<1>13. (now_hidden = then_hidden) <=> \A other \in reached : current[other].hidden = previous[other].hidden
    <2>1. ASSUME now_hidden = then_hidden, NEW other \in reached
          PROVE  current[other].hidden = previous[other].hidden
        <3>1. now_hidden[other] = current[other].hidden /\ then_hidden[other] = previous[other].hidden
            OBVIOUS
        <3>2. QED  BY <2>1, <3>1
    <2>2. QED  BY <2>1
<1>14. (CheckOf(current, module) = CheckOf(previous, module)) <=> now_hidden = then_hidden
    <2>1. \A workspace : CheckOf(workspace, module) =
            [text |-> CheckOf(workspace, module).text, seen |-> CheckOf(workspace, module).seen,
             hidden |-> CheckOf(workspace, module).hidden]
        BY DEF CheckOf
    <2> HIDE DEF now_hidden, then_hidden
    <2>2. QED  BY <1>11, <2>1
<1>15. QED  BY <1>8, <1>12, <1>13, <1>14 DEF reached
=============================================================================
