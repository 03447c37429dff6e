------------------------- MODULE StaticExportsProofs -------------------------
(***************************************************************************)
(* For every menu of statements, every limit and any programs: the states  *)
(* of the analysis keep their shape and their number (ExportsTyped); and   *)
(* when the menu holds only statements the analysis follows, one of them   *)
(* tells the truth about each run of the module (RunsAreDescribed), so a   *)
(* list of exports that is returned holds every exported name              *)
(* (ExportsAreComplete).                                                   *)
(*                                                                         *)
(* A state follows a run (Follows) when it tells the truth about it and    *)
(* what is reached through the names it does not track is apart from the   *)
(* objects of the sequences it knows: the second half is what makes the    *)
(* first one inductive, since calls, appends and item assignments work on  *)
(* objects and not on names.                                               *)
(***************************************************************************)
EXTENDS StaticExports, WellFoundedInduction, SequenceTheorems, FiniteSetTheorems, TLAPS
-----------------------------------------------------------------------------
(* Folds: what a fold computes, one element at a time. *)

LEMMA Least ==
    ASSUME NEW set \in SUBSET Nat, set # {}
    PROVE  \E least \in set : \A other \in set : least <= other
<1> DEFINE Less == {pair \in Nat \X Nat : pair[1] < pair[2]}
<1>1. IsWellFoundedOn(Less, Nat)
    <2>1. OpToRel(<, Nat) = Less
        BY DEF OpToRel
    <2>2. QED  BY <2>1, NatLessThanWellFounded
<1> HIDE DEF Less
<1>2. PICK least \in set : \A other \in set : <<other, least>> \notin Less
    BY <1>1, WFMin
<1>3. \A other \in set : ~(other < least)
    BY <1>2 DEF Less
<1>4. QED  BY <1>3

\* A set of naturals that holds 0 and goes on from each number to the next holds
\* them all, up to a bound.
LEMMA Steps ==
    ASSUME NEW n \in Nat, NEW good, 0 \in good,
           \A i \in 1 .. n : i - 1 \in good => i \in good
    PROVE  0 .. n \subseteq good
<1> DEFINE bad == (0 .. n) \ good
<1> SUFFICES ASSUME bad # {} PROVE FALSE
    OBVIOUS
<1>1. bad \in SUBSET Nat /\ bad \subseteq 0 .. n
    OBVIOUS
<1> HIDE DEF bad
<1>2. PICK least \in bad : \A other \in bad : least <= other
    BY <1>1, Least
<1>3. least \in 1 .. n /\ least - 1 \in 0 .. n
    BY <1>1, <1>2 DEF bad
<1>4. least - 1 \notin bad
    BY <1>1, <1>2, <1>3
<1>5. QED  BY <1>2, <1>3, <1>4 DEF bad

LEMMA MaxOfTo ==
    ASSUME NEW n \in Nat, NEW set \in SUBSET (1 .. n), set # {}
    PROVE  Max(set) \in set /\ \A other \in set : other <= Max(set)
<1>1. {n - i : i \in set} \in SUBSET Nat /\ {n - i : i \in set} # {}
    <2>1. \A i \in set : n - i \in Nat
        OBVIOUS
    <2>2. QED  BY <2>1
<1>2. PICK gap \in {n - i : i \in set} : \A other \in {n - i : i \in set} : gap <= other
    BY <1>1, Least
<1>3. PICK max \in set : gap = n - max
    BY <1>2
<1>4. \A other \in set : other <= max
    BY <1>2, <1>3
<1>5. \E max2 \in set : \A other \in set : max2 >= other
    BY <1>4
<1>6. QED  BY <1>5 DEF Max

LEMMA MaxOfRange ==
    ASSUME NEW i \in Nat \ {0}
    PROVE  Max(1 .. i) = i /\ (1 .. i) \ {i} = 1 .. (i - 1) /\ 1 .. i # {}
<1>1. i \in 1 .. i
    OBVIOUS
<1>2. Max(1 .. i) \in 1 .. i /\ i <= Max(1 .. i)
    BY <1>1, MaxOfTo
<1>3. QED  BY <1>1, <1>2

\* A step of a fold over 1 .. n takes a value and an index; the fold takes sets of
\* indices, the greatest last.
IsStep(F, S, n) == F \in [S \X (1 .. n) -> S]
IsFold(g, F, S, base, n) ==
    /\ g \in [SUBSET (1 .. n) -> S]
    /\ g[{}] = base
    /\ \A set \in (SUBSET (1 .. n)) \ {{}} : g[set] = F[<<g[set \ {Max(set)}], Max(set)>>]
\* A function that folds, as long as its values are in S.
Folds(it, F, S, base, n) ==
    /\ it[{}] = base
    /\ \A set \in (SUBSET (1 .. n)) \ {{}} :
          it[set \ {Max(set)}] \in S => it[set] = F[<<it[set \ {Max(set)}], Max(set)>>]
\* The values of a fold after each of its steps.
IsPrefixes(h, F, S, base, n) ==
    /\ h \in [0 .. n -> S]
    /\ h[0] = base
    /\ \A i \in 1 .. n : h[i] = F[<<h[i - 1], i>>]

\* A fold over 1 .. n exists, whatever its step.
LEMMA FoldExists ==
    ASSUME NEW S, NEW base \in S, NEW n \in Nat, NEW F, IsStep(F, S, n)
    PROVE  \E g : IsFold(g, F, S, base, n)
<1> DEFINE Fold(k, g) == IsFold(g, F, S, base, k)
           good == {k \in 0 .. n : \E g : Fold(k, g)}
<1>1. 0 \in good
    <2>1. Fold(0, [set \in SUBSET (1 .. 0) |-> base])
        <3>1. 1 .. 0 = {}
            OBVIOUS
        <3>2. QED  BY <3>1 DEF IsFold
    <2>2. QED  BY <2>1
<1>2. ASSUME NEW k \in 1 .. n, k - 1 \in good PROVE k \in good
    <2>1. PICK g : Fold(k - 1, g)
        BY <1>2
    <2> DEFINE h == [set \in SUBSET (1 .. k) |->
                        IF k \in set THEN F[<<g[set \ {k}], k>>] ELSE g[set]]
    <2>2. \A set \in SUBSET (1 .. k) : k \notin set => set \in SUBSET (1 .. (k - 1))
        OBVIOUS
    <2>3. \A set \in SUBSET (1 .. k) : set \ {k} \in SUBSET (1 .. (k - 1))
        OBVIOUS
    <2>4. \A set \in SUBSET (1 .. k) : h[set] = IF k \in set THEN F[<<g[set \ {k}], k>>] ELSE g[set]
        OBVIOUS
    <2>5. h \in [SUBSET (1 .. k) -> S]
        <3>1. ASSUME NEW set \in SUBSET (1 .. k)
              PROVE  (IF k \in set THEN F[<<g[set \ {k}], k>>] ELSE g[set]) \in S
            <4>1. CASE k \in set
                <5>1. g[set \ {k}] \in S
                    BY <2>1, <2>3 DEF IsFold
                <5>2. QED  BY <5>1, <4>1 DEF IsStep
            <4>2. CASE k \notin set
                BY <4>2, <2>1, <2>2 DEF IsFold
            <4>3. QED  BY <4>1, <4>2
        <3>2. QED  BY <3>1
    <2>6. h[{}] = base
        BY <2>1, <2>4 DEF IsFold
    <2>7. ASSUME NEW set \in (SUBSET (1 .. k)) \ {{}}
          PROVE  h[set] = F[<<h[set \ {Max(set)}], Max(set)>>]
        <3>1. Max(set) \in set /\ \A other \in set : other <= Max(set)
            <4>1. k \in Nat /\ set \in SUBSET (1 .. k) /\ set # {}
                OBVIOUS
            <4>2. QED  BY <4>1, MaxOfTo
        <3>2. CASE k \in set
            <4>1. Max(set) = k
                <5>1. \A other \in set : other \in 1 .. k
                    OBVIOUS
                <5>2. Max(set) \in 1 .. k /\ k <= Max(set)
                    BY <3>1, <3>2, <5>1
                <5>3. QED  BY <5>2
            <4>2. h[set \ {k}] = g[set \ {k}]
                BY <2>4
            <4>3. QED  BY <4>1, <4>2, <2>4, <3>2
        <3>3. CASE k \notin set
            <4>1. set \in (SUBSET (1 .. (k - 1))) \ {{}}
                BY <2>2, <3>3
            <4>2. g[set] = F[<<g[set \ {Max(set)}], Max(set)>>]
                BY <2>1, <4>1 DEF IsFold
            <4>3. h[set] = g[set] /\ h[set \ {Max(set)}] = g[set \ {Max(set)}]
                BY <2>4, <3>3
            <4>4. QED  BY <4>2, <4>3
        <3>4. QED  BY <3>2, <3>3
    <2>8. Fold(k, h)
        BY <2>5, <2>6, <2>7 DEF IsFold
    <2> HIDE DEF Fold, h
    <2>9. QED  BY <2>8
<1> HIDE DEF good
<1>3. 0 .. n \subseteq good
    BY <1>1, <1>2, Steps
<1>4. QED  BY <1>3 DEF good

\* What a fold is after each of its steps.
LEMMA FoldSteps ==
    ASSUME NEW S, NEW base \in S, NEW n \in Nat, NEW F, IsStep(F, S, n), NEW it,
           Folds(it, F, S, base, n)
    PROVE  \E h : IsPrefixes(h, F, S, base, n) /\ h[n] = it[1 .. n]
<1> DEFINE h == [i \in 0 .. n |-> it[1 .. i]]
           good == {i \in 0 .. n : h[i] \in S}
<1>1. h[0] = base
    <2>1. 1 .. 0 = {}
        OBVIOUS
    <2>2. QED  BY <2>1 DEF Folds
<1>2. ASSUME NEW i \in 1 .. n, h[i - 1] \in S PROVE h[i] = F[<<h[i - 1], i>>] /\ h[i] \in S
    <2>1. Max(1 .. i) = i /\ (1 .. i) \ {i} = 1 .. (i - 1) /\ 1 .. i # {}
        <3>1. i \in Nat \ {0}
            OBVIOUS
        <3>2. QED  BY <3>1, MaxOfRange
    <2>2. 1 .. i \in (SUBSET (1 .. n)) \ {{}}
        BY <2>1
    <2>3. h[i] = it[1 .. i] /\ h[i - 1] = it[1 .. (i - 1)]
        OBVIOUS
    <2>4. h[i] = F[<<h[i - 1], i>>]
        BY <2>1, <2>2, <2>3, <1>2 DEF Folds
    <2>5. QED  BY <2>4, <1>2 DEF IsStep
<1>3. 0 .. n \subseteq good
    <2>1. 0 \in good
        BY <1>1
    <2>2. ASSUME NEW i \in 1 .. n, i - 1 \in good PROVE i \in good
        <3>1. i \in 0 .. n /\ h[i - 1] \in S
            BY <2>2
        <3>2. QED  BY <1>2, <3>1
    <2> HIDE DEF good
    <2>3. QED  BY <2>1, <2>2, Steps
<1>4. h \in [0 .. n -> S]
    BY <1>3
<1>5. ASSUME NEW i \in 1 .. n PROVE h[i] = F[<<h[i - 1], i>>]
    <2>1. i - 1 \in 0 .. n
        OBVIOUS
    <2>2. h[i - 1] \in S
        BY <2>1, <1>3
    <2>3. QED  BY <1>2, <2>2
<1> HIDE DEF good
<1>6. h[n] = it[1 .. n]
    OBVIOUS
<1> HIDE DEF h
<1>7. IsPrefixes(h, F, S, base, n)
    BY <1>1, <1>4, <1>5 DEF IsPrefixes
<1>8. QED  BY <1>6, <1>7

\* The sequences that a sequence is flattened from, one after the other.
LEMMA Flattening ==
    ASSUME NEW S, NEW seqs \in Seq(Seq(S)), seqs # << >>
    PROVE  \E f : /\ FlattenSeq(seqs) = f[Len(seqs)]
                  /\ \A i \in 1 .. Len(seqs) : f[i] = IF i = 1 THEN seqs[i] ELSE f[i - 1] \o seqs[i]
<1> DEFINE n == Len(seqs)
           F == [p \in Seq(S) \X (1 .. n) |-> IF p[2] = 1 THEN seqs[p[2]] ELSE p[1] \o seqs[p[2]]]
<1>1. n \in Nat /\ n # 0 /\ \A i \in 1 .. n : seqs[i] \in Seq(S)
    OBVIOUS
<1>2. IsStep(F, Seq(S), n)
    BY <1>1 DEF IsStep
<1>3. << >> \in Seq(S)
    OBVIOUS
<1>4. PICK g : IsFold(g, F, Seq(S), << >>, n)
    BY <1>1, <1>2, <1>3, FoldExists
<1> DEFINE h == [i \in 1 .. n |-> g[1 .. i]]
<1>5. ASSUME NEW i \in 1 .. n
      PROVE  h[i] = IF i = 1 THEN seqs[i] ELSE h[i - 1] \o seqs[i]
    <2>1. Max(1 .. i) = i /\ (1 .. i) \ {i} = 1 .. (i - 1) /\ 1 .. i # {}
        <3>1. i \in Nat \ {0}
            BY <1>1
        <3>2. QED  BY <3>1, MaxOfRange
    <2>2. 1 .. i \in (SUBSET (1 .. n)) \ {{}}
        <3> HIDE DEF n
        <3>1. 1 .. i \subseteq 1 .. n
            BY <1>1
        <3>2. QED  BY <2>1, <3>1
    <2>3. g[1 .. i] = F[<<g[1 .. (i - 1)], i>>]
        BY <1>4, <2>1, <2>2 DEF IsFold
    <2>4. 1 .. (i - 1) \in SUBSET (1 .. n)
        OBVIOUS
    <2>5. g[1 .. (i - 1)] \in Seq(S)
        BY <1>4, <2>4 DEF IsFold
    <2>6. h[i] = IF i = 1 THEN seqs[i] ELSE g[1 .. (i - 1)] \o seqs[i]
        BY <2>3, <2>5
    <2>7. CASE i = 1
        BY <2>6, <2>7
    <2>8. CASE i # 1
        <3>1. i - 1 \in 1 .. n
            BY <2>8
        <3>2. h[i - 1] = g[1 .. (i - 1)]
            BY <3>1
        <3>3. QED  BY <2>6, <2>8, <3>2
    <2>9. QED  BY <2>7, <2>8
<1> DEFINE Flat1(f) == f = [i \in 1 .. Len(seqs) |-> IF i = 1 THEN seqs[i] ELSE f[i - 1] \o seqs[i]]
           f == CHOOSE f : Flat1(f)
<1>6. Flat1(h)
    <2>1. h = [i \in 1 .. n |-> h[i]]
        OBVIOUS
    <2> HIDE DEF h
    <2>2. QED  BY <1>5, <2>1
<1>7. Flat1(f)
    <2> HIDE DEF Flat1
    <2>1. QED  BY <1>6
<1>8. FlattenSeq(seqs) = f[Len(seqs)]
    BY <1>1 DEF FlattenSeq
<1>9. QED  BY <1>7, <1>8

LEMMA FlattenTyped ==
    ASSUME NEW S, NEW seqs \in Seq(Seq(S))
    PROVE  FlattenSeq(seqs) \in Seq(S)
<1>1. CASE seqs = << >>
    BY <1>1 DEF FlattenSeq
<1>2. CASE seqs # << >>
    <2>1. PICK f : /\ FlattenSeq(seqs) = f[Len(seqs)]
                   /\ \A i \in 1 .. Len(seqs) : f[i] = IF i = 1 THEN seqs[i] ELSE f[i - 1] \o seqs[i]
        BY <1>2, Flattening
    <2> DEFINE n == Len(seqs)
               good == {i \in 0 .. n : i # 0 => f[i] \in Seq(S)}
    <2>2. n \in Nat /\ n # 0 /\ \A i \in 1 .. n : seqs[i] \in Seq(S)
        BY <1>2
    <2>3. ASSUME NEW i \in 1 .. n, i - 1 \in good PROVE i \in good
        <3>1. CASE i = 1
            BY <3>1, <2>1, <2>2
        <3>2. CASE i # 1
            <4>1. f[i - 1] \in Seq(S)
                BY <2>3, <3>2
            <4>2. f[i] = f[i - 1] \o seqs[i]
                BY <2>1, <3>2
            <4>3. seqs[i] \in Seq(S)
                BY <2>2
            <4>4. f[i] \in Seq(S)
                BY <4>1, <4>2, <4>3
            <4>5. QED  BY <4>4
        <3>3. QED  BY <3>1, <3>2
    <2>4. 0 \in good
        BY <2>2
    <2>5. n \in good
        <3> HIDE DEF good, n
        <3>1. 0 .. n \subseteq good
            BY <2>2, <2>3, <2>4, Steps
        <3>2. QED  BY <2>2, <3>1
    <2>6. QED  BY <2>1, <2>2, <2>5
<1>3. QED  BY <1>1, <1>2

LEMMA FlattenEmpty ==
    ASSUME NEW seqs \in Seq({<< >>})
    PROVE  FlattenSeq(seqs) = << >>
<1>1. CASE seqs = << >>
    BY <1>1 DEF FlattenSeq
<1>2. CASE seqs # << >>
    <2> DEFINE n == Len(seqs)
    <2>1. n \in Nat /\ n # 0 /\ \A i \in 1 .. n : seqs[i] = << >>
        BY <1>2
    <2>2. seqs \in Seq(Seq({}))
        <3>1. \A i \in 1 .. n : seqs[i] \in Seq({})
            <4>1. << >> \in Seq({})
                OBVIOUS
            <4>2. QED  BY <2>1, <4>1
        <3>2. QED  BY <3>1
    <2>3. PICK f : /\ FlattenSeq(seqs) = f[n]
                   /\ \A i \in 1 .. n : f[i] = IF i = 1 THEN seqs[i] ELSE f[i - 1] \o seqs[i]
        BY <1>2, <2>2, Flattening
    <2> DEFINE good == {i \in 0 .. n : i # 0 => f[i] = << >>}
    <2>4. ASSUME NEW i \in 1 .. n, i - 1 \in good PROVE i \in good
        <3>1. CASE i = 1
            BY <3>1, <2>1, <2>3
        <3>2. CASE i # 1
            <4>1. f[i - 1] = << >> /\ seqs[i] = << >>
                BY <2>1, <2>4, <3>2
            <4>2. f[i] = << >> \o << >>
                BY <2>3, <3>2, <4>1
            <4>3. QED  BY <4>2
        <3>3. QED  BY <3>1, <3>2
    <2>5. 0 \in good
        BY <2>1
    <2>6. n \in good
        <3> HIDE DEF good, n
        <3>1. 0 .. n \subseteq good
            BY <2>1, <2>4, <2>5, Steps
        <3>2. QED  BY <2>1, <3>1
    <2>7. QED  BY <2>1, <2>3, <2>6
<1>3. QED  BY <1>1, <1>2
-----------------------------------------------------------------------------
(* The states of the analysis. *)

Values == Seq(Strings)
Known == UNION {[names -> Values] : names \in SUBSET tracked}

\* Pairs of distinct names, related as an equivalence relates them.
WellPaired(aliases) ==
    /\ \A pair \in aliases : \E m, n \in tracked : m # n /\ pair = {m, n}
    /\ \A k, m, n \in tracked :
          {k, m} \in aliases /\ {m, n} \in aliases /\ k # n => {k, n} \in aliases

Shape ==
    [known : Known, aliases : SUBSET SUBSET tracked,
     exports : {"missing", "known", "dynamic"}, dynamic : BOOLEAN]
States ==
    {s \in Shape :
        /\ WellPaired(s.aliases)
        /\ s.exports = "known" <=> All \in DOMAIN s.known
        /\ s.exports = "dynamic" => s.dynamic}

Tracking == tracked \in SUBSET Names /\ All \in tracked

LEMMA KnownIs ==
    ASSUME NEW known
    PROVE  known \in Known <=> /\ known = [n \in DOMAIN known |-> known[n]]
                               /\ DOMAIN known \subseteq tracked
                               /\ \A n \in DOMAIN known : known[n] \in Values
<1>1. ASSUME known \in Known
      PROVE  /\ known = [n \in DOMAIN known |-> known[n]]
             /\ DOMAIN known \subseteq tracked
             /\ \A n \in DOMAIN known : known[n] \in Values
    <2>1. PICK names \in SUBSET tracked : known \in [names -> Values]
        BY <1>1 DEF Known
    <2>2. QED  BY <2>1
<1>2. ASSUME /\ known = [n \in DOMAIN known |-> known[n]]
             /\ DOMAIN known \subseteq tracked
             /\ \A n \in DOMAIN known : known[n] \in Values
      PROVE  known \in Known
    <2>1. known \in [DOMAIN known -> Values]
        BY <1>2
    <2>2. QED  BY <1>2, <2>1 DEF Known
<1>3. QED  BY <1>1, <1>2

LEMMA LearnTyped ==
    ASSUME Tracking, NEW s \in States, NEW n \in tracked, NEW values \in Values
    PROVE  Learn(s, n, values) \in Known /\ DOMAIN Learn(s, n, values) = DOMAIN s.known \cup {n}
<1>1. s.known \in Known
    BY DEF States, Shape
<1>2. DOMAIN Learn(s, n, values) = DOMAIN s.known \cup {n}
    BY DEF Learn
<1>3. \A m \in DOMAIN s.known \cup {n} : Learn(s, n, values)[m] \in Values
    BY <1>1, KnownIs DEF Learn
<1>4. DOMAIN s.known \cup {n} \subseteq tracked
    BY <1>1, KnownIs
<1>5. Learn(s, n, values) = [m \in DOMAIN s.known \cup {n} |-> Learn(s, n, values)[m]]
    BY DEF Learn
<1>6. QED  BY <1>2, <1>3, <1>4, <1>5, KnownIs

LEMMA ForgetTyped ==
    ASSUME Tracking, NEW s \in States, NEW n
    PROVE  Forget(s, n) \in Known /\ DOMAIN Forget(s, n) = DOMAIN s.known \ {n}
<1>1. s.known \in Known
    BY DEF States, Shape
<1>2. DOMAIN Forget(s, n) = DOMAIN s.known \ {n}
    BY DEF Forget
<1>3. \A m \in DOMAIN s.known \ {n} : Forget(s, n)[m] \in Values
    BY <1>1, KnownIs DEF Forget
<1>4. DOMAIN s.known \subseteq tracked
    BY <1>1, KnownIs
<1>5. Forget(s, n) = [m \in DOMAIN s.known \ {n} |-> Forget(s, n)[m]]
    BY DEF Forget
<1>6. QED  BY <1>2, <1>3, <1>4, <1>5, KnownIs

LEMMA BreakTyped ==
    ASSUME NEW s \in States, NEW n
    PROVE  BreakAlias(s, n) \in SUBSET SUBSET tracked /\ WellPaired(BreakAlias(s, n))
<1>1. WellPaired(s.aliases) /\ s.aliases \in SUBSET SUBSET tracked
    BY DEF States, Shape
<1>2. QED  BY <1>1 DEF BreakAlias, WellPaired

LEMMA StateIs ==
    ASSUME NEW s \in States
    PROVE  /\ s \in Shape
           /\ s.known \in Known /\ s.aliases \in SUBSET SUBSET tracked /\ WellPaired(s.aliases)
           /\ s.exports \in {"missing", "known", "dynamic"} /\ s.dynamic \in BOOLEAN
           /\ s.exports = "known" <=> All \in DOMAIN s.known
           /\ s.exports = "dynamic" => s.dynamic
BY DEF States, Shape

LEMMA NewStateTyped ==
    ASSUME Tracking
    PROVE  NewState \in States
<1>1. NoSequences \in Known /\ DOMAIN NoSequences = {}
    <2>1. NoSequences \in [{} -> Values]
        BY DEF NoSequences
    <2>2. QED  BY <2>1 DEF Known
<1>2. WellPaired({})
    BY DEF WellPaired
<1>3. QED  BY <1>1, <1>2 DEF NewState, States, Shape

LEMMA AssignIs ==
    ASSUME Tracking, NEW s \in States, NEW n \in tracked, NEW values \in Values \cup {Unresolved}
    PROVE  LET t == AssignSequence(s, n, values)
           IN  /\ t \in States
               /\ t.known = IF values = Unresolved THEN Forget(s, n) ELSE Learn(s, n, values)
               /\ t.aliases = BreakAlias(s, n)
               /\ t.exports = IF n # All THEN s.exports
                              ELSE IF values = Unresolved THEN "dynamic" ELSE "known"
               /\ t.dynamic <=> s.dynamic \/ (n = All /\ values = Unresolved)
<1> DEFINE t == AssignSequence(s, n, values)
           known == IF values = Unresolved THEN Forget(s, n) ELSE Learn(s, n, values)
           aliases == BreakAlias(s, n)
<1>1. s \in Shape /\ s.dynamic \in BOOLEAN
    BY StateIs
<1>2. /\ known \in Known
      /\ DOMAIN known = IF values = Unresolved THEN DOMAIN s.known \ {n} ELSE DOMAIN s.known \cup {n}
    BY ForgetTyped, LearnTyped
<1>3. aliases \in SUBSET SUBSET tracked /\ WellPaired(aliases)
    BY BreakTyped
<1>4. t = IF values = Unresolved
          THEN [s EXCEPT !.aliases = aliases, !.known = known,
                         !.exports = IF n = All THEN "dynamic" ELSE @, !.dynamic = @ \/ n = All]
          ELSE [s EXCEPT !.aliases = aliases, !.known = known, !.exports = IF n = All THEN "known" ELSE @]
    BY DEF AssignSequence
<1>5. /\ s.exports = "known" <=> All \in DOMAIN s.known
      /\ s.exports = "dynamic" => s.dynamic
      /\ s.exports \in {"missing", "known", "dynamic"}
    BY StateIs
<1> HIDE DEF t, known, aliases
<1>6. CASE values = Unresolved
    <2>1. t = [s EXCEPT !.aliases = aliases, !.known = known,
                        !.exports = IF n = All THEN "dynamic" ELSE @, !.dynamic = @ \/ n = All]
        BY <1>4, <1>6
    <2>2. t \in Shape /\ t.known = known /\ t.aliases = aliases
        BY <1>1, <1>2, <1>3, <2>1 DEF Shape
    <2>3. t.exports = (IF n = All THEN "dynamic" ELSE s.exports) /\ t.dynamic = (s.dynamic \/ n = All)
        BY <1>1, <2>1 DEF Shape
    <2>4. t \in States
        BY <1>2, <1>3, <1>5, <1>6, <2>2, <2>3 DEF States
    <2>5. QED  BY <1>6, <2>2, <2>3, <2>4 DEF t, known, aliases
<1>7. CASE values # Unresolved
    <2>1. t = [s EXCEPT !.aliases = aliases, !.known = known,
                        !.exports = IF n = All THEN "known" ELSE @]
        BY <1>4, <1>7
    <2>2. t \in Shape /\ t.known = known /\ t.aliases = aliases
        BY <1>1, <1>2, <1>3, <2>1 DEF Shape
    <2>3. t.exports = (IF n = All THEN "known" ELSE s.exports) /\ t.dynamic = s.dynamic
        BY <1>1, <2>1 DEF Shape
    <2>4. t \in States
        BY <1>2, <1>3, <1>5, <1>7, <2>2, <2>3 DEF States
    <2>5. QED  BY <1>7, <2>2, <2>3, <2>4 DEF t, known, aliases
<1>8. QED  BY <1>6, <1>7

LEMMA AssignTyped ==
    ASSUME Tracking, NEW s \in States, NEW n, NEW values \in Values \cup {Unresolved}
    PROVE  AssignSequence(s, n, values) \in States
<1>1. CASE n \in tracked
    BY <1>1, AssignIs
<1>2. CASE n \notin tracked
    BY <1>2 DEF AssignSequence
<1>3. QED  BY <1>1, <1>2

LEMMA DeleteIs ==
    ASSUME Tracking, NEW s \in States, NEW n \in tracked
    PROVE  LET t == DeleteSequence(s, n)
           IN  /\ t \in States
               /\ t.known = Forget(s, n)
               /\ t.aliases = BreakAlias(s, n)
               /\ t.exports = IF n = All THEN "missing" ELSE s.exports
               /\ t.dynamic = s.dynamic
<1> DEFINE t == DeleteSequence(s, n)
           known == Forget(s, n)
           aliases == BreakAlias(s, n)
<1>1. /\ s \in Shape
      /\ s.exports = "known" <=> All \in DOMAIN s.known
      /\ s.exports = "dynamic" => s.dynamic
      /\ s.exports \in {"missing", "known", "dynamic"}
    BY StateIs
<1>2. known \in Known /\ DOMAIN known = DOMAIN s.known \ {n}
    BY ForgetTyped
<1>3. aliases \in SUBSET SUBSET tracked /\ WellPaired(aliases)
    BY BreakTyped
<1>4. t = [s EXCEPT !.aliases = aliases, !.known = known, !.exports = IF n = All THEN "missing" ELSE @]
    BY DEF DeleteSequence
<1> HIDE DEF t, known, aliases
<1>5. t \in Shape /\ t.known = known /\ t.aliases = aliases
    BY <1>1, <1>2, <1>3, <1>4 DEF Shape
<1>6. t.exports = (IF n = All THEN "missing" ELSE s.exports) /\ t.dynamic = s.dynamic
    BY <1>1, <1>4 DEF Shape
<1>7. t \in States
    BY <1>1, <1>2, <1>3, <1>5, <1>6 DEF States
<1>8. QED  BY <1>5, <1>6, <1>7 DEF t, known, aliases

LEMMA DeleteTyped ==
    ASSUME Tracking, NEW s \in States, NEW n
    PROVE  DeleteSequence(s, n) \in States
<1>1. CASE n \in tracked
    BY <1>1, DeleteIs
<1>2. CASE n \notin tracked
    BY <1>2 DEF DeleteSequence
<1>3. QED  BY <1>1, <1>2

LEMMA MarkTyped ==
    ASSUME Tracking, NEW s \in States
    PROVE  MarkDynamic(s) \in States /\ MarkDynamic(s).dynamic
<1> DEFINE t == MarkDynamic(s)  known == Forget(s, All)
<1>1. s \in Shape /\ WellPaired(s.aliases)
    BY StateIs
<1>2. known \in Known /\ All \notin DOMAIN known
    BY ForgetTyped
<1>3. t = [s EXCEPT !.known = known, !.exports = "dynamic", !.dynamic = TRUE]
    BY DEF MarkDynamic
<1> HIDE DEF t, known
<1>4. t \in Shape /\ t.known = known /\ t.aliases = s.aliases /\ t.exports = "dynamic" /\ t.dynamic
    BY <1>1, <1>2, <1>3 DEF Shape
<1>5. t \in States
    BY <1>1, <1>2, <1>4 DEF States
<1>6. QED  BY <1>4, <1>5 DEF t

LEMMA AliasesIs ==
    ASSUME Tracking, NEW s \in States, NEW n \in tracked, NEW m
    PROVE  m \in Aliases(s, n) <=> m = n \/ {m, n} \in s.aliases
<1>1. \A pair \in s.aliases : \E k, l \in tracked : k # l /\ pair = {k, l}
    BY StateIs DEF WellPaired
<1>2. ASSUME NEW pair \in s.aliases, n \in pair, m \in pair, m # n PROVE {m, n} \in s.aliases
    <2>1. PICK k, l \in tracked : k # l /\ pair = {k, l}
        BY <1>1
    <2>2. pair = {m, n}
        BY <1>2, <2>1
    <2>3. QED  BY <2>2
<1>3. QED  BY <1>2 DEF Aliases

LEMMA AliasesTracked ==
    ASSUME Tracking, NEW s \in States, NEW n \in tracked
    PROVE  Aliases(s, n) \subseteq tracked
BY StateIs DEF Aliases

LEMMA PairsOfIs ==
    ASSUME NEW group, NEW pair
    PROVE  pair \in PairsOf(group) <=> \E m, n \in group : m # n /\ pair = {m, n}
<1>1. ASSUME pair \in PairsOf(group) PROVE \E m, n \in group : m # n /\ pair = {m, n}
    <2>1. PICK m \in group, n \in group : pair = {m, n}
        BY <1>1 DEF PairsOf
    <2>2. m # n
        BY <1>1, <2>1 DEF PairsOf
    <2>3. QED  BY <2>1, <2>2
<1>2. ASSUME NEW m \in group, NEW n \in group, m # n, pair = {m, n} PROVE pair \in PairsOf(group)
    <2>1. \A k \in group : pair # {k}
        BY <1>2
    <2>2. QED  BY <1>2, <2>1 DEF PairsOf
<1>3. QED  BY <1>1, <1>2

LEMMA PairIn ==
    ASSUME NEW group, NEW m, NEW n
    PROVE  {m, n} \in PairsOf(group) <=> m \in group /\ n \in group /\ m # n
<1>1. ASSUME {m, n} \in PairsOf(group) PROVE m \in group /\ n \in group /\ m # n
    <2>1. PICK k \in group, l \in group : k # l /\ {m, n} = {k, l}
        BY <1>1, PairsOfIs
    <2>2. m \in {k, l} /\ n \in {k, l} /\ k \in {m, n} /\ l \in {m, n}
        BY <2>1
    <2>3. QED  BY <2>1, <2>2
<1>2. ASSUME m \in group, n \in group, m # n PROVE {m, n} \in PairsOf(group)
    BY <1>2, PairsOfIs
<1>3. QED  BY <1>1, <1>2

LEMMA GroupClosed ==
    ASSUME Tracking, NEW s \in States, NEW n \in tracked, NEW k \in tracked, NEW m \in Aliases(s, n),
           {k, m} \in s.aliases
    PROVE  k \in Aliases(s, n)
<1>1. WellPaired(s.aliases)
    BY StateIs
<1>2. m \in tracked
    BY AliasesTracked
<1>3. m = n \/ {m, n} \in s.aliases
    BY AliasesIs
<1>4. k = n \/ {k, n} \in s.aliases
    BY <1>1, <1>2, <1>3 DEF WellPaired
<1>5. QED  BY <1>4, AliasesIs

LEMMA AddAliasIs ==
    ASSUME Tracking, NEW s \in States, NEW left \in tracked, NEW right \in tracked, left # right
    PROVE  LET t == AddAlias(s, left, right)
           IN  /\ t \in States
               /\ t.known = s.known /\ t.exports = s.exports /\ t.dynamic = s.dynamic
               /\ t.aliases = s.aliases \cup PairsOf(Aliases(s, left) \cup Aliases(s, right))
<1> DEFINE t == AddAlias(s, left, right)
           group == Aliases(s, left) \cup Aliases(s, right)
           aliases == s.aliases \cup PairsOf(group)
<1>1. s \in Shape /\ WellPaired(s.aliases) /\ s.aliases \in SUBSET SUBSET tracked
    BY StateIs
<1>2. group \subseteq tracked
    BY AliasesTracked
<1>3. PairsOf(group) \in SUBSET SUBSET tracked
    BY <1>2, PairsOfIs
<1>4. ASSUME NEW k \in tracked, NEW m \in group, {k, m} \in s.aliases PROVE k \in group
    BY <1>4, GroupClosed
<1>5. ASSUME NEW pair \in aliases PROVE \E m, n \in tracked : m # n /\ pair = {m, n}
    <2>1. CASE pair \in s.aliases
        BY <1>1, <2>1 DEF WellPaired
    <2>2. CASE pair \in PairsOf(group)
        BY <1>2, <2>2, PairsOfIs
    <2>3. QED  BY <2>1, <2>2
<1>6. ASSUME NEW k \in tracked, NEW m \in tracked, NEW n \in tracked,
             {k, m} \in aliases, {m, n} \in aliases, k # n
      PROVE  {k, n} \in aliases
    <2>1. {k, m} \in s.aliases \/ (k \in group /\ m \in group)
        BY <1>6, PairIn
    <2>2. {m, n} \in s.aliases \/ (m \in group /\ n \in group)
        BY <1>6, PairIn
    <2>3. CASE {k, m} \in s.aliases /\ {m, n} \in s.aliases
        BY <1>1, <1>6, <2>3 DEF WellPaired
    <2>4. CASE {k, m} \in s.aliases /\ m \in group /\ n \in group
        <3>1. k \in group
            BY <1>4, <2>4
        <3>2. QED  BY <1>6, <2>4, <3>1, PairIn
    <2>5. CASE {m, n} \in s.aliases /\ k \in group /\ m \in group
        <3>1. {n, m} \in s.aliases
            BY <2>5
        <3>2. n \in group
            BY <1>4, <2>5, <3>1
        <3>3. QED  BY <1>6, <2>5, <3>2, PairIn
    <2>6. CASE k \in group /\ m \in group /\ n \in group
        BY <1>6, <2>6, PairIn
    <2>7. QED  BY <2>1, <2>2, <2>3, <2>4, <2>5, <2>6
<1>7. WellPaired(aliases)
    BY <1>5, <1>6 DEF WellPaired
<1>8. aliases \in SUBSET SUBSET tracked
    BY <1>1, <1>3
<1>9. t = [s EXCEPT !.aliases = aliases]
    BY DEF AddAlias
<1> HIDE DEF t, aliases
<1>10. t \in Shape /\ t.aliases = aliases /\ t.known = s.known /\ t.exports = s.exports /\ t.dynamic = s.dynamic
    BY <1>1, <1>8, <1>9 DEF Shape
<1>11. t \in States
    BY <1>7, <1>10, StateIs DEF States
<1>12. QED  BY <1>10, <1>11 DEF t, aliases

LEMMA AddAliasTyped ==
    ASSUME Tracking, NEW s \in States, NEW left, NEW right
    PROVE  AddAlias(s, left, right) \in States
<1>1. CASE left = right \/ ~({left, right} \subseteq tracked)
    BY <1>1 DEF AddAlias
<1>2. CASE left # right /\ left \in tracked /\ right \in tracked
    BY <1>2, AddAliasIs
<1>3. QED  BY <1>1, <1>2

\* The states between the names an assignment binds.
LEMMA AssignAllSteps ==
    ASSUME Tracking, NEW s \in States, NEW names \in Seq(Names), NEW values \in Values \cup {Unresolved}
    PROVE  \E h : /\ h \in [0 .. Len(names) -> States] /\ h[0] = s
                  /\ \A i \in 1 .. Len(names) : h[i] = AssignSequence(h[i - 1], names[i], values)
                  /\ h[Len(names)] = AssignAll(s, names, values)
<1> DEFINE n == Len(names)
           Step(t, i) == AssignSequence(t, names[i], values)
           F == [p \in States \X (1 .. n) |-> Step(p[1], p[2])]
           Is(it) == it = [set \in SUBSET DOMAIN names |->
                             IF set = {} THEN s ELSE Step(it[set \ {Max(set)}], Max(set))]
           it == CHOOSE it : Is(it)
<1>1. n \in Nat /\ DOMAIN names = 1 .. n
    OBVIOUS
<1>2. \A t \in States, i \in 1 .. n : Step(t, i) \in States
    BY AssignTyped
<1>3. it[DOMAIN names] = AssignAll(s, names, values)
    BY DEF AssignAll, FoldLeft, MapThenFoldSet
<1> HIDE DEF Step, n
<1>4. IsStep(F, States, n)
    BY <1>2 DEF IsStep
<1>5. PICK g : IsFold(g, F, States, s, n)
    BY <1>1, <1>4, FoldExists
<1>6. ASSUME NEW set \in (SUBSET (1 .. n)) \ {{}}, NEW f, f[set \ {Max(set)}] \in States
      PROVE  F[<<f[set \ {Max(set)}], Max(set)>>] = Step(f[set \ {Max(set)}], Max(set))
    <2>1. Max(set) \in 1 .. n
        BY <1>1, MaxOfTo
    <2>2. QED  BY <1>6, <2>1
<1>7. Is(g)
    <2>1. \A set \in (SUBSET (1 .. n)) \ {{}} : g[set \ {Max(set)}] \in States
        BY <1>5 DEF IsFold
    <2>2. \A set \in (SUBSET (1 .. n)) \ {{}} : g[set] = Step(g[set \ {Max(set)}], Max(set))
        BY <1>5, <1>6, <2>1 DEF IsFold
    <2> HIDE DEF F
    <2>3. QED  BY <1>1, <1>5, <2>2 DEF IsFold
<1>8. Is(it)
    <2> HIDE DEF Is
    <2>1. QED  BY <1>7
<1>9. Folds(it, F, States, s, n)
    <2> HIDE DEF F, it
    <2>1. it[{}] = s
        BY <1>8
    <2>2. \A set \in (SUBSET (1 .. n)) \ {{}} : it[set] = Step(it[set \ {Max(set)}], Max(set))
        BY <1>1, <1>8
    <2>3. QED  BY <1>6, <2>1, <2>2 DEF Folds
<1> HIDE DEF it, Is
<1>10. PICK h : IsPrefixes(h, F, States, s, n) /\ h[n] = it[1 .. n]
    <2> HIDE DEF F
    <2>1. QED  BY <1>1, <1>4, <1>9, FoldSteps
<1>11. ASSUME NEW i \in 1 .. n PROVE h[i] = Step(h[i - 1], i)
    <2>1. i - 1 \in 0 .. n
        BY <1>1
    <2>2. h[i - 1] \in States
        BY <1>10, <2>1 DEF IsPrefixes
    <2>3. h[i] = F[<<h[i - 1], i>>]
        BY <1>10 DEF IsPrefixes
    <2>4. QED  BY <2>2, <2>3
<1>12. QED  BY <1>1, <1>3, <1>10, <1>11 DEF IsPrefixes, Step, n

\* The states between the names that are unbound.
LEMMA DeleteAllSteps ==
    ASSUME Tracking, NEW s \in States, NEW names \in Seq(Names)
    PROVE  \E h : /\ h \in [0 .. Len(names) -> States] /\ h[0] = s
                  /\ \A i \in 1 .. Len(names) : h[i] = DeleteSequence(h[i - 1], names[i])
                  /\ h[Len(names)] = DeleteAll(s, names)
<1> DEFINE n == Len(names)
           Step(t, i) == DeleteSequence(t, names[i])
           F == [p \in States \X (1 .. n) |-> Step(p[1], p[2])]
           Is(it) == it = [set \in SUBSET DOMAIN names |->
                             IF set = {} THEN s ELSE Step(it[set \ {Max(set)}], Max(set))]
           it == CHOOSE it : Is(it)
<1>1. n \in Nat /\ DOMAIN names = 1 .. n
    OBVIOUS
<1>2. s \in States /\ \A t \in States, i \in 1 .. n : Step(t, i) \in States
    BY DeleteTyped
<1>3. it[DOMAIN names] = DeleteAll(s, names)
    BY DEF DeleteAll, FoldLeft, MapThenFoldSet
<1> HIDE DEF Step, n
<1>4. IsStep(F, States, n)
    BY <1>2 DEF IsStep
<1>5. PICK g : IsFold(g, F, States, s, n)
    BY <1>1, <1>2, <1>4, FoldExists
<1>6. ASSUME NEW set \in (SUBSET (1 .. n)) \ {{}}, NEW f, f[set \ {Max(set)}] \in States
      PROVE  F[<<f[set \ {Max(set)}], Max(set)>>] = Step(f[set \ {Max(set)}], Max(set))
    <2>1. Max(set) \in 1 .. n
        BY <1>1, MaxOfTo
    <2>2. QED  BY <1>6, <2>1
<1>7. Is(g)
    <2>1. \A set \in (SUBSET (1 .. n)) \ {{}} : g[set \ {Max(set)}] \in States
        BY <1>5 DEF IsFold
    <2>2. \A set \in (SUBSET (1 .. n)) \ {{}} : g[set] = Step(g[set \ {Max(set)}], Max(set))
        BY <1>5, <1>6, <2>1 DEF IsFold
    <2> HIDE DEF F
    <2>3. QED  BY <1>1, <1>5, <2>2 DEF IsFold
<1>8. Is(it)
    <2> HIDE DEF Is
    <2>1. QED  BY <1>7
<1>9. Folds(it, F, States, s, n)
    <2> HIDE DEF F, it
    <2>1. it[{}] = s
        BY <1>8
    <2>2. \A set \in (SUBSET (1 .. n)) \ {{}} : it[set] = Step(it[set \ {Max(set)}], Max(set))
        BY <1>1, <1>8
    <2>3. QED  BY <1>6, <2>1, <2>2 DEF Folds
<1> HIDE DEF it, Is
<1>10. PICK h : IsPrefixes(h, F, States, s, n) /\ h[n] = it[1 .. n]
    <2> HIDE DEF F
    <2>1. QED  BY <1>1, <1>2, <1>4, <1>9, FoldSteps
<1>11. ASSUME NEW i \in 1 .. n PROVE h[i] = Step(h[i - 1], i)
    <2>1. i - 1 \in 0 .. n
        BY <1>1
    <2>2. h[i - 1] \in States
        BY <1>10, <2>1 DEF IsPrefixes
    <2>3. h[i] = F[<<h[i - 1], i>>]
        BY <1>10 DEF IsPrefixes
    <2>4. QED  BY <2>2, <2>3
<1>12. QED  BY <1>1, <1>3, <1>10, <1>11 DEF IsPrefixes, Step, n

\* The states between the names that are tied to one.
LEMMA AliasAllSteps ==
    ASSUME Tracking, NEW s \in States, NEW names \in Seq(Names), NEW source
    PROVE  \E h : /\ h \in [0 .. Len(names) -> States] /\ h[0] = s
                  /\ \A i \in 1 .. Len(names) : h[i] = AddAlias(h[i - 1], names[i], source)
                  /\ h[Len(names)] = AliasAll(s, names, source)
<1> DEFINE n == Len(names)
           Step(t, i) == AddAlias(t, names[i], source)
           F == [p \in States \X (1 .. n) |-> Step(p[1], p[2])]
           Is(it) == it = [set \in SUBSET DOMAIN names |->
                             IF set = {} THEN s ELSE Step(it[set \ {Max(set)}], Max(set))]
           it == CHOOSE it : Is(it)
<1>1. n \in Nat /\ DOMAIN names = 1 .. n
    OBVIOUS
<1>2. s \in States /\ \A t \in States, i \in 1 .. n : Step(t, i) \in States
    BY AddAliasTyped
<1>3. it[DOMAIN names] = AliasAll(s, names, source)
    BY DEF AliasAll, FoldLeft, MapThenFoldSet
<1> HIDE DEF Step, n
<1>4. IsStep(F, States, n)
    BY <1>2 DEF IsStep
<1>5. PICK g : IsFold(g, F, States, s, n)
    BY <1>1, <1>2, <1>4, FoldExists
<1>6. ASSUME NEW set \in (SUBSET (1 .. n)) \ {{}}, NEW f, f[set \ {Max(set)}] \in States
      PROVE  F[<<f[set \ {Max(set)}], Max(set)>>] = Step(f[set \ {Max(set)}], Max(set))
    <2>1. Max(set) \in 1 .. n
        BY <1>1, MaxOfTo
    <2>2. QED  BY <1>6, <2>1
<1>7. Is(g)
    <2>1. \A set \in (SUBSET (1 .. n)) \ {{}} : g[set \ {Max(set)}] \in States
        BY <1>5 DEF IsFold
    <2>2. \A set \in (SUBSET (1 .. n)) \ {{}} : g[set] = Step(g[set \ {Max(set)}], Max(set))
        BY <1>5, <1>6, <2>1 DEF IsFold
    <2> HIDE DEF F
    <2>3. QED  BY <1>1, <1>5, <2>2 DEF IsFold
<1>8. Is(it)
    <2> HIDE DEF Is
    <2>1. QED  BY <1>7
<1>9. Folds(it, F, States, s, n)
    <2> HIDE DEF F, it
    <2>1. it[{}] = s
        BY <1>8
    <2>2. \A set \in (SUBSET (1 .. n)) \ {{}} : it[set] = Step(it[set \ {Max(set)}], Max(set))
        BY <1>1, <1>8
    <2>3. QED  BY <1>6, <2>1, <2>2 DEF Folds
<1> HIDE DEF it, Is
<1>10. PICK h : IsPrefixes(h, F, States, s, n) /\ h[n] = it[1 .. n]
    <2> HIDE DEF F
    <2>1. QED  BY <1>1, <1>2, <1>4, <1>9, FoldSteps
<1>11. ASSUME NEW i \in 1 .. n PROVE h[i] = Step(h[i - 1], i)
    <2>1. i - 1 \in 0 .. n
        BY <1>1
    <2>2. h[i - 1] \in States
        BY <1>10, <2>1 DEF IsPrefixes
    <2>3. h[i] = F[<<h[i - 1], i>>]
        BY <1>10 DEF IsPrefixes
    <2>4. QED  BY <2>2, <2>3
<1>12. QED  BY <1>1, <1>3, <1>10, <1>11 DEF IsPrefixes, Step, n

\* What an assignment of a sequence, or of what is none, to names leaves.
Assigned(t, s, bound, values) ==
    /\ t \in States
    /\ DOMAIN t.known = IF values = Unresolved THEN DOMAIN s.known \ bound ELSE DOMAIN s.known \cup bound
    /\ \A m \in DOMAIN t.known : t.known[m] = IF m \in bound THEN values ELSE s.known[m]
    /\ t.aliases = {pair \in s.aliases : pair \cap bound = {}}
    /\ t.exports = IF All \notin bound THEN s.exports
                   ELSE IF values = Unresolved THEN "dynamic" ELSE "known"
    /\ t.dynamic <=> s.dynamic \/ (All \in bound /\ values = Unresolved)

LEMMA AssignOne ==
    ASSUME Tracking, NEW s \in States, NEW t, NEW bound, NEW n, NEW values \in Values \cup {Unresolved},
           Assigned(t, s, bound, values)
    PROVE  Assigned(AssignSequence(t, n, values), s, bound \cup ({n} \cap tracked), values)
<1>1. CASE n \notin tracked
    <2>1. {n} \cap tracked = {} /\ AssignSequence(t, n, values) = t
        BY <1>1 DEF AssignSequence
    <2>2. bound \cup ({n} \cap tracked) = bound
        BY <2>1
    <2>3. QED  BY <2>1, <2>2
<1>2. CASE n \in tracked
    <2> DEFINE u == AssignSequence(t, n, values)
               all == bound \cup {n}
    <2>1. t \in States
        BY DEF Assigned
    <2>2. /\ u \in States
          /\ u.known = IF values = Unresolved THEN Forget(t, n) ELSE Learn(t, n, values)
          /\ u.aliases = BreakAlias(t, n)
          /\ u.exports = IF n # All THEN t.exports
                         ELSE IF values = Unresolved THEN "dynamic" ELSE "known"
          /\ u.dynamic <=> t.dynamic \/ (n = All /\ values = Unresolved)
        BY <1>2, <2>1, AssignIs
    <2> HIDE DEF u
    <2>3. /\ DOMAIN u.known = IF values = Unresolved THEN DOMAIN s.known \ all ELSE DOMAIN s.known \cup all
          /\ \A m \in DOMAIN u.known : u.known[m] = IF m \in all THEN values ELSE s.known[m]
        <3>1. CASE values = Unresolved
            BY <2>2, <3>1 DEF Forget, Assigned
        <3>2. CASE values # Unresolved
            BY <2>2, <3>2 DEF Learn, Assigned
        <3>3. QED  BY <3>1, <3>2
    <2>4. u.aliases = {pair \in s.aliases : pair \cap all = {}}
        BY <2>2 DEF BreakAlias, Assigned
    <2>5. /\ u.exports = IF All \notin all THEN s.exports
                         ELSE IF values = Unresolved THEN "dynamic" ELSE "known"
          /\ u.dynamic <=> s.dynamic \/ (All \in all /\ values = Unresolved)
        BY <2>2 DEF Assigned
    <2>6. Assigned(u, s, all, values)
        BY <2>2, <2>3, <2>4, <2>5 DEF Assigned
    <2>7. bound \cup ({n} \cap tracked) = all
        BY <1>2
    <2>8. QED  BY <2>6, <2>7 DEF u
<1>3. QED  BY <1>1, <1>2

LEMMA AssignNone ==
    ASSUME NEW s \in States, NEW values
    PROVE  Assigned(s, s, {}, values)
BY DEF Assigned

LEMMA AssignAllIs ==
    ASSUME Tracking, NEW s \in States, NEW names \in Seq(Names), NEW values \in Values \cup {Unresolved}
    PROVE  Assigned(AssignAll(s, names, values), s, Range(names) \cap tracked, values)
<1> DEFINE n == Len(names)
           bound(i) == {names[j] : j \in 1 .. i} \cap tracked
<1>1. PICK h : /\ h \in [0 .. n -> States] /\ h[0] = s
               /\ \A i \in 1 .. n : h[i] = AssignSequence(h[i - 1], names[i], values)
               /\ h[n] = AssignAll(s, names, values)
    BY AssignAllSteps
<1>2. n \in Nat /\ Range(names) \cap tracked = bound(n)
    BY DEF Range
<1> DEFINE good == {i \in 0 .. n : Assigned(h[i], s, bound(i), values)}
<1>3. 0 \in good
    <2>1. bound(0) = {} /\ Assigned(s, s, {}, values)
        BY AssignNone
    <2> HIDE DEF bound, n
    <2>2. QED  BY <1>1, <1>2, <2>1
<1>4. ASSUME NEW i \in 1 .. n, i - 1 \in good PROVE i \in good
    <2>1. Assigned(h[i - 1], s, bound(i - 1), values)
        BY <1>4
    <2>2. Assigned(h[i], s, bound(i - 1) \cup ({names[i]} \cap tracked), values)
        <3> HIDE DEF bound
        <3>1. QED  BY <1>1, <2>1, AssignOne
    <2>3. bound(i - 1) \cup ({names[i]} \cap tracked) = bound(i)
        <3>1. 1 .. i = (1 .. (i - 1)) \cup {i}
            BY <1>2
        <3>2. QED  BY <3>1
    <2> HIDE DEF bound, n
    <2>4. i \in 0 .. n
        BY <1>2
    <2>5. QED  BY <2>2, <2>3, <2>4
<1> HIDE DEF good, n
<1>5. 0 .. n \subseteq good
    BY <1>2, <1>3, <1>4, Steps
<1>6. n \in good
    BY <1>2, <1>5
<1>7. QED  BY <1>1, <1>2, <1>6 DEF good

\* What is left when names are unbound.
Deleted(t, s, bound) ==
    /\ t \in States
    /\ DOMAIN t.known = DOMAIN s.known \ bound
    /\ \A m \in DOMAIN t.known : t.known[m] = s.known[m]
    /\ t.aliases = {pair \in s.aliases : pair \cap bound = {}}
    /\ t.exports = IF All \notin bound THEN s.exports ELSE "missing"
    /\ t.dynamic <=> s.dynamic

LEMMA DeleteOne ==
    ASSUME Tracking, NEW s \in States, NEW t, NEW bound, NEW n, Deleted(t, s, bound)
    PROVE  Deleted(DeleteSequence(t, n), s, bound \cup ({n} \cap tracked))
<1>1. CASE n \notin tracked
    <2>1. {n} \cap tracked = {} /\ DeleteSequence(t, n) = t
        BY <1>1 DEF DeleteSequence
    <2>2. bound \cup ({n} \cap tracked) = bound
        BY <2>1
    <2>3. QED  BY <2>1, <2>2
<1>2. CASE n \in tracked
    <2> DEFINE u == DeleteSequence(t, n)
    <2>1. t \in States
        BY DEF Deleted
    <2>2. /\ u \in States
          /\ u.known = Forget(t, n)
          /\ u.aliases = BreakAlias(t, n)
          /\ u.exports = IF n = All THEN "missing" ELSE t.exports
          /\ u.dynamic = t.dynamic
        BY <1>2, <2>1, DeleteIs
    <2> HIDE DEF u
    <2>3. Deleted(u, s, bound \cup {n})
        BY <2>2 DEF Deleted, Forget, BreakAlias
    <2>4. bound \cup ({n} \cap tracked) = bound \cup {n}
        BY <1>2
    <2>5. QED  BY <2>3, <2>4 DEF u
<1>3. QED  BY <1>1, <1>2

LEMMA DeleteAllIs ==
    ASSUME Tracking, NEW s \in States, NEW names \in Seq(Names)
    PROVE  Deleted(DeleteAll(s, names), s, Range(names) \cap tracked)
<1> DEFINE n == Len(names)
           bound(i) == {names[j] : j \in 1 .. i} \cap tracked
<1>1. PICK h : /\ h \in [0 .. n -> States] /\ h[0] = s
               /\ \A i \in 1 .. n : h[i] = DeleteSequence(h[i - 1], names[i])
               /\ h[n] = DeleteAll(s, names)
    BY DeleteAllSteps
<1>2. n \in Nat /\ Range(names) \cap tracked = bound(n)
    BY DEF Range
<1> DEFINE good == {i \in 0 .. n : Deleted(h[i], s, bound(i))}
<1>3. 0 \in good
    <2>1. bound(0) = {} /\ Deleted(s, s, {})
        BY DEF Deleted
    <2> HIDE DEF bound, n
    <2>2. QED  BY <1>1, <1>2, <2>1
<1>4. ASSUME NEW i \in 1 .. n, i - 1 \in good PROVE i \in good
    <2>1. Deleted(h[i - 1], s, bound(i - 1))
        BY <1>4
    <2>2. Deleted(h[i], s, bound(i - 1) \cup ({names[i]} \cap tracked))
        <3> HIDE DEF bound
        <3>1. QED  BY <1>1, <2>1, DeleteOne
    <2>3. bound(i - 1) \cup ({names[i]} \cap tracked) = bound(i)
        <3>1. 1 .. i = (1 .. (i - 1)) \cup {i}
            BY <1>2
        <3>2. QED  BY <3>1
    <2> HIDE DEF bound, n
    <2>4. i \in 0 .. n
        BY <1>2
    <2>5. QED  BY <2>2, <2>3, <2>4
<1> HIDE DEF good, n
<1>5. 0 .. n \subseteq good
    BY <1>2, <1>3, <1>4, Steps
<1>6. n \in good
    BY <1>2, <1>5
<1>7. QED  BY <1>1, <1>2, <1>6 DEF good

\* A state with more pairs.
Tied(t, s) ==
    /\ t \in States
    /\ t.known = s.known /\ t.exports = s.exports /\ t.dynamic = s.dynamic
    /\ s.aliases \subseteq t.aliases

LEMMA TieOne ==
    ASSUME Tracking, NEW s \in States, NEW t, Tied(t, s), NEW left, NEW right
    PROVE  /\ Tied(AddAlias(t, left, right), s)
           /\ t.aliases \subseteq AddAlias(t, left, right).aliases
           /\ left \in tracked /\ right \in tracked /\ left # right
                 => {left, right} \in AddAlias(t, left, right).aliases
<1>1. t \in States
    BY DEF Tied
<1>2. CASE left = right \/ ~({left, right} \subseteq tracked)
    BY <1>2 DEF AddAlias
<1>3. CASE left # right /\ left \in tracked /\ right \in tracked
    <2> DEFINE u == AddAlias(t, left, right)
               group == Aliases(t, left) \cup Aliases(t, right)
    <2>1. /\ u \in States
          /\ u.known = t.known /\ u.exports = t.exports /\ u.dynamic = t.dynamic
          /\ u.aliases = t.aliases \cup PairsOf(group)
        BY <1>1, <1>3, AddAliasIs
    <2>2. left \in group /\ right \in group
        BY DEF Aliases
    <2>3. {left, right} \in PairsOf(group)
        BY <1>3, <2>2, PairIn
    <2> HIDE DEF u, group
    <2>4. Tied(u, s) /\ t.aliases \subseteq u.aliases /\ {left, right} \in u.aliases
        BY <2>1, <2>3 DEF Tied
    <2>5. QED  BY <2>4 DEF u
<1>4. QED  BY <1>2, <1>3

LEMMA AliasAllIs ==
    ASSUME Tracking, NEW s \in States, NEW names \in Seq(Names), NEW source
    PROVE  LET t == AliasAll(s, names, source)
           IN  /\ Tied(t, s)
               /\ \A n \in Range(names) :
                     n \in tracked /\ source \in tracked /\ n # source => {n, source} \in t.aliases
<1> DEFINE n == Len(names)
           end == AliasAll(s, names, source)
<1>1. PICK h : /\ h \in [0 .. n -> States] /\ h[0] = s
               /\ \A i \in 1 .. n : h[i] = AddAlias(h[i - 1], names[i], source)
               /\ h[n] = end
    BY AliasAllSteps
<1> DEFINE To(i) == \A j \in 1 .. i :
                       names[j] \in tracked /\ source \in tracked /\ names[j] # source
                          => {names[j], source} \in h[i].aliases
           good == {i \in 0 .. n : Tied(h[i], s) /\ To(i)}
<1>2. n \in Nat
    OBVIOUS
<1>3. 0 \in good
    <2>1. Tied(s, s)
        BY DEF Tied
    <2>2. To(0)
        BY <1>2
    <2> HIDE DEF To
    <2>3. QED  BY <1>1, <1>2, <2>1, <2>2
<1>4. ASSUME NEW i \in 1 .. n, i - 1 \in good PROVE i \in good
    <2>1. Tied(h[i - 1], s) /\ To(i - 1)
        BY <1>4
    <2>2. /\ Tied(h[i], s)
          /\ h[i - 1].aliases \subseteq h[i].aliases
          /\ names[i] \in tracked /\ source \in tracked /\ names[i] # source
                => {names[i], source} \in h[i].aliases
        BY <1>1, <2>1, TieOne
    <2>3. \A j \in 1 .. i : j = i \/ j \in 1 .. (i - 1)
        BY <1>2
    <2>4. To(i)
        BY <2>1, <2>2, <2>3
    <2> HIDE DEF To
    <2>5. QED  BY <1>2, <2>2, <2>4
<1> HIDE DEF good, n
<1>5. 0 .. n \subseteq good
    BY <1>2, <1>3, <1>4, Steps
<1>6. n \in good
    BY <1>2, <1>5
<1>7. Tied(h[n], s) /\ To(n)
    BY <1>6 DEF good
<1>8. \A m \in Range(names) : \E j \in 1 .. n : m = names[j]
    BY DEF Range, n
<1>9. \A m \in Range(names) :
         m \in tracked /\ source \in tracked /\ m # source => {m, source} \in h[n].aliases
    BY <1>7, <1>8
<1> HIDE DEF To, end
<1>10. Tied(end, s) /\ \A m \in Range(names) :
         m \in tracked /\ source \in tracked /\ m # source => {m, source} \in end.aliases
    BY <1>1, <1>7, <1>9
<1>11. QED  BY <1>10 DEF end

LEMMA AliasTargetsIs ==
    ASSUME Tracking, NEW s \in States, NEW names \in Seq(Names), names # << >>, NEW e
    PROVE  LET t == AliasTargets(s, names, e)
           IN  /\ Tied(t, s)
               /\ names[1] \in tracked =>
                     \A m, n \in Range(names) :
                        m \in tracked /\ n \in tracked /\ m # n => {m, n} \in t.aliases
               /\ e.kind = "name" =>
                     \A n \in Range(names) :
                        n \in tracked /\ e.names[1] \in tracked /\ n # e.names[1]
                           => {n, e.names[1]} \in t.aliases
<1> DEFINE u == IF e.kind = "name" THEN AliasAll(s, names, e.names[1]) ELSE s
           t == AliasTargets(s, names, e)
           first == names[1]
<1>1. /\ Tied(u, s)
      /\ e.kind = "name" =>
            \A n \in Range(names) :
               n \in tracked /\ e.names[1] \in tracked /\ n # e.names[1] => {n, e.names[1]} \in u.aliases
    <2>1. CASE e.kind = "name"
        BY <2>1, AliasAllIs
    <2>2. CASE e.kind # "name"
        BY <2>2 DEF Tied
    <2>3. QED  BY <2>1, <2>2
<1>2. /\ Tail(names) \in Seq(Names)
      /\ \A n \in Range(names) : n = first \/ n \in Range(Tail(names))
      /\ first \in Range(names)
    <2>1. ASSUME NEW i \in 1 .. Len(names), i # 1 PROVE names[i] \in Range(Tail(names))
        <3>1. /\ i - 1 \in 1 .. Len(Tail(names)) /\ Tail(names)[i - 1] = names[i]
              /\ Tail(names) \in Seq(Names) /\ DOMAIN Tail(names) = 1 .. Len(Tail(names))
            BY <2>1
        <3> DEFINE tail == Tail(names)
        <3>2. i - 1 \in DOMAIN tail /\ tail[i - 1] = names[i]
            BY <3>1
        <3> HIDE DEF tail
        <3>3. names[i] \in Range(tail)
            BY <3>2 DEF Range
        <3>4. QED  BY <3>3 DEF tail
    <2>2. \A n \in Range(names) : \E i \in 1 .. Len(names) : n = names[i]
        BY DEF Range
    <2>3. Tail(names) \in Seq(Names) /\ 1 \in 1 .. Len(names) /\ DOMAIN names = 1 .. Len(names)
        OBVIOUS
    <2>4. QED  BY <2>1, <2>2, <2>3 DEF Range
<1>3. t = AliasAll(u, Tail(names), first)
    BY DEF AliasTargets
<1> HIDE DEF u, t, first
<1>4. /\ Tied(t, u)
      /\ \A n \in Range(Tail(names)) :
            n \in tracked /\ first \in tracked /\ n # first => {n, first} \in t.aliases
    <2>1. u \in States
        BY <1>1 DEF Tied
    <2>2. QED  BY <1>2, <1>3, <2>1, AliasAllIs
<1>5. Tied(t, s) /\ WellPaired(t.aliases) /\ u.aliases \subseteq t.aliases
    BY <1>1, <1>4, StateIs DEF Tied
<1>6. ASSUME first \in tracked, NEW m \in Range(names), NEW n \in Range(names), m \in tracked, n \in tracked, m # n
      PROVE  {m, n} \in t.aliases
    <2>1. CASE m = first \/ n = first
        <3>1. first \in tracked /\ {m, n} = {n, m}
            BY <1>6, <2>1
        <3>2. QED  BY <1>2, <1>4, <1>6, <2>1, <3>1
    <2>2. CASE m # first /\ n # first
        <3>1. {m, first} \in t.aliases /\ {n, first} \in t.aliases
            BY <1>2, <1>4, <1>6, <2>2
        <3>2. {first, n} = {n, first}
            OBVIOUS
        <3>3. QED  BY <1>5, <1>6, <3>1, <3>2 DEF WellPaired
    <2>3. QED  BY <2>1, <2>2
<1>7. QED  BY <1>1, <1>5, <1>6 DEF t, first

LEMMA ExpressionIs ==
    ASSUME NEW e \in Expressions
    PROVE  /\ e.kind \in {"seq", "name", "pair", "call", "other"}
           /\ e.names \in Seq(Names) /\ e.parts \in Seq(Names \cup Strings)
           /\ Range(e.parts) \cap Names \subseteq References(e)
           /\ e.kind = "name" => Len(e.names) = 1
           /\ e.kind = "pair" => Len(e.names) = 2
           /\ e.kind = "other" => Len(e.names) = 0
           /\ e.kind = "call" => e.names # << >>
BY DEF Expressions

LEMMA RangeIs ==
    ASSUME NEW S, NEW seq \in Seq(S)
    PROVE  /\ Range(seq) \subseteq S
           /\ \A i \in 1 .. Len(seq) : seq[i] \in Range(seq)
           /\ \A x \in Range(seq) : \E i \in 1 .. Len(seq) : x = seq[i]
<1>1. DOMAIN seq = 1 .. Len(seq) /\ \A i \in 1 .. Len(seq) : seq[i] \in S
    OBVIOUS
<1>2. QED  BY <1>1 DEF Range

LEMMA ResolveTyped ==
    ASSUME NEW known \in Known, NEW e \in Expressions
    PROVE  Resolve(e, known) \in Values \cup {Unresolved}
<1>1. \A n \in DOMAIN known : known[n] \in Values
    BY KnownIs
<1>2. CASE e.kind = "name"
    BY <1>1, <1>2 DEF Resolve
<1>3. CASE e.kind = "seq" /\ References(e) \subseteq DOMAIN known
    <2> DEFINE seqs == [i \in DOMAIN e.parts |->
                           IF e.parts[i] \in Names THEN known[e.parts[i]] ELSE <<e.parts[i]>>]
    <2>1. e.parts \in Seq(Names \cup Strings) /\ Range(e.parts) \cap Names \subseteq References(e)
        BY ExpressionIs
    <2>2. ASSUME NEW i \in 1 .. Len(e.parts)
          PROVE  (IF e.parts[i] \in Names THEN known[e.parts[i]] ELSE <<e.parts[i]>>) \in Values
        <3>1. e.parts[i] \in Names \cup Strings /\ e.parts[i] \in Range(e.parts)
            BY <2>1, RangeIs
        <3>2. CASE e.parts[i] \in Names
            BY <1>1, <1>3, <2>1, <3>1, <3>2
        <3>3. CASE e.parts[i] \notin Names
            BY <3>1, <3>3 DEF Values
        <3>4. QED  BY <3>2, <3>3
    <2>3. DOMAIN e.parts = 1 .. Len(e.parts) /\ Len(e.parts) \in Nat
        BY <2>1
    <2>4. seqs \in Seq(Values)
        BY <2>2, <2>3
    <2>5. Resolve(e, known) = FlattenSeq(seqs)
        BY <1>3 DEF Resolve
    <2> HIDE DEF seqs
    <2>6. QED  BY <2>4, <2>5, FlattenTyped DEF Values
<1>4. CASE e.kind # "name" /\ ~(e.kind = "seq" /\ References(e) \subseteq DOMAIN known)
    BY <1>4 DEF Resolve
<1>5. QED  BY <1>2, <1>3, <1>4

\* What a statement without a body does to a state, by its operation.
LEMMA SimpleIs ==
    ASSUME NEW s, NEW st, IsSimple(st)
    PROVE  /\ st.op \in {"assign", "unpack", "item", "aug", "call"} /\ HasEffect(st.value)
                 => Simple(s, st) = MarkDynamic(s)
           /\ st.op = "assign" /\ ~HasEffect(st.value)
                 => Simple(s, st) = AliasTargets(AssignAll(s, st.names, Resolve(st.value, s.known)),
                                                 st.names, st.value)
           /\ st.op = "unpack" /\ ~HasEffect(st.value)
                 => Simple(s, st) = AssignAll(s, st.names, Resolve(st.value, s.known))
           /\ st.op = "item" /\ ~HasEffect(st.value)
                 => Simple(s, st) = IF References(st.value) \cup Range(st.names) \subseteq Names \ tracked
                                    THEN s ELSE MarkDynamic(s)
           /\ st.op = "aug" /\ ~HasEffect(st.value)
                 => Simple(s, st) = IF IsAliased(s, st.names[1]) THEN MarkDynamic(s)
                                    ELSE Extended(s, st.names[1], st.value)
           /\ st.op = "call" /\ ~HasEffect(st.value) => Simple(s, st) = s
           /\ st.op \in {"append", "extend", "method"} /\ st.names[1] \notin tracked
                 => Simple(s, st) = IF References(st.value) \cap tracked = {} THEN s ELSE MarkDynamic(s)
           /\ (/\ st.op \in {"append", "extend", "method"} /\ st.names[1] \in tracked
               /\ st.op = "method" \/ IsAliased(s, st.names[1]) \/ HasEffect(st.value))
                 => Simple(s, st) = MarkDynamic(s)
           /\ (/\ st.op \in {"append", "extend"} /\ st.names[1] \in tracked
               /\ ~IsAliased(s, st.names[1]) /\ ~HasEffect(st.value))
                 => Simple(s, st) = IF st.op = "append" THEN Appended(s, st.names[1], st.value)
                                    ELSE Extended(s, st.names[1], st.value)
           /\ st.op \in {"declare", "import", "def"} => Simple(s, st) = AssignAll(s, st.names, Unresolved)
           /\ st.op = "delete" => Simple(s, st) = DeleteAll(s, st.names)
           /\ st.op = "delitem" => Simple(s, st) = IF st.names[1] \in tracked THEN MarkDynamic(s) ELSE s
           /\ st.op \in {"withimport", "nested"} => Simple(s, st) = s
<1> USE DEF Simple
<1>1. st.op \in {"assign", "unpack", "item", "aug", "call"} /\ HasEffect(st.value)
         => Simple(s, st) = MarkDynamic(s)
    OBVIOUS
<1>2. st.op = "assign" /\ ~HasEffect(st.value)
         => Simple(s, st) = AliasTargets(AssignAll(s, st.names, Resolve(st.value, s.known)),
                                         st.names, st.value)
    OBVIOUS
<1>3. st.op = "unpack" /\ ~HasEffect(st.value)
         => Simple(s, st) = AssignAll(s, st.names, Resolve(st.value, s.known))
    OBVIOUS
<1>4. st.op = "item" /\ ~HasEffect(st.value)
         => Simple(s, st) = IF References(st.value) \cup Range(st.names) \subseteq Names \ tracked
                            THEN s ELSE MarkDynamic(s)
    OBVIOUS
<1>5. st.op = "aug" /\ ~HasEffect(st.value)
         => Simple(s, st) = IF IsAliased(s, st.names[1]) THEN MarkDynamic(s)
                            ELSE Extended(s, st.names[1], st.value)
    OBVIOUS
<1>6. st.op = "call" /\ ~HasEffect(st.value) => Simple(s, st) = s
    OBVIOUS
<1>7. st.op \in {"append", "extend", "method"} /\ st.names[1] \notin tracked
         => Simple(s, st) = IF References(st.value) \cap tracked = {} THEN s ELSE MarkDynamic(s)
    OBVIOUS
<1>8. (/\ st.op \in {"append", "extend", "method"} /\ st.names[1] \in tracked
       /\ st.op = "method" \/ IsAliased(s, st.names[1]) \/ HasEffect(st.value))
         => Simple(s, st) = MarkDynamic(s)
    OBVIOUS
<1>9. (/\ st.op \in {"append", "extend"} /\ st.names[1] \in tracked
       /\ ~IsAliased(s, st.names[1]) /\ ~HasEffect(st.value))
         => Simple(s, st) = IF st.op = "append" THEN Appended(s, st.names[1], st.value)
                            ELSE Extended(s, st.names[1], st.value)
    OBVIOUS
<1>10. st.op \in {"declare", "import", "def"} => Simple(s, st) = AssignAll(s, st.names, Unresolved)
    OBVIOUS
<1>11. st.op = "delete" => Simple(s, st) = DeleteAll(s, st.names)
    OBVIOUS
<1>12. st.op = "delitem" => Simple(s, st) = IF st.names[1] \in tracked THEN MarkDynamic(s) ELSE s
    OBVIOUS
<1>13. st.op \in {"withimport", "nested"} => Simple(s, st) = s
    OBVIOUS
<1> HIDE DEF Simple
<1>14. QED  BY <1>1, <1>2, <1>3, <1>4, <1>5, <1>6, <1>7, <1>8, <1>9, <1>10, <1>11, <1>12, <1>13

LEMMA ExtendedTyped ==
    ASSUME Tracking, NEW s \in States, NEW n \in Names, NEW e \in Expressions
    PROVE  Extended(s, n, e) \in States /\ Appended(s, n, e) \in States
<1>1. ASSUME NEW more \in Values \cup {Unresolved}
      PROVE  ExtendedBy(s, n, more) \in States
    <2>1. CASE n \in DOMAIN s.known /\ more # Unresolved
        <3>1. s.known[n] \in Values /\ more \in Values
            BY <2>1, StateIs, KnownIs
        <3>2. s.known[n] \o more \in Values
            BY <3>1 DEF Values
        <3>3. ExtendedBy(s, n, more) = AssignSequence(s, n, s.known[n] \o more)
            BY <2>1 DEF ExtendedBy
        <3>4. QED  BY <3>2, <3>3, AssignTyped
    <2>2. CASE ~(n \in DOMAIN s.known /\ more # Unresolved)
        BY <2>2, MarkTyped DEF ExtendedBy
    <2>3. QED  BY <2>1, <2>2
<1>2. s.known \in Known
    BY StateIs
<1>3. QED  BY <1>1, <1>2, ResolveTyped DEF Extended, Appended

LEMMA SimpleTyped ==
    ASSUME Tracking, NEW s \in States, NEW st, IsSimple(st)
    PROVE  Simple(s, st) \in States
<1>1. /\ st.op \in Valueless \cup Valued
      /\ st.names \in Seq(Names) /\ st.value \in Expressions /\ Len(st.names) \in NamesOf(st.op)
    BY DEF IsSimple
<1>2. /\ MarkDynamic(s) \in States
      /\ AssignAll(s, st.names, Unresolved) \in States
      /\ DeleteAll(s, st.names) \in States
    BY <1>1, MarkTyped, AssignAllIs, DeleteAllIs DEF Assigned, Deleted
<1>3. AssignAll(s, st.names, Resolve(st.value, s.known)) \in States
    <2>1. Resolve(st.value, s.known) \in Values \cup {Unresolved}
        BY <1>1, StateIs, ResolveTyped
    <2>2. QED  BY <1>1, <2>1, AssignAllIs DEF Assigned
<1>4. ASSUME st.op = "assign"
      PROVE  AliasTargets(AssignAll(s, st.names, Resolve(st.value, s.known)), st.names, st.value) \in States
    <2>1. st.names # << >>
        BY <1>1, <1>4 DEF NamesOf
    <2>2. QED  BY <1>1, <1>3, <2>1, AliasTargetsIs DEF Tied
<1>5. ASSUME st.op \in {"aug", "append", "extend"}
      PROVE  Extended(s, st.names[1], st.value) \in States /\ Appended(s, st.names[1], st.value) \in States
    <2>1. st.names[1] \in Names
        BY <1>1, <1>5 DEF NamesOf
    <2>2. QED  BY <1>1, <2>1, ExtendedTyped
<1>6. QED
    <2>1. CASE st.op \in {"assign", "unpack", "item", "aug", "call"} /\ HasEffect(st.value)
        BY <1>2, <2>1, SimpleIs
    <2>2. CASE st.op = "assign" /\ ~HasEffect(st.value)
        BY <1>4, <2>2, SimpleIs
    <2>3. CASE st.op = "unpack" /\ ~HasEffect(st.value)
        BY <1>3, <2>3, SimpleIs
    <2>4. CASE st.op = "item" /\ ~HasEffect(st.value)
        BY <1>2, <2>4, SimpleIs
    <2>5. CASE st.op = "aug" /\ ~HasEffect(st.value)
        BY <1>2, <1>5, <2>5, SimpleIs
    <2>6. CASE st.op = "call" /\ ~HasEffect(st.value)
        BY <2>6, SimpleIs
    <2>7. CASE st.op \in {"append", "extend", "method"}
        <3>1. CASE st.names[1] \notin tracked
            BY <1>2, <2>7, <3>1, SimpleIs
        <3>2. CASE st.names[1] \in tracked
                   /\ (st.op = "method" \/ IsAliased(s, st.names[1]) \/ HasEffect(st.value))
            BY <1>2, <2>7, <3>2, SimpleIs
        <3>3. CASE st.names[1] \in tracked
                   /\ ~(st.op = "method" \/ IsAliased(s, st.names[1]) \/ HasEffect(st.value))
            BY <1>5, <2>7, <3>3, SimpleIs
        <3>4. QED  BY <3>1, <3>2, <3>3
    <2>8. CASE st.op \in {"declare", "import", "def", "delete", "delitem", "withimport", "nested"}
        BY <1>2, <2>8, SimpleIs
    <2>9. QED  BY <1>1, <2>1, <2>2, <2>3, <2>4, <2>5, <2>6, <2>7, <2>8 DEF Valueless, Valued

-----------------------------------------------------------------------------
(* Suites and compound statements. *)

Results == [states : SUBSET States, failed : BOOLEAN]

LEMMA ResultIs ==
    ASSUME NEW ss \in SUBSET States
    PROVE  /\ Sound(ss) \in Results /\ Error \in Results /\ Error.failed /\ Error.states = {}
           /\ Sound(ss).states = ss /\ ~Sound(ss).failed
           /\ Bounded(ss) \in Results
           /\ ~Bounded(ss).failed => Bounded(ss).states = ss
           /\ Cardinality(Bounded(ss).states) <= MaxStates
           /\ Bounded(ss) # Error => Bounded(ss) = Sound(ss)
BY LimitAssumption, FS_EmptySet DEF Results, Sound, Error, Bounded

LEMMA SimpleStepIs ==
    ASSUME Tracking, NEW r \in Results, NEW st, IsSimple(st)
    PROVE  /\ SimpleStep(r, st) \in Results
           /\ ~SimpleStep(r, st).failed =>
                 ~r.failed /\ SimpleStep(r, st).states = {Simple(s, st) : s \in r.states}
           /\ Cardinality(SimpleStep(r, st).states) <= MaxStates
<1>1. {Simple(s, st) : s \in r.states} \in SUBSET States
    BY SimpleTyped DEF Results
<1>2. SimpleStep(r, st) = IF r.failed THEN Error ELSE Bounded({Simple(s, st) : s \in r.states})
    BY DEF SimpleStep, Then
<1>3. QED
    <2> DEFINE after == {Simple(s, st) : s \in r.states}
    <2>1. after \in SUBSET States /\ SimpleStep(r, st) = IF r.failed THEN Error ELSE Bounded(after)
        BY <1>1, <1>2
    <2> HIDE DEF after
    <2>2. /\ Error \in Results /\ Error.failed
          /\ Bounded(after) \in Results
          /\ ~Bounded(after).failed => Bounded(after).states = after
          /\ Cardinality(Bounded(after).states) <= MaxStates
          /\ Cardinality(Error.states) <= MaxStates
        BY <2>1, ResultIs, LimitAssumption, FS_EmptySet
    <2>3. QED  BY <2>1, <2>2 DEF after

LEMMA MemberOf ==
    ASSUME NEW seq, seq \in Seq(Range(seq))
    PROVE  Len(seq) \in Nat /\ DOMAIN seq = 1 .. Len(seq) /\ \A i \in 1 .. Len(seq) : seq[i] \in Range(seq)
<1>1. Len(seq) \in Nat /\ DOMAIN seq = 1 .. Len(seq) /\ \A i \in 1 .. Len(seq) : seq[i] \in Range(seq)
    OBVIOUS
<1>2. QED  BY <1>1

IsSimpleSuite(suite) == suite \in Seq(Range(suite)) /\ \A st \in Range(suite) : IsSimple(st)

\* The results between the statements of a suite without compound statements.
LEMMA SimpleSuiteSteps ==
    ASSUME Tracking, NEW ss \in SUBSET States, NEW suite, IsSimpleSuite(suite)
    PROVE  \E h : /\ h \in [0 .. Len(suite) -> Results] /\ h[0] = Sound(ss)
                  /\ \A i \in 1 .. Len(suite) : h[i] = SimpleStep(h[i - 1], suite[i])
                  /\ h[Len(suite)] = SimpleSuite(ss, suite)
<1> DEFINE n == Len(suite)
           Step(t, i) == SimpleStep(t, suite[i])
           F == [p \in Results \X (1 .. n) |-> Step(p[1], p[2])]
           Is(it) == it = [set \in SUBSET DOMAIN suite |->
                             IF set = {} THEN Sound(ss) ELSE Step(it[set \ {Max(set)}], Max(set))]
           it == CHOOSE it : Is(it)
<1>1. n \in Nat /\ DOMAIN suite = 1 .. n
    BY MemberOf DEF IsSimpleSuite
<1>2. Sound(ss) \in Results /\ \A t \in Results, i \in 1 .. n : Step(t, i) \in Results
    <2>1. \A i \in 1 .. n : IsSimple(suite[i])
        BY <1>1, MemberOf DEF IsSimpleSuite
    <2>2. QED  BY <2>1, SimpleStepIs, ResultIs
<1>3. it[DOMAIN suite] = SimpleSuite(ss, suite)
    BY DEF SimpleSuite, FoldLeft, MapThenFoldSet
<1> HIDE DEF Step, n
<1>4. IsStep(F, Results, n)
    BY <1>2 DEF IsStep
<1>5. PICK g : IsFold(g, F, Results, Sound(ss), n)
    BY <1>1, <1>2, <1>4, FoldExists
<1>6. ASSUME NEW set \in (SUBSET (1 .. n)) \ {{}}, NEW f, f[set \ {Max(set)}] \in Results
      PROVE  F[<<f[set \ {Max(set)}], Max(set)>>] = Step(f[set \ {Max(set)}], Max(set))
    <2>1. Max(set) \in 1 .. n
        BY <1>1, MaxOfTo
    <2>2. QED  BY <1>6, <2>1
<1>7. Is(g)
    <2>1. \A set \in (SUBSET (1 .. n)) \ {{}} : g[set \ {Max(set)}] \in Results
        BY <1>5 DEF IsFold
    <2>2. \A set \in (SUBSET (1 .. n)) \ {{}} : g[set] = Step(g[set \ {Max(set)}], Max(set))
        BY <1>5, <1>6, <2>1 DEF IsFold
    <2> HIDE DEF F
    <2>3. QED  BY <1>1, <1>5, <2>2 DEF IsFold
<1>8. Is(it)
    <2> HIDE DEF Is
    <2>1. QED  BY <1>7
<1>9. Folds(it, F, Results, Sound(ss), n)
    <2> HIDE DEF F, it
    <2>1. it[{}] = Sound(ss)
        BY <1>8
    <2>2. \A set \in (SUBSET (1 .. n)) \ {{}} : it[set] = Step(it[set \ {Max(set)}], Max(set))
        BY <1>1, <1>8
    <2>3. QED  BY <1>6, <2>1, <2>2 DEF Folds
<1> HIDE DEF it, Is
<1>10. PICK h : IsPrefixes(h, F, Results, Sound(ss), n) /\ h[n] = it[1 .. n]
    <2> HIDE DEF F
    <2>1. QED  BY <1>1, <1>2, <1>4, <1>9, FoldSteps
<1>11. ASSUME NEW i \in 1 .. n PROVE h[i] = Step(h[i - 1], i)
    <2>1. i - 1 \in 0 .. n
        BY <1>1
    <2>2. h[i - 1] \in Results
        BY <1>10, <2>1 DEF IsPrefixes
    <2>3. h[i] = F[<<h[i - 1], i>>]
        BY <1>10 DEF IsPrefixes
    <2>4. QED  BY <2>2, <2>3
<1>12. QED  BY <1>1, <1>3, <1>10, <1>11 DEF IsPrefixes, Step, n

\* The last result is typed, and bounded when anything was done.
LEMMA SimpleSuiteTyped ==
    ASSUME Tracking, NEW ss \in SUBSET States, NEW suite, IsSimpleSuite(suite)
    PROVE  SimpleSuite(ss, suite) \in Results
<1>1. PICK h : h \in [0 .. Len(suite) -> Results] /\ h[Len(suite)] = SimpleSuite(ss, suite)
    BY SimpleSuiteSteps
<1>2. Len(suite) \in 0 .. Len(suite)
    BY MemberOf DEF IsSimpleSuite
<1>3. QED  BY <1>1, <1>2

LEMMA JoinIs ==
    ASSUME NEW first \in Results, NEW second \in Results
    PROVE  /\ Join(first, second) \in Results
           /\ ~Join(first, second).failed =>
                 /\ ~first.failed /\ ~second.failed
                 /\ Join(first, second).states = first.states \cup second.states
BY ResultIs DEF Join, Results

Clausing == [completed : Results, remaining : SUBSET States]

LEMMA ReachClauseTyped ==
    ASSUME Tracking, NEW ss \in SUBSET States, NEW clause
    PROVE  ReachClause(ss, clause) \in SUBSET States
BY MarkTyped DEF ReachClause

LEMMA ClauseTyped ==
    ASSUME Tracking, NEW r \in Clausing, NEW clause, IsClause(clause)
    PROVE  Clause(r, clause) \in Clausing
<1> DEFINE reach == ReachClause(r.remaining, clause)
           done == SimpleSuite(reach, clause.body)
<1>1. r.completed \in Results /\ reach \in SUBSET States
    BY ReachClauseTyped DEF Clausing
<1>2. done \in Results
    BY <1>1, SimpleSuiteTyped DEF IsClause, IsSimpleSuite
<1>3. Clause(r, clause) = [completed |-> IF clause.test = "false" THEN r.completed ELSE Join(r.completed, done),
                           remaining |-> IF clause.test \in {"true", "else"} THEN {} ELSE reach]
    BY DEF Clause, ClauseOf
<1> HIDE DEF reach, done
<1>4. Join(r.completed, done) \in Results
    BY <1>1, <1>2, JoinIs
<1>5. QED  BY <1>1, <1>3, <1>4 DEF Clausing

IsClauses(clauses) == clauses \in Seq(Range(clauses)) /\ \A clause \in Range(clauses) : IsClause(clause)

\* The results between the clauses of an if.
LEMMA ClausesSteps ==
    ASSUME Tracking, NEW ss \in SUBSET States, NEW clauses, IsClauses(clauses)
    PROVE  \E h : /\ h \in [0 .. Len(clauses) -> Clausing] /\ h[0] = [completed |-> Sound({}), remaining |-> ss]
                  /\ \A i \in 1 .. Len(clauses) : h[i] = Clause(h[i - 1], clauses[i])
                  /\ h[Len(clauses)] = Clauses(ss, clauses)
<1> DEFINE n == Len(clauses)
           Step(t, i) == Clause(t, clauses[i])
           F == [p \in Clausing \X (1 .. n) |-> Step(p[1], p[2])]
           Is(it) == it = [set \in SUBSET DOMAIN clauses |->
                             IF set = {} THEN [completed |-> Sound({}), remaining |-> ss] ELSE Step(it[set \ {Max(set)}], Max(set))]
           it == CHOOSE it : Is(it)
<1>1. n \in Nat /\ DOMAIN clauses = 1 .. n
    BY MemberOf DEF IsClauses
<1>2. [completed |-> Sound({}), remaining |-> ss] \in Clausing /\ \A t \in Clausing, i \in 1 .. n : Step(t, i) \in Clausing
    <2>1. \A i \in 1 .. n : IsClause(clauses[i])
        BY <1>1, MemberOf DEF IsClauses
    <2>2. Sound({}) \in Results
        BY ResultIs
    <2>3. QED  BY <2>1, <2>2, ClauseTyped DEF Clausing
<1>3. it[DOMAIN clauses] = Clauses(ss, clauses)
    BY DEF Clauses, FoldLeft, MapThenFoldSet
<1> HIDE DEF Step, n
<1>4. IsStep(F, Clausing, n)
    BY <1>2 DEF IsStep
<1>5. PICK g : IsFold(g, F, Clausing, [completed |-> Sound({}), remaining |-> ss], n)
    BY <1>1, <1>2, <1>4, FoldExists
<1>6. ASSUME NEW set \in (SUBSET (1 .. n)) \ {{}}, NEW f, f[set \ {Max(set)}] \in Clausing
      PROVE  F[<<f[set \ {Max(set)}], Max(set)>>] = Step(f[set \ {Max(set)}], Max(set))
    <2>1. Max(set) \in 1 .. n
        BY <1>1, MaxOfTo
    <2>2. QED  BY <1>6, <2>1
<1>7. Is(g)
    <2>1. \A set \in (SUBSET (1 .. n)) \ {{}} : g[set \ {Max(set)}] \in Clausing
        BY <1>5 DEF IsFold
    <2>2. \A set \in (SUBSET (1 .. n)) \ {{}} : g[set] = Step(g[set \ {Max(set)}], Max(set))
        BY <1>5, <1>6, <2>1 DEF IsFold
    <2> HIDE DEF F
    <2>3. QED  BY <1>1, <1>5, <2>2 DEF IsFold
<1>8. Is(it)
    <2> HIDE DEF Is
    <2>1. QED  BY <1>7
<1>9. Folds(it, F, Clausing, [completed |-> Sound({}), remaining |-> ss], n)
    <2> HIDE DEF F, it
    <2>1. it[{}] = [completed |-> Sound({}), remaining |-> ss]
        BY <1>8
    <2>2. \A set \in (SUBSET (1 .. n)) \ {{}} : it[set] = Step(it[set \ {Max(set)}], Max(set))
        BY <1>1, <1>8
    <2>3. QED  BY <1>6, <2>1, <2>2 DEF Folds
<1> HIDE DEF it, Is
<1>10. PICK h : IsPrefixes(h, F, Clausing, [completed |-> Sound({}), remaining |-> ss], n) /\ h[n] = it[1 .. n]
    <2> HIDE DEF F
    <2>1. QED  BY <1>1, <1>2, <1>4, <1>9, FoldSteps
<1>11. ASSUME NEW i \in 1 .. n PROVE h[i] = Step(h[i - 1], i)
    <2>1. i - 1 \in 0 .. n
        BY <1>1
    <2>2. h[i - 1] \in Clausing
        BY <1>10, <2>1 DEF IsPrefixes
    <2>3. h[i] = F[<<h[i - 1], i>>]
        BY <1>10 DEF IsPrefixes
    <2>4. QED  BY <2>2, <2>3
<1>12. QED  BY <1>1, <1>3, <1>10, <1>11 DEF IsPrefixes, Step, n

LEMMA ClausesTyped ==
    ASSUME Tracking, NEW ss \in SUBSET States, NEW clauses, IsClauses(clauses)
    PROVE  Clauses(ss, clauses) \in Clausing
<1>1. PICK h : h \in [0 .. Len(clauses) -> Clausing] /\ h[Len(clauses)] = Clauses(ss, clauses)
    <2>1. \E h : /\ h \in [0 .. Len(clauses) -> Clausing]
                 /\ h[0] = [completed |-> Sound({}), remaining |-> ss]
                 /\ \A i \in 1 .. Len(clauses) : h[i] = Clause(h[i - 1], clauses[i])
                 /\ h[Len(clauses)] = Clauses(ss, clauses)
        BY ClausesSteps
    <2>2. QED  BY <2>1
<1>2. Len(clauses) \in 0 .. Len(clauses)
    BY MemberOf DEF IsClauses
<1>3. QED  BY <1>1, <1>2

LEMMA IfTyped ==
    ASSUME Tracking, NEW ss \in SUBSET States, NEW st, IsClauses(st.clauses)
    PROVE  If(ss, st) \in Results /\ Cardinality(If(ss, st).states) <= MaxStates
<1> DEFINE end == Clauses(ss, st.clauses)
<1>1. end \in Clausing
    BY ClausesTyped
<1>3. If(ss, st) = IF end.completed.failed THEN Error ELSE Bounded(end.completed.states \cup end.remaining)
    BY DEF If, EndOfClauses, Then
<1> HIDE DEF end
<1>4. end.completed.states \cup end.remaining \in SUBSET States
    BY <1>1 DEF Clausing, Results
<1> DEFINE all == end.completed.states \cup end.remaining
<1>5. all \in SUBSET States /\ If(ss, st) = IF end.completed.failed THEN Error ELSE Bounded(all)
    BY <1>3, <1>4
<1> HIDE DEF all
<1>6. QED  BY <1>5, ResultIs, LimitAssumption, FS_EmptySet

LEMMA FlatTyped ==
    ASSUME Tracking, NEW ss \in SUBSET States, NEW st, IsFlat(st)
    PROVE  Flat(ss, st) \in Results /\ Cardinality(Flat(ss, st).states) <= MaxStates
<1>1. CASE st.op = "if"
    <2>1. IsClauses(st.clauses)
        BY <1>1 DEF IsFlat, IsClauses
    <2>2. QED  BY <1>1, <2>1, IfTyped DEF Flat
<1>2. CASE st.op # "if"
    <2> DEFINE after == {Simple(s, st) : s \in ss}
    <2>1. IsSimple(st)
        BY <1>2 DEF IsFlat
    <2>2. after \in SUBSET States
        BY <2>1, SimpleTyped
    <2>3. Flat(ss, st) = Bounded(after)
        BY <1>2 DEF Flat
    <2> HIDE DEF after
    <2>4. QED  BY <2>2, <2>3, ResultIs
<1>3. QED  BY <1>1, <1>2

LEMMA FlatStepIs ==
    ASSUME Tracking, NEW r \in Results, NEW st, IsFlat(st)
    PROVE  /\ FlatStep(r, st) \in Results
           /\ ~FlatStep(r, st).failed => ~r.failed /\ FlatStep(r, st) = Flat(r.states, st)
           /\ Cardinality(FlatStep(r, st).states) <= MaxStates
<1>1. FlatStep(r, st) = IF r.failed THEN Error ELSE Flat(r.states, st)
    BY DEF FlatStep, Then
<1>2. r.states \in SUBSET States
    BY DEF Results
<1>3. Flat(r.states, st) \in Results /\ Cardinality(Flat(r.states, st).states) <= MaxStates
    BY <1>2, FlatTyped
<1>4. QED  BY <1>1, <1>3, ResultIs, LimitAssumption, FS_EmptySet

\* The results between the statements of a suite.
LEMMA FlatSuiteSteps ==
    ASSUME Tracking, NEW ss \in SUBSET States, NEW suite, IsSuite(suite)
    PROVE  \E h : /\ h \in [0 .. Len(suite) -> Results] /\ h[0] = Sound(ss)
                  /\ \A i \in 1 .. Len(suite) : h[i] = FlatStep(h[i - 1], suite[i])
                  /\ h[Len(suite)] = FlatSuite(ss, suite)
<1> DEFINE n == Len(suite)
           Step(t, i) == FlatStep(t, suite[i])
           F == [p \in Results \X (1 .. n) |-> Step(p[1], p[2])]
           Is(it) == it = [set \in SUBSET DOMAIN suite |->
                             IF set = {} THEN Sound(ss) ELSE Step(it[set \ {Max(set)}], Max(set))]
           it == CHOOSE it : Is(it)
<1>1. n \in Nat /\ DOMAIN suite = 1 .. n
    BY MemberOf DEF IsSuite
<1>2. Sound(ss) \in Results /\ \A t \in Results, i \in 1 .. n : Step(t, i) \in Results
    <2>1. \A i \in 1 .. n : IsFlat(suite[i])
        BY <1>1, MemberOf DEF IsSuite
    <2>2. QED  BY <2>1, FlatStepIs, ResultIs
<1>3. it[DOMAIN suite] = FlatSuite(ss, suite)
    BY DEF FlatSuite, FoldLeft, MapThenFoldSet
<1> HIDE DEF Step, n
<1>4. IsStep(F, Results, n)
    BY <1>2 DEF IsStep
<1>5. PICK g : IsFold(g, F, Results, Sound(ss), n)
    BY <1>1, <1>2, <1>4, FoldExists
<1>6. ASSUME NEW set \in (SUBSET (1 .. n)) \ {{}}, NEW f, f[set \ {Max(set)}] \in Results
      PROVE  F[<<f[set \ {Max(set)}], Max(set)>>] = Step(f[set \ {Max(set)}], Max(set))
    <2>1. Max(set) \in 1 .. n
        BY <1>1, MaxOfTo
    <2>2. QED  BY <1>6, <2>1
<1>7. Is(g)
    <2>1. \A set \in (SUBSET (1 .. n)) \ {{}} : g[set \ {Max(set)}] \in Results
        BY <1>5 DEF IsFold
    <2>2. \A set \in (SUBSET (1 .. n)) \ {{}} : g[set] = Step(g[set \ {Max(set)}], Max(set))
        BY <1>5, <1>6, <2>1 DEF IsFold
    <2> HIDE DEF F
    <2>3. QED  BY <1>1, <1>5, <2>2 DEF IsFold
<1>8. Is(it)
    <2> HIDE DEF Is
    <2>1. QED  BY <1>7
<1>9. Folds(it, F, Results, Sound(ss), n)
    <2> HIDE DEF F, it
    <2>1. it[{}] = Sound(ss)
        BY <1>8
    <2>2. \A set \in (SUBSET (1 .. n)) \ {{}} : it[set] = Step(it[set \ {Max(set)}], Max(set))
        BY <1>1, <1>8
    <2>3. QED  BY <1>6, <2>1, <2>2 DEF Folds
<1> HIDE DEF it, Is
<1>10. PICK h : IsPrefixes(h, F, Results, Sound(ss), n) /\ h[n] = it[1 .. n]
    <2> HIDE DEF F
    <2>1. QED  BY <1>1, <1>2, <1>4, <1>9, FoldSteps
<1>11. ASSUME NEW i \in 1 .. n PROVE h[i] = Step(h[i - 1], i)
    <2>1. i - 1 \in 0 .. n
        BY <1>1
    <2>2. h[i - 1] \in Results
        BY <1>10, <2>1 DEF IsPrefixes
    <2>3. h[i] = F[<<h[i - 1], i>>]
        BY <1>10 DEF IsPrefixes
    <2>4. QED  BY <2>2, <2>3
<1>12. QED  BY <1>1, <1>3, <1>10, <1>11 DEF IsPrefixes, Step, n

LEMMA FlatSuiteTyped ==
    ASSUME Tracking, NEW ss \in SUBSET States, NEW suite, IsSuite(suite)
    PROVE  /\ FlatSuite(ss, suite) \in Results
           /\ Cardinality(ss) <= MaxStates => Cardinality(FlatSuite(ss, suite).states) <= MaxStates
<1>1. PICK h : /\ h \in [0 .. Len(suite) -> Results] /\ h[0] = Sound(ss)
               /\ \A i \in 1 .. Len(suite) : h[i] = FlatStep(h[i - 1], suite[i])
               /\ h[Len(suite)] = FlatSuite(ss, suite)
    <2>1. \E h : /\ h \in [0 .. Len(suite) -> Results] /\ h[0] = Sound(ss)
                 /\ \A i \in 1 .. Len(suite) : h[i] = FlatStep(h[i - 1], suite[i])
                 /\ h[Len(suite)] = FlatSuite(ss, suite)
        BY FlatSuiteSteps
    <2>2. QED  BY <2>1
<1> DEFINE n == Len(suite)
<1>2. n \in Nat /\ n \in 0 .. n /\ \A i \in 1 .. n : IsFlat(suite[i])
    BY MemberOf DEF IsSuite
<1>3. CASE n = 0
    <2>1. FlatSuite(ss, suite) = Sound(ss) /\ Sound(ss).states = ss
        BY <1>1, <1>3, ResultIs
    <2>2. QED  BY <1>1, <1>2, <2>1
<1>4. CASE n # 0
    <2> HIDE DEF n
    <2>1. n \in 1 .. n /\ n - 1 \in 0 .. n
        BY <1>2, <1>4
    <2>2. h[n - 1] \in Results /\ IsFlat(suite[n]) /\ h[n] = FlatStep(h[n - 1], suite[n])
        BY <1>1, <1>2, <2>1 DEF n
    <2>3. h[n] \in Results /\ Cardinality(h[n].states) <= MaxStates
        BY <2>2, FlatStepIs
    <2>4. QED  BY <1>1, <2>3 DEF n
<1>5. QED  BY <1>3, <1>4

Bodies == [normal : Results, exceptional : Results]

LEMMA BodyStepIs ==
    ASSUME Tracking, NEW r \in Bodies, NEW st, IsFlat(st)
    PROVE  /\ BodyStep(r, st) \in Bodies
           /\ ~BodyStep(r, st).normal.failed /\ ~BodyStep(r, st).exceptional.failed =>
                 /\ ~r.normal.failed /\ ~r.exceptional.failed
                 /\ ~(st.op = "if" /\ MayChange(st))
                 /\ BodyStep(r, st).normal = Flat(r.normal.states, st)
                 /\ BodyStep(r, st).exceptional.states
                       = r.exceptional.states \cup r.normal.states \cup BodyStep(r, st).normal.states
<1> DEFINE next == Flat(r.normal.states, st)
           seen == Join(Join(r.exceptional, r.normal), next)
<1>1. r.normal \in Results /\ r.exceptional \in Results /\ r.normal.states \in SUBSET States
    BY DEF Bodies, Results
<1>2. next \in Results
    BY <1>1, FlatTyped
<1>3. Error \in Results /\ Error.failed
    BY ResultIs
<1>4. BodyStep(r, st) = IF (st.op = "if" /\ MayChange(st)) \/ r.normal.failed \/ r.exceptional.failed
                        THEN [normal |-> Error, exceptional |-> Error]
                        ELSE [normal |-> next, exceptional |-> IF seen.failed THEN Error ELSE Bounded(seen.states)]
    BY DEF BodyStep, TryStep, Then
<1>5. /\ seen \in Results
      /\ ~seen.failed => seen.states = r.exceptional.states \cup r.normal.states \cup next.states
    <2> HIDE DEF next
    <2>1. Join(r.exceptional, r.normal) \in Results
        BY <1>1, JoinIs
    <2>2. QED  BY <1>1, <1>2, <2>1, JoinIs
<1>6. /\ Bounded(seen.states) \in Results
      /\ ~Bounded(seen.states).failed => Bounded(seen.states).states = seen.states
    <2> HIDE DEF seen
    <2>1. seen.states \in SUBSET States
        BY <1>5 DEF Results
    <2>2. QED  BY <2>1, ResultIs
<1> HIDE DEF next, seen
<1>7. QED  BY <1>2, <1>3, <1>4, <1>5, <1>6 DEF Bodies, next

\* The results between the statements of the body of a try.
LEMMA TryBodySteps ==
    ASSUME Tracking, NEW s \in States, NEW suite, IsSuite(suite)
    PROVE  \E h : /\ h \in [0 .. Len(suite) -> Bodies] /\ h[0] = [normal |-> Sound({s}), exceptional |-> Sound({s})]
                  /\ \A i \in 1 .. Len(suite) : h[i] = BodyStep(h[i - 1], suite[i])
                  /\ h[Len(suite)] = TryBody(s, suite)
<1> DEFINE n == Len(suite)
           Step(t, i) == BodyStep(t, suite[i])
           F == [p \in Bodies \X (1 .. n) |-> Step(p[1], p[2])]
           Is(it) == it = [set \in SUBSET DOMAIN suite |->
                             IF set = {} THEN [normal |-> Sound({s}), exceptional |-> Sound({s})] ELSE Step(it[set \ {Max(set)}], Max(set))]
           it == CHOOSE it : Is(it)
<1>1. n \in Nat /\ DOMAIN suite = 1 .. n
    BY MemberOf DEF IsSuite
<1>2. [normal |-> Sound({s}), exceptional |-> Sound({s})] \in Bodies /\ \A t \in Bodies, i \in 1 .. n : Step(t, i) \in Bodies
    <2>1. \A i \in 1 .. n : IsFlat(suite[i])
        BY <1>1, MemberOf DEF IsSuite
    <2>2. Sound({s}) \in Results
        BY ResultIs
    <2>3. QED  BY <2>1, <2>2, BodyStepIs DEF Bodies
<1>3. it[DOMAIN suite] = TryBody(s, suite)
    BY DEF TryBody, FoldLeft, MapThenFoldSet
<1> HIDE DEF Step, n
<1>4. IsStep(F, Bodies, n)
    BY <1>2 DEF IsStep
<1>5. PICK g : IsFold(g, F, Bodies, [normal |-> Sound({s}), exceptional |-> Sound({s})], n)
    BY <1>1, <1>2, <1>4, FoldExists
<1>6. ASSUME NEW set \in (SUBSET (1 .. n)) \ {{}}, NEW f, f[set \ {Max(set)}] \in Bodies
      PROVE  F[<<f[set \ {Max(set)}], Max(set)>>] = Step(f[set \ {Max(set)}], Max(set))
    <2>1. Max(set) \in 1 .. n
        BY <1>1, MaxOfTo
    <2>2. QED  BY <1>6, <2>1
<1>7. Is(g)
    <2>1. \A set \in (SUBSET (1 .. n)) \ {{}} : g[set \ {Max(set)}] \in Bodies
        BY <1>5 DEF IsFold
    <2>2. \A set \in (SUBSET (1 .. n)) \ {{}} : g[set] = Step(g[set \ {Max(set)}], Max(set))
        BY <1>5, <1>6, <2>1 DEF IsFold
    <2> HIDE DEF F
    <2>3. QED  BY <1>1, <1>5, <2>2 DEF IsFold
<1>8. Is(it)
    <2> HIDE DEF Is
    <2>1. QED  BY <1>7
<1>9. Folds(it, F, Bodies, [normal |-> Sound({s}), exceptional |-> Sound({s})], n)
    <2> HIDE DEF F, it
    <2>1. it[{}] = [normal |-> Sound({s}), exceptional |-> Sound({s})]
        BY <1>8
    <2>2. \A set \in (SUBSET (1 .. n)) \ {{}} : it[set] = Step(it[set \ {Max(set)}], Max(set))
        BY <1>1, <1>8
    <2>3. QED  BY <1>6, <2>1, <2>2 DEF Folds
<1> HIDE DEF it, Is
<1>10. PICK h : IsPrefixes(h, F, Bodies, [normal |-> Sound({s}), exceptional |-> Sound({s})], n) /\ h[n] = it[1 .. n]
    <2> HIDE DEF F
    <2>1. QED  BY <1>1, <1>2, <1>4, <1>9, FoldSteps
<1>11. ASSUME NEW i \in 1 .. n PROVE h[i] = Step(h[i - 1], i)
    <2>1. i - 1 \in 0 .. n
        BY <1>1
    <2>2. h[i - 1] \in Bodies
        BY <1>10, <2>1 DEF IsPrefixes
    <2>3. h[i] = F[<<h[i - 1], i>>]
        BY <1>10 DEF IsPrefixes
    <2>4. QED  BY <2>2, <2>3
<1>12. QED  BY <1>1, <1>3, <1>10, <1>11 DEF IsPrefixes, Step, n

LEMMA TryBodyTyped ==
    ASSUME Tracking, NEW s \in States, NEW suite, IsSuite(suite)
    PROVE  TryBody(s, suite) \in Bodies
<1>1. \E h : /\ h \in [0 .. Len(suite) -> Bodies] /\ h[0] = [normal |-> Sound({s}), exceptional |-> Sound({s})]
             /\ \A i \in 1 .. Len(suite) : h[i] = BodyStep(h[i - 1], suite[i])
             /\ h[Len(suite)] = TryBody(s, suite)
    BY TryBodySteps
<1>2. Len(suite) \in 0 .. Len(suite)
    BY MemberOf DEF IsSuite
<1>3. QED  BY <1>1, <1>2

IsHandler(h) == h.names \in Seq(Names) /\ Len(h.names) <= 1 /\ IsSuite(h.body)

LEMMA HandlerIs ==
    ASSUME Tracking, NEW ss \in SUBSET States, NEW h, IsHandler(h)
    PROVE  LET inner == FlatSuite({AssignAll(s, h.names, Unresolved) : s \in ss}, h.body)
           IN  /\ Handler(ss, h) \in Results /\ inner \in Results
               /\ ~Handler(ss, h).failed => /\ ~inner.failed
                                            /\ Handler(ss, h).states = {DeleteAll(s, h.names) : s \in inner.states}
<1> DEFINE bound == {AssignAll(s, h.names, Unresolved) : s \in ss}
           inner == FlatSuite(bound, h.body)
           after == {DeleteAll(s, h.names) : s \in inner.states}
<1>1. h.names \in Seq(Names) /\ IsSuite(h.body)
    BY DEF IsHandler
<1>2. bound \in SUBSET States
    <2>1. ASSUME NEW s \in ss PROVE AssignAll(s, h.names, Unresolved) \in States
        BY <1>1, AssignAllIs DEF Assigned
    <2>2. QED  BY <2>1
<1>3. inner \in Results
    <2> HIDE DEF bound
    <2>1. QED  BY <1>1, <1>2, FlatSuiteTyped
<1>4. Handler(ss, h) = IF inner.failed THEN Error ELSE Sound(after)
    BY DEF Handler, Then
<1> HIDE DEF inner
<1>5. after \in SUBSET States
    <2>1. ASSUME NEW s \in inner.states PROVE DeleteAll(s, h.names) \in States
        <3>1. s \in States
            BY <1>3 DEF Results
        <3>2. QED  BY <1>1, <3>1, DeleteAllIs DEF Deleted
    <2>2. QED  BY <2>1
<1>6. /\ Handler(ss, h) \in Results
      /\ ~Handler(ss, h).failed => ~inner.failed /\ Handler(ss, h).states = after
    <2> HIDE DEF after
    <2>1. QED  BY <1>4, <1>5, ResultIs
<1>7. QED  BY <1>3, <1>6 DEF inner

IsTry(st) ==
    /\ IsSuite(st.body) /\ IsSuite(st.orelse) /\ IsSuite(st.finalbody)
    /\ st.handlers \in Seq(Range(st.handlers)) /\ \A h \in Range(st.handlers) : IsHandler(h)

LEMMA EndsOfTyped ==
    ASSUME Tracking, NEW body \in Bodies, NEW st, IsTry(st)
    PROVE  EndsOf(body, st) \in SUBSET Results
<1>1. Error \in Results
    BY ResultIs
<1>2. body.normal.states \in SUBSET States /\ body.exceptional.states \in SUBSET States
    BY DEF Bodies, Results
<1>3. FlatSuite(body.normal.states, st.orelse) \in Results
    BY <1>2, FlatSuiteTyped DEF IsTry
<1>4. \A h \in Range(st.handlers) : Handler(body.exceptional.states, h) \in Results
    BY <1>2, HandlerIs DEF IsTry
<1>5. QED  BY <1>1, <1>3, <1>4 DEF EndsOf

LEMMA TryIs ==
    ASSUME Tracking, NEW ss \in SUBSET States, NEW st, IsTry(st)
    PROVE  LET ends == UNION {EndsOf(TryBody(s, st.body), st) : s \in ss}
               joined == UNION {end.states : end \in ends}
           IN  /\ Try(ss, st) \in Results /\ Cardinality(Try(ss, st).states) <= MaxStates
               /\ ends \in SUBSET Results /\ joined \in SUBSET States
               /\ ~Try(ss, st).failed =>
                     /\ \A end \in ends : ~end.failed
                     /\ Try(ss, st) = FlatSuite(joined, st.finalbody)
<1> DEFINE ends == UNION {EndsOf(TryBody(s, st.body), st) : s \in ss}
           joined == UNION {end.states : end \in ends}
           bounded == Bounded(joined)
<1>1. ends \in SUBSET Results
    <2>1. ASSUME NEW s \in ss PROVE EndsOf(TryBody(s, st.body), st) \in SUBSET Results
        BY TryBodyTyped, EndsOfTyped DEF IsTry
    <2>2. QED  BY <2>1
<1>2. Try(ss, st) = IF \E end \in ends : end.failed THEN Error
                    ELSE IF bounded.failed THEN Error ELSE FlatSuite(bounded.states, st.finalbody)
    BY DEF Try, EndOfTries, Then
<1> HIDE DEF ends
<1>3. joined \in SUBSET States
    BY <1>1 DEF Results
<1> HIDE DEF joined
<1>4. /\ bounded \in Results /\ Cardinality(bounded.states) <= MaxStates
      /\ ~bounded.failed => bounded.states = joined
      /\ Error \in Results /\ Error.failed /\ Cardinality(Error.states) <= MaxStates
    BY <1>3, ResultIs, LimitAssumption, FS_EmptySet
<1> HIDE DEF bounded
<1>5. /\ FlatSuite(bounded.states, st.finalbody) \in Results
      /\ Cardinality(FlatSuite(bounded.states, st.finalbody).states) <= MaxStates
    <2>1. bounded.states \in SUBSET States
        BY <1>4 DEF Results
    <2>2. QED  BY <1>4, <2>1, FlatSuiteTyped DEF IsTry
<1>6. /\ Try(ss, st) \in Results /\ Cardinality(Try(ss, st).states) <= MaxStates
      /\ ~Try(ss, st).failed =>
            (\A end \in ends : ~end.failed) /\ Try(ss, st) = FlatSuite(joined, st.finalbody)
    BY <1>2, <1>4, <1>5
<1>7. QED  BY <1>1, <1>3, <1>6 DEF ends, joined

LEMMA StatementTyped ==
    ASSUME Tracking, NEW ss \in SUBSET States, NEW st, IsStatement(st)
    PROVE  Statement(ss, st) \in Results /\ Cardinality(Statement(ss, st).states) <= MaxStates
<1>1. CASE st.op = "try"
    <2>1. IsTry(st)
        BY <1>1 DEF IsStatement, IsTry, IsHandler
    <2>2. QED  BY <1>1, <2>1, TryIs DEF Statement
<1>2. CASE st.op # "try"
    BY <1>2, FlatTyped DEF IsStatement, Statement
<1>3. QED  BY <1>1, <1>2

-----------------------------------------------------------------------------

Typed ==
    /\ Tracking
    /\ states \in SUBSET States /\ Cardinality(states) <= MaxStates
    /\ failed \in BOOLEAN

LEMMA TypedInit == Init => Typed
<1> SUFFICES ASSUME Init PROVE Typed
    OBVIOUS
<1>1. Tracking
    BY DEF Init, Tracking
<1>2. states \in SUBSET States
    BY <1>1, NewStateTyped DEF Init
<1>3. Cardinality(states) <= MaxStates
    <2>1. Cardinality({NewState}) = 1
        BY FS_Singleton
    <2>2. QED  BY <2>1, LimitAssumption DEF Init
<1>4. QED  BY <1>1, <1>2, <1>3 DEF Init, Typed

LEMMA TypedNext == Typed /\ [Next]_vars => Typed'
<1> SUFFICES ASSUME Typed, [Next]_vars PROVE Typed'
    OBVIOUS
<1>1. CASE Next
    <2>1. PICK st \in Menu : Extend(st)
        BY <1>1 DEF Next
    <2>2. /\ states' = Statement(states, st).states
          /\ failed' = Statement(states, st).failed
          /\ tracked' = tracked
        BY <2>1 DEF Extend
    <2>3. Statement(states, st) \in Results /\ Cardinality(Statement(states, st).states) <= MaxStates
        BY StatementTyped, MenuAssumption DEF Typed
    <2>4. States' = States /\ Tracking'
        BY <2>2 DEF Typed, Tracking, States, Shape, Known, WellPaired
    <2>5. QED  BY <2>2, <2>3, <2>4 DEF Typed, Results
<1>2. CASE UNCHANGED vars
    BY <1>2 DEF vars, Typed, Tracking, States, Shape, Known, WellPaired
<1>3. QED  BY <1>1, <1>2

LEMMA TypedIsOK == Typed => TypeOK
<1> SUFFICES ASSUME Typed PROVE TypeOK
    OBVIOUS
<1>1. ASSUME NEW s \in states
      PROVE  /\ DOMAIN s.known \subseteq tracked
             /\ \A n \in DOMAIN s.known : s.known[n] \in Seq(Strings)
             /\ UNION s.aliases \subseteq tracked
             /\ s.exports = "known" <=> (All \in DOMAIN s.known)
             /\ s.exports = "dynamic" => s.dynamic
    <2>1. s \in States
        BY DEF Typed
    <2>2. QED  BY <2>1, StateIs, KnownIs DEF Values
<1>2. ASSUME NEW s \in states, NEW p \in s.aliases, NEW q \in s.aliases, p # q, p \cap q # {}
      PROVE  (p \ q) \cup (q \ p) \in s.aliases
    <2>1. s \in States
        BY DEF Typed
    <2>2. WellPaired(s.aliases)
        BY <2>1, StateIs
    <2>3. PICK a, b \in tracked : a # b /\ p = {a, b}
        BY <2>2 DEF WellPaired
    <2>4. PICK c, d \in tracked : c # d /\ q = {c, d}
        BY <2>2 DEF WellPaired
    <2>5. ASSUME NEW m \in tracked, NEW k \in tracked, NEW n \in tracked,
                 p = {k, m}, q = {m, n}, k # m, m # n
          PROVE  (p \ q) \cup (q \ p) \in s.aliases
        <3>1. k # n
            BY <1>2, <2>5
        <3>2. (p \ q) \cup (q \ p) = {k, n}
            BY <2>5, <3>1
        <3>3. {k, n} \in s.aliases
            BY <2>2, <2>5, <3>1 DEF WellPaired
        <3>4. QED  BY <3>2, <3>3
    <2>6. a = c \/ a = d \/ b = c \/ b = d
        BY <1>2, <2>3, <2>4
    <2>7. p = {b, a} /\ q = {d, c}
        BY <2>3, <2>4
    <2>8. QED  BY <2>3, <2>4, <2>5, <2>6, <2>7
<1>3. QED  BY <1>1, <1>2 DEF Typed, TypeOK

\* The analysis keeps known sequences for tracked names, alias pairs that are an
\* equivalence, and no more states than its limit.
THEOREM ExportsTyped == Spec => []TypeOK
<1>1. Spec => []Typed
    BY TypedInit, TypedNext, PTL DEF Spec
<1>2. QED  BY <1>1, TypedIsOK, PTL
-----------------------------------------------------------------------------
(* Runs. *)

Cells == [list : BOOLEAN, items : Seq(Strings), refs : Seq(Objects), effects : SUBSET Names]
Runs == [env : [Names -> Objects \cup {Unbound}], heap : [Objects -> Cells]]

LEMMA RunIs ==
    ASSUME NEW run \in Runs
    PROVE  /\ run.env \in [Names -> Objects \cup {Unbound}] /\ run.heap \in [Objects -> Cells]
           /\ \A n \in Names : run.env[n] # Unbound =>
                 run.env[n] \in Objects /\ Value(run, n) \in Cells /\ Value(run, n) = run.heap[run.env[n]]
           /\ \A o \in Objects : run.heap[o] \in Cells /\ Range(run.heap[o].refs) \subseteq Objects
<1>1. run.env \in [Names -> Objects \cup {Unbound}] /\ run.heap \in [Objects -> Cells]
    BY DEF Runs
<1>2. ASSUME NEW o \in Objects PROVE run.heap[o] \in Cells /\ Range(run.heap[o].refs) \subseteq Objects
    <2>1. run.heap[o] \in Cells
        BY <1>1
    <2>2. run.heap[o].refs \in Seq(Objects)
        BY <2>1 DEF Cells
    <2>3. QED  BY <2>1, <2>2, RangeIs
<1>3. QED  BY <1>1, <1>2 DEF Value

LEMMA CellsAre ==
    /\ Unbound \notin Objects
    /\ Opaque \in Cells /\ ~Opaque.list /\ Opaque.refs = << >> /\ Opaque.effects = {}
    /\ \A items \in Seq(Strings) : /\ List(items) \in Cells /\ List(items).list /\ List(items).items = items
                                   /\ List(items).refs = << >> /\ List(items).effects = {}
    /\ \A refs \in Seq(Objects) : /\ Holding(refs) \in Cells /\ Holding(refs).refs = refs
                                  /\ Holding(refs).effects = {}
    /\ \A effects \in SUBSET Names : /\ Function(effects, << >>) \in Cells
                                     /\ Function(effects, << >>).refs = << >>
                                     /\ Function(effects, << >>).effects = effects
<1>1. Unbound \notin Objects
    BY DEF Unbound, Objects
<1>2. Opaque \in Cells /\ ~Opaque.list /\ Opaque.refs = << >> /\ Opaque.effects = {} /\ Opaque.items = << >>
    BY DEF Opaque, Cells
<1>3. ASSUME NEW items \in Seq(Strings)
      PROVE  /\ List(items) \in Cells /\ List(items).list /\ List(items).items = items
             /\ List(items).refs = << >> /\ List(items).effects = {}
    <2>1. List(items) = [Opaque EXCEPT !.list = TRUE, !.items = items]
        BY DEF List
    <2>2. QED  BY <1>2, <2>1 DEF Cells
<1>4. ASSUME NEW refs \in Seq(Objects)
      PROVE  Holding(refs) \in Cells /\ Holding(refs).refs = refs /\ Holding(refs).effects = {}
    <2> DEFINE empty == List(<< >>)
    <2>1. Holding(refs) = [empty EXCEPT !.refs = refs]
        BY DEF Holding
    <2>2. << >> \in Seq(Strings)
        OBVIOUS
    <2>3. empty \in Cells /\ empty.effects = {}
        BY <1>3, <2>2
    <2> HIDE DEF empty
    <2>4. QED  BY <2>1, <2>3 DEF Cells
<1>5. ASSUME NEW effects \in SUBSET Names
      PROVE  /\ Function(effects, << >>) \in Cells
             /\ Function(effects, << >>).refs = << >> /\ Function(effects, << >>).effects = effects
    <2>1. Function(effects, << >>) = [Opaque EXCEPT !.effects = effects, !.refs = << >>]
        BY DEF Function
    <2>2. << >> \in Seq(Objects)
        OBVIOUS
    <2>3. QED  BY <1>2, <2>1, <2>2 DEF Cells
<1>6. QED  BY <1>1, <1>2, <1>3, <1>4, <1>5

\* A set of objects that holds what its objects hold.
Closes(run, set) == set \in SUBSET Objects /\ \A o \in set : Range(run.heap[o].refs) \subseteq set

LEMMA ReachIs ==
    ASSUME NEW run, NEW set, Closes(run, set), NEW objects \in SUBSET set
    PROVE  Reach(run, objects) \subseteq set
<1>1. \A some \in SUBSET set : Held(run, some) \in SUBSET set
    BY DEF Held, Closes
<1>2. QED  BY <1>1 DEF Reach

LEMMA LiveIs ==
    ASSUME NEW run \in Runs
    PROVE  /\ Closes(run, Live(run))
           /\ \A n \in Names : run.env[n] # Unbound => run.env[n] \in Live(run)
<1> DEFINE roots == Range(run.env) \ {Unbound}
           reached == Reach(run, roots)
<1>1. Closes(run, Objects)
    BY RunIs DEF Closes
<1>2. roots \in SUBSET Objects
    BY RunIs DEF Range
<1>3. reached \in SUBSET Objects
    BY <1>1, <1>2, ReachIs
<1>4. \A some : some \subseteq Held(run, some)
    BY DEF Held
<1>5. roots \subseteq reached
    BY <1>4 DEF Reach
<1>6. Held(run, reached) = reached => Closes(run, reached)
    <2> HIDE DEF reached
    <2>1. QED  BY <1>3 DEF Held, Closes
<1>7. \A n \in Names : run.env[n] # Unbound => run.env[n] \in roots
    BY RunIs DEF Range
<1>8. Live(run) = IF Held(run, reached) = reached THEN reached ELSE Objects
    BY DEF Live
<1> HIDE DEF roots, reached
<1>9. QED  BY <1>1, <1>2, <1>5, <1>6, <1>7, <1>8

\* Names outside kept, and the functions and objects they reach, are inside out.
Apart(run, out, kept) ==
    /\ Closes(run, out)
    /\ \A n \in Names \ kept : run.env[n] # Unbound => run.env[n] \in out
    /\ \A o \in out : run.heap[o].effects \cap kept = {}

\* The names in kept have the values they had, where these are not inside out.
Untouched(after, out2, run, out, kept) ==
    /\ Apart(after, out2, kept)
    /\ \A n \in kept :
          /\ after.env[n] = run.env[n]
          /\ run.env[n] # Unbound /\ run.env[n] \notin out =>
                run.env[n] \notin out2 /\ after.heap[run.env[n]] = run.heap[run.env[n]]

LEMMA Still ==
    ASSUME NEW run, NEW out, NEW kept, Apart(run, out, kept)
    PROVE  Untouched(run, out, run, out, kept)
BY DEF Untouched

LEMMA Twice ==
    ASSUME NEW run, NEW out, NEW kept, NEW next, NEW out2, NEW after, NEW out3,
           Untouched(next, out2, run, out, kept), Untouched(after, out3, next, out2, kept)
    PROVE  Untouched(after, out3, run, out, kept)
BY DEF Untouched

LEMMA Everything ==
    ASSUME NEW run \in Runs
    PROVE  Apart(run, Objects, {})
BY RunIs DEF Apart, Closes

LEMMA SweptIs ==
    ASSUME NEW run \in Runs
    PROVE  /\ Swept(run) \in Runs /\ Swept(run).env = run.env
           /\ \A out, kept : kept \subseteq Names /\ Apart(run, out, kept)
                                => Untouched(Swept(run), out, run, out, kept)
<1> DEFINE heap == [o \in Objects |-> IF o \in Live(run) THEN run.heap[o] ELSE Opaque]
<1>1. Swept(run) = [run EXCEPT !.heap = heap]
    BY DEF Swept
<1>2. heap \in [Objects -> Cells]
    BY RunIs, CellsAre
<1>3. /\ \A o \in Live(run) : heap[o] = run.heap[o]
      /\ \A o \in Objects : heap[o] = run.heap[o] \/ heap[o] = Opaque
    BY LiveIs DEF Closes
<1> HIDE DEF heap
<1>4. Swept(run) \in Runs /\ Swept(run).env = run.env /\ Swept(run).heap = heap
    BY <1>1, <1>2 DEF Runs
<1>5. ASSUME NEW out, NEW kept, kept \subseteq Names, Apart(run, out, kept)
      PROVE  Untouched(Swept(run), out, run, out, kept)
    <2>1. Range(Opaque.refs) = {} /\ Opaque.effects = {}
        BY CellsAre DEF Range
    <2>2. Apart(Swept(run), out, kept)
        BY <1>3, <1>4, <1>5, <2>1 DEF Apart, Closes
    <2>3. \A n \in kept : run.env[n] # Unbound => run.env[n] \in Live(run)
        BY <1>5, LiveIs
    <2>4. QED  BY <1>3, <1>4, <2>2, <2>3 DEF Untouched
<1>6. QED  BY <1>4, <1>5

\* A new object is in use by nobody.
LEMMA NewIs ==
    ASSUME NEW run \in Runs, NEW value \in Cells, NEW r \in New(run, value)
    PROVE  /\ r.run \in Runs /\ r.run.env = run.env
           /\ r.object \in Objects \ Live(run)
           /\ r.run.heap[r.object] = value
           /\ \A o \in Objects \ {r.object} : r.run.heap[o] = run.heap[o]
<1>1. PICK o \in Objects \ Live(run) : r = Placed(run, value, o)
    BY DEF New, FirstFree
<1>2. r.object = o /\ r.run = [run EXCEPT !.heap[o] = value]
    BY <1>1 DEF Placed
<1>3. /\ r.run.env = run.env /\ r.run.heap = [run.heap EXCEPT ![o] = value]
      /\ r.run = [env |-> run.env, heap |-> [run.heap EXCEPT ![o] = value]]
    BY <1>2 DEF Runs
<1>4. [run.heap EXCEPT ![o] = value] \in [Objects -> Cells]
    BY RunIs
<1>5. r.run \in Runs
    BY <1>3, <1>4, RunIs DEF Runs
<1>6. QED  BY <1>1, <1>2, <1>3, <1>5, RunIs

LEMMA NewApart ==
    ASSUME NEW run \in Runs, NEW value \in Cells, NEW r \in New(run, value),
           NEW out, NEW kept \in SUBSET Names, Apart(run, out, kept)
    PROVE  /\ Untouched(r.run, out \cap Live(run), run, out, kept)
           /\ Range(value.refs) \subseteq out \cap Live(run) /\ value.effects \cap kept = {} =>
                 Untouched(r.run, (out \cap Live(run)) \cup {r.object}, run, out, kept)
<1> DEFINE in == out \cap Live(run)
<1>1. /\ r.run.env = run.env
      /\ r.object \in Objects \ Live(run)
      /\ r.run.heap[r.object] = value
      /\ \A o \in Objects \ {r.object} : r.run.heap[o] = run.heap[o]
    BY NewIs
<1>2. /\ in \in SUBSET Objects /\ r.object \notin in
      /\ \A o \in in : Range(run.heap[o].refs) \subseteq in /\ run.heap[o].effects \cap kept = {}
      /\ \A n \in Names \ kept : run.env[n] # Unbound => run.env[n] \in in
    BY <1>1, LiveIs DEF Apart, Closes
<1>3. \A n \in kept : run.env[n] # Unbound =>
         /\ run.env[n] # r.object /\ run.env[n] \in Objects /\ (run.env[n] \notin out => run.env[n] \notin in)
    BY <1>1, LiveIs, RunIs
<1> HIDE DEF in
<1>4. Untouched(r.run, in, run, out, kept)
    BY <1>1, <1>2, <1>3 DEF Untouched, Apart, Closes
<1>5. ASSUME Range(value.refs) \subseteq in, value.effects \cap kept = {}
      PROVE  Untouched(r.run, in \cup {r.object}, run, out, kept)
    BY <1>1, <1>2, <1>3, <1>5 DEF Untouched, Apart, Closes
<1>6. QED  BY <1>4, <1>5 DEF in

\* An object takes another value.
LEMMA WriteIs ==
    ASSUME NEW run \in Runs, NEW o \in Objects, NEW cell \in Cells
    PROVE  LET x == [run EXCEPT !.heap[o] = cell]
           IN  /\ x \in Runs /\ x.env = run.env /\ x.heap[o] = cell
               /\ \A p \in Objects \ {o} : x.heap[p] = run.heap[p]
               /\ \A out, kept :
                     /\ Apart(run, out, kept) /\ kept \subseteq Names
                     /\ o \in out /\ Range(cell.refs) \subseteq out /\ cell.effects \cap kept = {}
                     => Untouched(x, out, run, out, kept)
<1> DEFINE x == [run EXCEPT !.heap[o] = cell]
<1>1. x = [env |-> run.env, heap |-> [run.heap EXCEPT ![o] = cell]]
    BY DEF Runs
<1>2. [run.heap EXCEPT ![o] = cell] \in [Objects -> Cells]
    BY RunIs
<1>3. x \in Runs
    BY <1>1, <1>2, RunIs DEF Runs
<1>4. x.env = run.env /\ x.heap[o] = cell /\ \A p \in Objects \ {o} : x.heap[p] = run.heap[p]
    BY <1>1, RunIs
<1> HIDE DEF x
<1>5. ASSUME NEW out, NEW kept, Apart(run, out, kept), kept \subseteq Names,
             o \in out, Range(cell.refs) \subseteq out, cell.effects \cap kept = {}
      PROVE  Untouched(x, out, run, out, kept)
    <2>1. out \in SUBSET Objects
        BY <1>5 DEF Apart, Closes
    <2>2. Apart(x, out, kept)
        BY <1>4, <1>5, <2>1 DEF Apart, Closes
    <2>3. \A n \in kept : run.env[n] # Unbound => run.env[n] \in Objects
        BY <1>5, RunIs
    <2>4. QED  BY <1>4, <1>5, <2>2, <2>3 DEF Untouched
<1>6. QED  BY <1>3, <1>4, <1>5 DEF x

\* Names take another object.
LEMMA BindIs ==
    ASSUME NEW run \in Runs, NEW names, NEW o \in Objects \cup {Unbound}
    PROVE  LET x == BindAll(run, names, o)
           IN  /\ x \in Runs /\ x.heap = run.heap
               /\ \A n \in Names : x.env[n] = IF n \in Range(names) THEN o ELSE run.env[n]
               /\ \A out, kept :
                     /\ Apart(run, out, kept) /\ kept \subseteq Names
                     /\ Range(names) \cap kept = {} /\ (o = Unbound \/ o \in out)
                     => Untouched(x, out, run, out, kept)
<1> DEFINE x == BindAll(run, names, o)
           env == [n \in Names |-> IF n \in Range(names) THEN o ELSE run.env[n]]
<1>1. x = [run EXCEPT !.env = env]
    BY DEF BindAll
<1>2. env \in [Names -> Objects \cup {Unbound}]
    BY RunIs
<1>3. \A n \in Names : env[n] = IF n \in Range(names) THEN o ELSE run.env[n]
    OBVIOUS
<1> HIDE DEF env
<1>4. x \in Runs /\ x.heap = run.heap /\ x.env = env
    BY <1>1, <1>2 DEF Runs
<1> HIDE DEF x
<1>5. ASSUME NEW out, NEW kept, Apart(run, out, kept), kept \subseteq Names,
             Range(names) \cap kept = {}, o = Unbound \/ o \in out
      PROVE  Untouched(x, out, run, out, kept)
    <2>1. Apart(x, out, kept)
        BY <1>3, <1>4, <1>5 DEF Apart, Closes
    <2>2. \A n \in kept : x.env[n] = run.env[n]
        BY <1>3, <1>4, <1>5
    <2>3. QED  BY <1>4, <1>5, <2>1, <2>2 DEF Untouched
<1>6. QED  BY <1>3, <1>4, <1>5 DEF x

LEMMA ReferencesAre ==
    ASSUME NEW e \in Expressions
    PROVE  /\ References(e) \subseteq Names
           /\ e.kind \in {"name", "pair", "call"} => e.names[1] \in References(e)
           /\ e.kind = "pair" => e.names[2] \in References(e)
           /\ e.kind = "call" => Range(Tail(e.names)) \subseteq References(e)
           /\ e.kind = "name" => References(e) = {e.names[1]}
           /\ e.kind = "other" => References(e) = {}
<1>1. e.names \in Seq(Names) /\ DOMAIN e.names = 1 .. Len(e.names) /\ Len(e.names) \in Nat
    BY ExpressionIs
<1>2. References(e) = {e.names[i] : i \in 1 .. Len(e.names)}
    BY <1>1 DEF References, Range
<1>3. References(e) \subseteq Names
    BY <1>1, <1>2
<1>4. e.kind \in {"name", "pair", "call"} => e.names[1] \in References(e)
    BY <1>1, <1>2, ExpressionIs
<1>5. e.kind = "pair" => e.names[2] \in References(e)
    BY <1>1, <1>2, ExpressionIs
<1>6. e.kind = "name" => References(e) = {e.names[1]}
    BY <1>1, <1>2, ExpressionIs
<1>7. e.kind = "other" => References(e) = {}
    BY <1>1, <1>2, ExpressionIs
<1>8. ASSUME e.kind = "call" PROVE Range(Tail(e.names)) \subseteq References(e)
    <2> DEFINE names == e.names
    <2>1. names \in Seq(Names) /\ names # << >>
        BY <1>8, ExpressionIs
    <2> HIDE DEF names
    <2>2. /\ Tail(names) \in Seq(Names) /\ Len(Tail(names)) = Len(names) - 1
          /\ \A i \in 1 .. Len(Tail(names)) : Tail(names)[i] = names[i + 1] /\ i + 1 \in 1 .. Len(names)
        BY <2>1
    <2> DEFINE tail == Tail(names)
    <2>3. tail \in Seq(Names) /\ \A i \in 1 .. Len(tail) : tail[i] = names[i + 1] /\ i + 1 \in 1 .. Len(names)
        BY <2>2
    <2> HIDE DEF tail
    <2>4. \A y \in Range(tail) : \E i \in 1 .. Len(tail) : y = tail[i]
        BY <2>3, RangeIs
    <2>5. Range(tail) \subseteq References(e)
        BY <1>2, <2>3, <2>4 DEF names
    <2>6. QED  BY <2>5 DEF tail, names
<1>9. QED  BY <1>3, <1>4, <1>5, <1>6, <1>7, <1>8

LEMMA EffectsApart ==
    ASSUME NEW run \in Runs, NEW out, NEW kept, Apart(run, out, kept),
           NEW n \in Names \ kept, run.env[n] # Unbound
    PROVE  Effects(run, n) \subseteq Names \ kept
<1>1. \A m \in Names \ kept : run.env[m] # Unbound => Value(run, m).effects \subseteq Names \ kept
    BY RunIs DEF Apart, Cells
<1>2. QED  BY <1>1 DEF Effects

LEMMA ReachedApart ==
    ASSUME NEW run \in Runs, NEW out, NEW kept, Apart(run, out, kept),
           NEW e \in Expressions, e.kind = "call", Bound(run, References(e)), References(e) \cap kept = {}
    PROVE  Reached(run, e) \subseteq out
<1>1. /\ e.names[1] \in Names \ kept /\ run.env[e.names[1]] # Unbound
      /\ Range(Tail(e.names)) \subseteq Names \ kept
    BY ReferencesAre DEF Bound
<1>2. Effects(run, e.names[1]) \subseteq Names \ kept
    BY <1>1, EffectsApart
<1> DEFINE roots == ({run.env[n] : n \in Range(Tail(e.names)) \cup Effects(run, e.names[1])} \ {Unbound})
                       \cup Range(Value(run, e.names[1]).refs)
<1>3. {run.env[n] : n \in Range(Tail(e.names)) \cup Effects(run, e.names[1])} \ {Unbound} \subseteq out
    BY <1>1, <1>2 DEF Apart
<1>4. Range(Value(run, e.names[1]).refs) \subseteq out
    BY <1>1 DEF Apart, Closes, Value
<1>5. roots \in SUBSET out
    BY <1>3, <1>4
<1>6. Reached(run, e) = Reach(run, roots)
    BY DEF Reached
<1> HIDE DEF roots
<1>7. QED  BY <1>5, <1>6, ReachIs DEF Apart

LEMMA CalledApart ==
    ASSUME NEW run \in Runs, NEW out, NEW kept \in SUBSET Names, Apart(run, out, kept),
           NEW e \in Expressions, e.kind = "call", Bound(run, References(e)), References(e) \cap kept = {},
           NEW after \in Called(run, e)
    PROVE  /\ after \in Runs
           /\ \A n \in Names : run.env[n] # Unbound => after.env[n] # Unbound
           /\ \E out2 : Untouched(after, out2, run, out, kept)
<1>1. CASE after = run
    BY <1>1, Still
<1>2. ASSUME NEW o \in Reached(run, e), NEW s \in Strings, run.heap[o].list,
             after = Lengthened(run, o, s)
      PROVE  /\ after \in Runs /\ after.env = run.env
             /\ Untouched(after, out, run, out, kept)
    <2> DEFINE old == run.heap[o]
               items == Append(old.items, s)
               cell == [old EXCEPT !.items = items]
    <2>1. o \in out /\ o \in Objects
        BY ReachedApart DEF Apart, Closes
    <2>2. old \in Cells /\ items \in Seq(Strings)
        BY <2>1, RunIs DEF Cells
    <2>3. after = [run EXCEPT !.heap[o] = cell]
        BY <1>2 DEF Lengthened
    <2> HIDE DEF items
    <2>4. cell \in Cells /\ cell.refs = run.heap[o].refs /\ cell.effects = run.heap[o].effects
        <3>1. old = run.heap[o]
            OBVIOUS
        <3> HIDE DEF old
        <3>2. QED  BY <2>2, <3>1 DEF Cells
    <2> HIDE DEF cell
    <2>5. Range(cell.refs) \subseteq out /\ cell.effects \cap kept = {}
        BY <2>1, <2>4 DEF Apart, Closes
    <2>6. QED  BY <2>1, <2>3, <2>4, <2>5, WriteIs
<1>3. ASSUME NEW n \in Effects(run, e.names[1]), NEW s \in Strings, NEW r \in New(run, List(<<s>>)),
             after = BindResult(r, <<n>>)
      PROVE  /\ after \in Runs
             /\ \A m \in Names : run.env[m] # Unbound => after.env[m] # Unbound
             /\ \E out2 : Untouched(after, out2, run, out, kept)
    <2> DEFINE value == List(<<s>>)  out2 == (out \cap Live(run)) \cup {r.object}
    <2>1. e.names[1] \in Names \ kept /\ run.env[e.names[1]] # Unbound
        BY ReferencesAre DEF Bound
    <2>2. n \in Names \ kept
        BY <2>1, EffectsApart
    <2>3. <<s>> \in Seq(Strings)
        OBVIOUS
    <2>4. value \in Cells /\ value.refs = << >> /\ value.effects = {}
        BY <2>3, CellsAre
    <2>5. Range(value.refs) = {}
        BY <2>4 DEF Range
    <2>6. r \in New(run, value)
        OBVIOUS
    <2> HIDE DEF value
    <2>7. r.run \in Runs /\ r.run.env = run.env /\ r.object \in Objects /\ r.object # Unbound
        BY <2>4, <2>6, NewIs, CellsAre
    <2>8. Untouched(r.run, out2, run, out, kept) /\ Apart(r.run, out2, kept) /\ r.object \in out2
        <3>1. Range(value.refs) \subseteq out \cap Live(run) /\ value.effects \cap kept = {}
            BY <2>4, <2>5
        <3>2. Untouched(r.run, out2, run, out, kept)
            BY <2>4, <2>6, <3>1, NewApart
        <3>3. QED  BY <3>2 DEF Untouched
    <2> HIDE DEF out2
    <2>9. Range(<<n>>) = {n} /\ after = BindAll(r.run, <<n>>, r.object)
        BY <1>3 DEF Range, BindResult
    <2> DEFINE names == <<n>>
    <2>10. Range(names) = {n} /\ after = BindAll(r.run, names, r.object)
        BY <2>9
    <2> HIDE DEF names
    <2>11. /\ after \in Runs
           /\ \A m \in Names : after.env[m] = IF m \in {n} THEN r.object ELSE r.run.env[m]
           /\ Untouched(after, out2, r.run, out2, kept)
        BY <2>2, <2>7, <2>8, <2>10, BindIs
    <2>12. QED  BY <2>7, <2>8, <2>11, Twice
<1>4. \/ after = run
      \/ \E o \in Reached(run, e), s \in Strings :
            run.heap[o].list /\ after = Lengthened(run, o, s)
      \/ \E n \in Effects(run, e.names[1]), s \in Strings : after \in Rebound(run, n, s)
    BY DEF Called
<1>5. CASE \E o \in Reached(run, e), s \in Strings :
              run.heap[o].list /\ after = Lengthened(run, o, s)
    BY <1>2, <1>5
<1>6. CASE \E n \in Effects(run, e.names[1]), s \in Strings : after \in Rebound(run, n, s)
    BY <1>3, <1>6 DEF Rebound
<1>7. QED  BY <1>1, <1>4, <1>5, <1>6

LEMMA SeqIn ==
    ASSUME NEW S, NEW set, NEW seq \in Seq(S), Range(seq) \subseteq set
    PROVE  seq \in Seq(set)
<1>1. seq \in [1 .. Len(seq) -> S] /\ Len(seq) \in Nat
    OBVIOUS
<1>2. \A i \in 1 .. Len(seq) : seq[i] \in set
    BY RangeIs
<1>3. seq \in [1 .. Len(seq) -> set]
    BY <1>1, <1>2
<1>4. QED  BY <1>1, <1>3

\* What the display or sum of sequences holds.
LEMMA SummedIs ==
    ASSUME NEW run \in Runs, NEW e \in Expressions, Bound(run, References(e)),
           NEW set \in SUBSET Objects, \A n \in References(e) : Range(Value(run, n).refs) \subseteq set
    PROVE  LET cell == Summed(run, e.parts)
           IN  /\ cell \in Cells /\ cell.list /\ cell.effects = {} /\ Range(cell.refs) \subseteq set
               /\ cell.items = FlattenSeq([i \in DOMAIN e.parts |->
                     IF e.parts[i] \in Names THEN Value(run, e.parts[i]).items ELSE <<e.parts[i]>>])
               /\ (\A n \in References(e) : Value(run, n).refs = << >>) => cell.refs = << >>
<1> DEFINE parts == e.parts
           itemsOf == [i \in DOMAIN parts |->
                          IF parts[i] \in Names THEN Value(run, parts[i]).items ELSE <<parts[i]>>]
           refsOf == [i \in DOMAIN parts |->
                          IF parts[i] \in Names THEN Value(run, parts[i]).refs ELSE << >>]
           items == FlattenSeq(itemsOf)
           refs == FlattenSeq(refsOf)
           base == List(items)
<1>1. parts \in Seq(Names \cup Strings) /\ Range(parts) \cap Names \subseteq References(e)
    BY ExpressionIs
<1>2. Summed(run, e.parts) = [base EXCEPT !.refs = refs]
    BY DEF Summed
<1> HIDE DEF parts
<1>3. DOMAIN parts = 1 .. Len(parts) /\ Len(parts) \in Nat
    BY <1>1
<1>4. ASSUME NEW i \in 1 .. Len(parts), parts[i] \in Names
      PROVE  /\ parts[i] \in References(e) /\ Value(run, parts[i]) \in Cells
             /\ Value(run, parts[i]).items \in Seq(Strings) /\ Value(run, parts[i]).refs \in Seq(set)
    <2>1. parts[i] \in References(e)
        BY <1>1, <1>4, RangeIs
    <2>2. Value(run, parts[i]) \in Cells
        BY <1>4, <2>1, RunIs DEF Bound
    <2>3. /\ Value(run, parts[i]).items \in Seq(Strings)
          /\ Value(run, parts[i]).refs \in Seq(Objects)
        BY <2>2 DEF Cells
    <2>4. Value(run, parts[i]).refs \in Seq(set)
        BY <2>1, <2>3, SeqIn
    <2>5. QED  BY <2>1, <2>2, <2>3, <2>4
<1>5. \A i \in 1 .. Len(parts) : parts[i] \notin Names => parts[i] \in Strings
    BY <1>1
<1>6. itemsOf \in Seq(Seq(Strings))
    <2>1. \A i \in 1 .. Len(parts) :
             (IF parts[i] \in Names THEN Value(run, parts[i]).items ELSE <<parts[i]>>) \in Seq(Strings)
        BY <1>4, <1>5
    <2>2. QED  BY <1>3, <2>1
<1>7. refsOf \in Seq(Seq(set))
    <2>1. << >> \in Seq(set)
        OBVIOUS
    <2>2. \A i \in 1 .. Len(parts) :
             (IF parts[i] \in Names THEN Value(run, parts[i]).refs ELSE << >>) \in Seq(set)
        BY <1>4, <2>1
    <2>3. QED  BY <1>3, <2>2
<1>8. ASSUME \A n \in References(e) : Value(run, n).refs = << >>
      PROVE  refs = << >>
    <2>1. \A i \in 1 .. Len(parts) :
             (IF parts[i] \in Names THEN Value(run, parts[i]).refs ELSE << >>) \in {<< >>}
        BY <1>4, <1>8
    <2>2. refsOf \in Seq({<< >>})
        BY <1>3, <2>1
    <2> HIDE DEF refsOf
    <2>3. QED  BY <2>2, FlattenEmpty
<1> HIDE DEF itemsOf, refsOf
<1>9. items \in Seq(Strings) /\ refs \in Seq(set)
    BY <1>6, <1>7, FlattenTyped
<1> HIDE DEF refs
<1>10. Range(refs) \subseteq set
    BY <1>9, RangeIs
<1>11. refs \in Seq(Objects)
    BY <1>9, <1>10, SeqIn
<1>12. base \in Cells /\ base.list /\ base.items = items /\ base.effects = {}
    <2> HIDE DEF items
    <2>1. QED  BY <1>9, CellsAre
<1> HIDE DEF base, items
<1> DEFINE cell == [base EXCEPT !.refs = refs]
<1>13. cell \in Cells /\ cell.list /\ cell.items = items /\ cell.effects = {} /\ cell.refs = refs
    BY <1>11, <1>12 DEF Cells
<1> HIDE DEF cell
<1>14. Summed(run, e.parts) = cell
    BY <1>2 DEF cell
<1>15. QED  BY <1>8, <1>10, <1>13, <1>14 DEF items, itemsOf, parts

LEMMA EvaluatedIs ==
    ASSUME NEW run, NEW e \in Expressions, NEW r \in Evaluated(run, e)
    PROVE  /\ Bound(run, References(e))
           /\ e.kind = "name" => r = [run |-> run, object |-> run.env[e.names[1]]]
           /\ e.kind = "seq" => /\ \A n \in References(e) : Value(run, n).list
                                /\ r \in New(run, Summed(run, e.parts))
           /\ e.kind = "pair" => r \in New(run, Holding(<<run.env[e.names[1]], run.env[e.names[2]]>>))
           /\ e.kind = "other" => r \in New(run, Opaque)
           /\ e.kind = "call" =>
                 \E after \in Called(run, e) :
                    r \in New(after, Opaque) \/ \E o \in Reached(after, e) : r = [run |-> after, object |-> o]
<1>1. Bound(run, References(e))
    BY DEF Evaluated
<1>2. CASE e.kind = "name"
    BY <1>1, <1>2 DEF Evaluated
<1>3. CASE e.kind = "seq"
    BY <1>1, <1>3 DEF Evaluated
<1>4. CASE e.kind = "pair"
    BY <1>1, <1>4 DEF Evaluated
<1>5. CASE e.kind = "other"
    BY <1>1, <1>5 DEF Evaluated
<1>6. CASE e.kind = "call"
    BY <1>1, <1>6 DEF Evaluated
<1>7. QED  BY <1>1, <1>2, <1>3, <1>4, <1>5, <1>6, ExpressionIs

\* The value a new object takes.
LEMMA DisplayIs ==
    ASSUME NEW run \in Runs, NEW e \in Expressions, NEW r \in Evaluated(run, e),
           e.kind \in {"seq", "pair", "other"}
    PROVE  \E value \in Cells :
              /\ r \in New(run, value) /\ value.effects = {}
              /\ \A set \in SUBSET Objects :
                    (\A n \in References(e) : run.env[n] \in set /\ Range(Value(run, n).refs) \subseteq set)
                       => Range(value.refs) \subseteq set
<1>1. Bound(run, References(e))
    BY EvaluatedIs
<1>2. CASE e.kind = "seq"
    <2> DEFINE value == Summed(run, e.parts)
    <2>1. \A n \in References(e) : Range(Value(run, n).refs) \subseteq Objects
        BY <1>1, ReferencesAre, RunIs DEF Bound
    <2>2. value \in Cells /\ value.effects = {}
        BY <1>1, <2>1, SummedIs
    <2>3. r \in New(run, value)
        BY <1>2, EvaluatedIs
    <2>4. \A set \in SUBSET Objects :
             (\A n \in References(e) : Range(Value(run, n).refs) \subseteq set)
                => Range(value.refs) \subseteq set
        BY <1>1, SummedIs
    <2> HIDE DEF value
    <2>5. QED  BY <2>2, <2>3, <2>4
<1>3. CASE e.kind = "pair"
    <2> DEFINE first == run.env[e.names[1]]  second == run.env[e.names[2]]
               refs == <<first, second>>
               value == Holding(refs)
    <2>1. e.names[1] \in References(e) /\ e.names[2] \in References(e)
        BY <1>3, ReferencesAre
    <2>2. first \in Objects /\ second \in Objects
        BY <1>1, <2>1, ReferencesAre, RunIs DEF Bound
    <2>3. r \in New(run, value)
        BY <1>3, EvaluatedIs
    <2>4. first = run.env[e.names[1]] /\ second = run.env[e.names[2]]
        OBVIOUS
    <2> HIDE DEF first, second
    <2>5. refs \in Seq(Objects) /\ Range(refs) = {first, second}
        BY <2>2 DEF Range
    <2> HIDE DEF refs
    <2>6. value \in Cells /\ value.refs = refs /\ value.effects = {}
        BY <2>5, CellsAre
    <2> HIDE DEF value
    <2>7. QED  BY <2>1, <2>3, <2>4, <2>5, <2>6
<1>4. CASE e.kind = "other"
    <2>1. Opaque \in Cells /\ Opaque.effects = {} /\ Range(Opaque.refs) = {}
        BY CellsAre DEF Range
    <2>2. r \in New(run, Opaque)
        BY <1>4, EvaluatedIs
    <2>3. QED  BY <2>1, <2>2
<1>5. QED  BY <1>2, <1>3, <1>4

LEMMA EvaluatedTyped ==
    ASSUME NEW run \in Runs, NEW e \in Expressions, NEW r \in Evaluated(run, e)
    PROVE  /\ r.run \in Runs /\ r.object \in Objects
           /\ \A n \in Names : run.env[n] # Unbound => r.run.env[n] # Unbound
           /\ e.kind # "call" => r.run.env = run.env
<1>1. Bound(run, References(e)) /\ References(e) \subseteq Names
    BY EvaluatedIs, ReferencesAre
<1>2. CASE e.kind = "name"
    <2>1. r = [run |-> run, object |-> run.env[e.names[1]]] /\ e.names[1] \in References(e)
        BY <1>2, EvaluatedIs, ReferencesAre
    <2>2. run.env[e.names[1]] \in Objects
        BY <1>1, <2>1, RunIs DEF Bound
    <2>3. QED  BY <1>2, <2>1, <2>2
<1>3. CASE e.kind \in {"seq", "pair", "other"}
    <2>1. PICK value \in Cells : r \in New(run, value)
        BY <1>3, DisplayIs
    <2>2. QED  BY <2>1, NewIs
<1>4. CASE e.kind = "call"
    <2>1. PICK after \in Called(run, e) :
             r \in New(after, Opaque) \/ \E o \in Reached(after, e) : r = [run |-> after, object |-> o]
        BY <1>4, EvaluatedIs
    <2>2. Apart(run, Objects, {}) /\ References(e) \cap {} = {} /\ {} \in SUBSET Names
        BY Everything
    <2>3. after \in Runs /\ \A n \in Names : run.env[n] # Unbound => after.env[n] # Unbound
        BY <1>1, <1>4, <2>2, CalledApart
    <2>4. Bound(after, References(e))
        BY <1>1, <2>3 DEF Bound
    <2>5. Reached(after, e) \subseteq Objects
        <3>1. Apart(after, Objects, {})
            BY <2>3, Everything
        <3>2. QED  BY <1>4, <2>2, <2>3, <2>4, <3>1, ReachedApart
    <2>6. CASE r \in New(after, Opaque)
        BY <1>4, <2>3, <2>6, NewIs, CellsAre
    <2>7. CASE \E o \in Reached(after, e) : r = [run |-> after, object |-> o]
        BY <1>4, <2>3, <2>5, <2>7
    <2>8. QED  BY <2>1, <2>6, <2>7
<1>5. QED  BY <1>2, <1>3, <1>4, ExpressionIs

\* An expression that mentions no name of kept has its value outside kept.
LEMMA EvaluatedApart ==
    ASSUME NEW run \in Runs, NEW out, NEW kept \in SUBSET Names, Apart(run, out, kept),
           NEW e \in Expressions, References(e) \cap kept = {}, NEW r \in Evaluated(run, e)
    PROVE  \E out2 : Untouched(r.run, out2, run, out, kept) /\ r.object \in out2
<1>1. Bound(run, References(e)) /\ References(e) \subseteq Names \ kept
    BY EvaluatedIs, ReferencesAre
<1>2. CASE e.kind = "name"
    <2>1. r = [run |-> run, object |-> run.env[e.names[1]]] /\ e.names[1] \in References(e)
        BY <1>2, EvaluatedIs, ReferencesAre
    <2>2. run.env[e.names[1]] \in out
        BY <1>1, <2>1 DEF Apart, Bound
    <2>3. QED  BY <2>1, <2>2, Still
<1>3. CASE e.kind \in {"seq", "pair", "other"}
    <2>1. PICK value \in Cells :
              /\ r \in New(run, value) /\ value.effects = {}
              /\ \A set \in SUBSET Objects :
                    (\A n \in References(e) : run.env[n] \in set /\ Range(Value(run, n).refs) \subseteq set)
                       => Range(value.refs) \subseteq set
        BY <1>3, DisplayIs
    <2> DEFINE set == out \cap Live(run)
    <2>2. \A n \in References(e) : run.env[n] \in set /\ Range(Value(run, n).refs) \subseteq set
        BY <1>1, LiveIs DEF Apart, Bound, Closes, Value
    <2>3. set \in SUBSET Objects
        BY DEF Apart, Closes
    <2>4. Range(value.refs) \subseteq set /\ value.effects \cap kept = {}
        <3> HIDE DEF set
        <3>1. QED  BY <2>1, <2>2, <2>3
    <2>5. Untouched(r.run, set \cup {r.object}, run, out, kept)
        BY <2>1, <2>4, NewApart
    <2>6. QED  BY <2>5
<1>4. CASE e.kind = "call"
    <2>1. PICK after \in Called(run, e) :
             r \in New(after, Opaque) \/ \E o \in Reached(after, e) : r = [run |-> after, object |-> o]
        BY <1>4, EvaluatedIs
    <2>2. /\ after \in Runs
          /\ \A n \in Names : run.env[n] # Unbound => after.env[n] # Unbound
          /\ \E out2 : Untouched(after, out2, run, out, kept)
        BY <1>1, <1>4, CalledApart
    <2>3. PICK out2 : Untouched(after, out2, run, out, kept)
        BY <2>2
    <2>4. Bound(after, References(e)) /\ Apart(after, out2, kept)
        BY <1>1, <2>2, <2>3 DEF Bound, Untouched
    <2>5. CASE r \in New(after, Opaque)
        <3> DEFINE out3 == (out2 \cap Live(after)) \cup {r.object}
        <3>1. Opaque \in Cells /\ Range(Opaque.refs) \subseteq out2 \cap Live(after) /\ Opaque.effects \cap kept = {}
            BY CellsAre DEF Range
        <3>2. Untouched(r.run, out3, after, out2, kept) /\ r.object \in out3
            BY <2>2, <2>4, <2>5, <3>1, NewApart
        <3> HIDE DEF out3
        <3>3. Untouched(r.run, out3, run, out, kept)
            BY <2>3, <3>2, Twice
        <3>4. QED  BY <3>2, <3>3
    <2>6. CASE \E o \in Reached(after, e) : r = [run |-> after, object |-> o]
        <3>1. Reached(after, e) \subseteq out2
            BY <1>4, <2>2, <2>4, ReachedApart
        <3>2. r.run = after /\ r.object \in out2
            BY <2>6, <3>1
        <3>3. QED  BY <2>3, <3>2
    <2>7. QED  BY <2>1, <2>5, <2>6
<1>5. QED  BY <1>2, <1>3, <1>4, ExpressionIs

\* Evaluating an expression leaves kept alone: it is no call, or mentions no name of kept.
LEMMA EvaluatedAside ==
    ASSUME NEW run \in Runs, NEW out, NEW kept \in SUBSET Names, Apart(run, out, kept),
           NEW e \in Expressions, e.kind # "call" \/ References(e) \cap kept = {}, NEW r \in Evaluated(run, e)
    PROVE  \E out2 : Untouched(r.run, out2, run, out, kept)
<1>1. CASE References(e) \cap kept = {}
    BY <1>1, EvaluatedApart
<1>2. CASE e.kind = "name"
    <2>1. r = [run |-> run, object |-> run.env[e.names[1]]]
        BY <1>2, EvaluatedIs
    <2>2. Untouched(run, out, run, out, kept)
        BY Still
    <2>3. QED  BY <2>1, <2>2
<1>3. CASE e.kind \in {"seq", "pair", "other"}
    <2>1. PICK value \in Cells : r \in New(run, value)
        BY <1>3, DisplayIs
    <2>2. QED  BY <2>1, NewApart
<1>4. QED  BY <1>1, <1>2, <1>3, ExpressionIs
-----------------------------------------------------------------------------
(* What a state tells of a run. *)

\* The sequences a state knows are those of the run, in objects nothing else holds.
Knows(s, run, out) ==
    \A n \in DOMAIN s.known :
       /\ run.env[n] # Unbound /\ run.env[n] \notin out
       /\ Value(run, n).list /\ Value(run, n).items = s.known[n] /\ Value(run, n).refs = << >>
       /\ \A m \in DOMAIN s.known \ {n} : run.env[m] = run.env[n] => {m, n} \in s.aliases

Tells(s, run, out) ==
    /\ Apart(run, out, tracked)
    /\ s.exports = "missing" => run.env[All] = Unbound
    /\ Knows(s, run, out)

Follows(s, run) == s.dynamic \/ \E out : Tells(s, run, out)

LEMMA KnownTracked ==
    ASSUME Tracking, NEW s \in States
    PROVE  /\ DOMAIN s.known \subseteq tracked /\ DOMAIN s.known \subseteq Names
           /\ \A n \in DOMAIN s.known : s.known[n] \in Values
BY StateIs, KnownIs DEF Tracking

LEMMA UntouchedTells ==
    ASSUME Tracking, NEW s \in States, NEW run, NEW out, NEW x, NEW out2,
           Tells(s, run, out), Untouched(x, out2, run, out, tracked)
    PROVE  Tells(s, x, out2)
<1>1. Apart(x, out2, tracked) /\ \A n \in tracked : x.env[n] = run.env[n]
    BY DEF Untouched
<1>2. s.exports = "missing" => x.env[All] = Unbound
    BY <1>1 DEF Tells, Tracking
<1>3. ASSUME NEW n \in DOMAIN s.known
      PROVE  /\ x.env[n] = run.env[n] /\ x.env[n] # Unbound /\ x.env[n] \notin out2
             /\ Value(x, n) = Value(run, n)
    <2>1. n \in tracked /\ run.env[n] # Unbound /\ run.env[n] \notin out
        BY KnownTracked DEF Tells, Knows
    <2>2. run.env[n] \notin out2 /\ x.heap[run.env[n]] = run.heap[run.env[n]] /\ x.env[n] = run.env[n]
        BY <2>1 DEF Untouched
    <2>3. QED  BY <2>1, <2>2 DEF Value
<1>4. Knows(s, x, out2)
    BY <1>3 DEF Tells, Knows
<1>5. QED  BY <1>1, <1>2, <1>4 DEF Tells

LEMMA ResolvedIs ==
    ASSUME NEW known, NEW e \in Expressions, Resolve(e, known) # Unresolved
    PROVE  \/ e.kind = "name" /\ e.names[1] \in DOMAIN known /\ Resolve(e, known) = known[e.names[1]]
           \/ /\ e.kind = "seq" /\ References(e) \subseteq DOMAIN known
              /\ Resolve(e, known) = FlattenSeq([i \in DOMAIN e.parts |->
                      IF e.parts[i] \in Names THEN known[e.parts[i]] ELSE <<e.parts[i]>>])
<1>1. CASE e.kind = "name" /\ e.names[1] \in DOMAIN known
    BY <1>1 DEF Resolve
<1>2. CASE e.kind = "seq" /\ References(e) \subseteq DOMAIN known
    BY <1>2 DEF Resolve
<1>3. CASE ~(e.kind = "name" /\ e.names[1] \in DOMAIN known) /\ ~(e.kind = "seq" /\ References(e) \subseteq DOMAIN known)
    BY <1>3 DEF Resolve
<1>4. QED  BY <1>1, <1>2, <1>3

\* The value of an expression that the state resolves.
ValuedApart(s, run, e, r, out2) ==
    /\ Tells(s, r.run, out2) /\ r.object \notin out2 /\ r.run.env = run.env
    /\ r.run.heap[r.object].list
    /\ r.run.heap[r.object].items = Resolve(e, s.known)
    /\ r.run.heap[r.object].refs = << >>
    /\ \A n \in DOMAIN s.known : run.env[n] = r.object =>
          /\ e.kind = "name" /\ e.names[1] \in DOMAIN s.known
          /\ n = e.names[1] \/ {e.names[1], n} \in s.aliases

LEMMA EvaluatedResolved ==
    ASSUME Tracking, NEW run \in Runs, NEW s \in States, NEW out, Tells(s, run, out),
           NEW e \in Expressions, Resolve(e, s.known) # Unresolved, NEW r \in Evaluated(run, e)
    PROVE  \E out2 : ValuedApart(s, run, e, r, out2)
<1>1. Bound(run, References(e)) /\ References(e) \subseteq Names
    BY EvaluatedIs, ReferencesAre
<1>2. CASE e.kind = "name" /\ e.names[1] \in DOMAIN s.known /\ Resolve(e, s.known) = s.known[e.names[1]]
    <2> DEFINE n == e.names[1]
    <2>1. r = [run |-> run, object |-> run.env[n]]
        BY <1>2, EvaluatedIs
    <2>2. r.run = run /\ r.object = run.env[n]
        BY <2>1
    <2> HIDE DEF n
    <2>3. /\ n \in DOMAIN s.known /\ run.env[n] \notin out
          /\ Value(run, n).list /\ Value(run, n).items = s.known[n] /\ Value(run, n).refs = << >>
          /\ \A m \in DOMAIN s.known \ {n} : run.env[m] = run.env[n] => {m, n} \in s.aliases
        BY <1>2 DEF Tells, Knows, n
    <2>4. \A m : {m, n} = {n, m}
        OBVIOUS
    <2>5. QED
        <3> SUFFICES ValuedApart(s, run, e, r, out)
            OBVIOUS
        <3>1. \A m \in DOMAIN s.known : run.env[m] = r.object => m = n \/ {n, m} \in s.aliases
            BY <2>2, <2>3, <2>4
        <3>2. QED  BY <1>2, <2>2, <2>3, <3>1 DEF ValuedApart, Value, n
<1>3. CASE /\ e.kind = "seq" /\ References(e) \subseteq DOMAIN s.known
           /\ Resolve(e, s.known) = FlattenSeq([i \in DOMAIN e.parts |->
                  IF e.parts[i] \in Names THEN s.known[e.parts[i]] ELSE <<e.parts[i]>>])
    <2> DEFINE value == Summed(run, e.parts)
               out2 == out \cap Live(run)
    <2>1. \A n \in References(e) : Range(Value(run, n).refs) \subseteq Objects /\ Value(run, n).refs = << >>
        BY <1>1, <1>3, RunIs DEF Bound, Tells, Knows
    <2>2. /\ value \in Cells /\ value.list /\ value.refs = << >>
          /\ value.items = FlattenSeq([i \in DOMAIN e.parts |->
                     IF e.parts[i] \in Names THEN Value(run, e.parts[i]).items ELSE <<e.parts[i]>>])
        BY <1>1, <2>1, SummedIs
    <2>3. [i \in DOMAIN e.parts |-> IF e.parts[i] \in Names THEN Value(run, e.parts[i]).items ELSE <<e.parts[i]>>]
             = [i \in DOMAIN e.parts |-> IF e.parts[i] \in Names THEN s.known[e.parts[i]] ELSE <<e.parts[i]>>]
        <3>1. ASSUME NEW i \in DOMAIN e.parts, e.parts[i] \in Names
              PROVE  Value(run, e.parts[i]).items = s.known[e.parts[i]]
            <4>1. e.parts[i] \in References(e)
                BY <3>1, ExpressionIs DEF Range
            <4>2. QED  BY <1>3, <4>1 DEF Tells, Knows
        <3>2. QED  BY <3>1
    <2>4. value.items = Resolve(e, s.known)
        BY <1>3, <2>2, <2>3
    <2>5. r \in New(run, value)
        BY <1>3, EvaluatedIs
    <2> HIDE DEF value
    <2>6. Apart(run, out, tracked) /\ tracked \in SUBSET Names
        BY DEF Tells, Tracking
    <2>7. Untouched(r.run, out2, run, out, tracked)
        BY <2>2, <2>5, <2>6, NewApart
    <2>8. Tells(s, r.run, out2)
        <3> HIDE DEF out2
        <3>1. QED  BY <2>7, UntouchedTells
    <2>9. r.object \in Objects \ Live(run) /\ r.run.env = run.env /\ r.run.heap[r.object] = value
        BY <2>2, <2>5, NewIs
    <2>10. \A n \in DOMAIN s.known : run.env[n] # r.object
        BY <2>9, LiveIs, KnownTracked, RunIs DEF Tells, Knows
    <2>11. QED  BY <2>2, <2>4, <2>8, <2>9, <2>10 DEF ValuedApart
<1>4. QED  BY <1>2, <1>3, ResolvedIs
-----------------------------------------------------------------------------
(* Statements without a body, as Python executes them. *)

LEMMA SetToSeqEmpty == SetToSeq({}) = << >>
<1>1. Cardinality({}) = 0
    BY FS_EmptySet
<1>2. \A f \in [1 .. 0 -> {}] : f = << >>
    OBVIOUS
<1>3. << >> \in [1 .. 0 -> {}] /\ IsInjective(<< >>)
    BY DEF IsInjective
<1>4. SetToSeq({}) = CHOOSE f \in [1 .. 0 -> {}] : IsInjective(f)
    BY <1>1 DEF SetToSeq
<1>5. QED  BY <1>2, <1>3, <1>4

\* One object takes another value: it works on the same names, and holds objects
\* it held before, or some of more.
Changes(x, run, o, more) ==
    \E cell \in Cells :
       /\ x = [run EXCEPT !.heap[o] = cell]
       /\ cell.effects = run.heap[o].effects
       /\ Range(cell.refs) \subseteq Range(run.heap[o].refs) \cup more

LEMMA ChangesIs ==
    ASSUME NEW run \in Runs, NEW o \in Objects, NEW x, NEW more, Changes(x, run, o, more)
    PROVE  /\ x \in Runs
           /\ \A out, kept : /\ Apart(run, out, kept) /\ kept \subseteq Names
                             /\ o \in out /\ more \subseteq out
                             => Untouched(x, out, run, out, kept)
<1>1. PICK cell \in Cells : /\ x = [run EXCEPT !.heap[o] = cell]
                            /\ cell.effects = run.heap[o].effects
                            /\ Range(cell.refs) \subseteq Range(run.heap[o].refs) \cup more
    BY DEF Changes
<1>2. ASSUME NEW out, NEW kept, Apart(run, out, kept), kept \subseteq Names, o \in out, more \subseteq out
      PROVE  Untouched(x, out, run, out, kept)
    <2>1. Range(cell.refs) \subseteq out /\ cell.effects \cap kept = {}
        BY <1>1, <1>2 DEF Apart, Closes
    <2>2. QED  BY <1>1, <1>2, <2>1, WriteIs
<1>3. QED  BY <1>1, <1>2, WriteIs

LEMMA OverwrittenIs ==
    ASSUME NEW run \in Runs, NEW o \in Objects, run.heap[o].items # << >>, NEW s \in Strings
    PROVE  Changes(Overwritten(run, o, s), run, o, {})
<1> DEFINE old == run.heap[o]  items == [old.items EXCEPT ![1] = s]  cell == [old EXCEPT !.items = items]
<1>1. old \in Cells /\ old.items \in Seq(Strings) /\ old.items # << >>
    BY RunIs DEF Cells
<1>2. items \in Seq(Strings)
    <2> DEFINE seq == old.items
    <2>1. seq \in Seq(Strings) /\ seq # << >>
        BY <1>1
    <2> HIDE DEF seq
    <2>2. [seq EXCEPT ![1] = s] \in Seq(Strings)
        BY <2>1
    <2>3. QED  BY <2>2 DEF seq
<1>3. Overwritten(run, o, s) = [run EXCEPT !.heap[o] = cell]
    BY DEF Overwritten
<1> HIDE DEF items
<1>4. cell \in Cells /\ cell.effects = run.heap[o].effects /\ cell.refs = run.heap[o].refs
    <2>1. old = run.heap[o]
        OBVIOUS
    <2> HIDE DEF old
    <2>2. QED  BY <1>1, <1>2, <2>1 DEF Cells
<1> HIDE DEF cell
<1>5. QED  BY <1>3, <1>4 DEF Changes

LEMMA ShortenedIs ==
    ASSUME NEW run \in Runs, NEW n \in Names, run.env[n] # Unbound, Value(run, n).items # << >>
    PROVE  Changes(Shortened(run, n), run, run.env[n], {})
<1> DEFINE o == run.env[n]  old == run.heap[o]  items == Tail(old.items)  cell == [old EXCEPT !.items = items]
<1>1. old \in Cells /\ old.items \in Seq(Strings) /\ old.items # << >>
    BY RunIs DEF Cells, Value
<1>2. items \in Seq(Strings)
    BY <1>1
<1>3. Shortened(run, n) = [run EXCEPT !.heap[o] = cell]
    BY DEF Shortened
<1> HIDE DEF items
<1>4. cell \in Cells /\ cell.effects = run.heap[o].effects /\ cell.refs = run.heap[o].refs
    <2>1. old = run.heap[o]
        OBVIOUS
    <2> HIDE DEF old
    <2>2. QED  BY <1>1, <1>2, <2>1 DEF Cells
<1> HIDE DEF cell
<1>5. QED  BY <1>3, <1>4 DEF Changes

LEMMA RetainedIs ==
    ASSUME NEW r, r.run \in Runs, r.object \in Objects, NEW n \in Names, r.run.env[n] # Unbound
    PROVE  Changes(RetainedBy(r, n), r.run, r.run.env[n], {r.object})
<1> DEFINE run == r.run  o == run.env[n]  old == run.heap[o]  refs == Append(old.refs, r.object)
           cell == [old EXCEPT !.refs = refs]
<1>1. old \in Cells /\ old.refs \in Seq(Objects)
    BY RunIs DEF Cells, Value
<1>2. refs \in Seq(Objects) /\ Range(refs) \subseteq Range(old.refs) \cup {r.object}
    <2> DEFINE seq == old.refs
    <2>1. seq \in Seq(Objects)
        BY <1>1
    <2> HIDE DEF seq
    <2>2. Append(seq, r.object) \in Seq(Objects) /\ Range(Append(seq, r.object)) \subseteq Range(seq) \cup {r.object}
        <3>1. Append(seq, r.object) \in Seq(Objects)
            BY <2>1
        <3>2. \A i \in DOMAIN Append(seq, r.object) :
                 Append(seq, r.object)[i] = r.object \/ (i \in DOMAIN seq /\ Append(seq, r.object)[i] = seq[i])
            BY <2>1
        <3>3. QED  BY <3>1, <3>2 DEF Range
    <2>3. QED  BY <2>2 DEF seq
<1>3. RetainedBy(r, n) = [run EXCEPT !.heap[o] = cell]
    BY DEF RetainedBy
<1> HIDE DEF refs
<1>4. cell \in Cells /\ cell.effects = run.heap[o].effects /\ cell.refs = refs
    <2>1. old = run.heap[o]
        OBVIOUS
    <2> HIDE DEF old
    <2>2. QED  BY <1>1, <1>2, <2>1 DEF Cells
<1> HIDE DEF cell
<1>5. QED  BY <1>2, <1>3, <1>4 DEF Changes

LEMMA ConcatIs ==
    ASSUME NEW S, NEW first \in Seq(S), NEW second \in Seq(S)
    PROVE  first \o second \in Seq(S) /\ Range(first \o second) \subseteq Range(first) \cup Range(second)
<1>1. first \o second \in Seq(S)
    OBVIOUS
<1>2. \A i \in 1 .. Len(first \o second) :
         \/ i \in 1 .. Len(first) /\ (first \o second)[i] = first[i]
         \/ i - Len(first) \in 1 .. Len(second) /\ (first \o second)[i] = second[i - Len(first)]
    OBVIOUS
<1>3. DOMAIN (first \o second) = 1 .. Len(first \o second)
    OBVIOUS
<1> DEFINE all == first \o second
<1>4. /\ DOMAIN all = 1 .. Len(all)
      /\ \A i \in 1 .. Len(all) :
            \/ i \in 1 .. Len(first) /\ all[i] = first[i]
            \/ i - Len(first) \in 1 .. Len(second) /\ all[i] = second[i - Len(first)]
    BY <1>2, <1>3
<1> HIDE DEF all
<1>5. Range(all) \subseteq Range(first) \cup Range(second)
    BY <1>4, RangeIs DEF Range
<1>6. QED  BY <1>1, <1>5 DEF all

LEMMA GrownIs ==
    ASSUME NEW r, r.run \in Runs, NEW more \in Cells, NEW n \in Names, r.run.env[n] # Unbound
    PROVE  LET x == GrownBy(r, n, more)
               o == r.run.env[n]
           IN  /\ Changes(x, r.run, o, Range(more.refs))
               /\ x.heap[o].list = r.run.heap[o].list
               /\ x.heap[o].items = r.run.heap[o].items \o more.items
               /\ x.heap[o].refs = r.run.heap[o].refs \o more.refs
               /\ x.env = r.run.env /\ \A p \in Objects \ {o} : x.heap[p] = r.run.heap[p]
<1> DEFINE run == r.run  o == run.env[n]  old == run.heap[o]
           items == old.items \o more.items  refs == old.refs \o more.refs
           cell == [old EXCEPT !.items = items, !.refs = refs]
           x == GrownBy(r, n, more)
<1>1. /\ o \in Objects
      /\ old \in Cells /\ old.refs \in Seq(Objects) /\ old.items \in Seq(Strings)
      /\ more.refs \in Seq(Objects) /\ more.items \in Seq(Strings)
    BY RunIs DEF Cells, Value
<1>2. /\ items \in Seq(Strings)
      /\ refs \in Seq(Objects) /\ Range(refs) \subseteq Range(old.refs) \cup Range(more.refs)
    BY <1>1, ConcatIs
<1>3. x = [run EXCEPT !.heap[o] = cell]
    BY DEF GrownBy, Joined
<1> HIDE DEF items, refs, x
<1>4. /\ cell \in Cells /\ cell.effects = run.heap[o].effects /\ cell.refs = refs /\ cell.items = items
      /\ cell.list = run.heap[o].list
    <2>1. old = run.heap[o]
        OBVIOUS
    <2> HIDE DEF old
    <2>2. QED  BY <1>1, <1>2, <2>1 DEF Cells
<1> HIDE DEF cell
<1>5. Changes(x, run, o, Range(more.refs))
    BY <1>2, <1>3, <1>4 DEF Changes
<1>6. x.env = run.env /\ x.heap[o] = cell /\ \A p \in Objects \ {o} : x.heap[p] = run.heap[p]
    <2> HIDE DEF o, run, old
    <2>1. run \in Runs
        BY DEF run
    <2>2. QED  BY <1>1, <1>3, <1>4, <2>1, WriteIs
<1>7. QED  BY <1>4, <1>5, <1>6 DEF x, items, refs

LEMMA ItemHeldIs ==
    ASSUME NEW run \in Runs, NEW o \in Objects, NEW object \in Objects
    PROVE  Changes([run EXCEPT !.heap[o] = ItemHeld(@, object)], run, o, {object})
<1> DEFINE old == run.heap[o]
           items == IF old.items = << >> THEN old.items ELSE Tail(old.items)
           refs == Append(old.refs, object)
           cell == [old EXCEPT !.refs = refs, !.items = items]
<1>1. old \in Cells /\ old.refs \in Seq(Objects) /\ old.items \in Seq(Strings)
    BY RunIs DEF Cells
<1>2. items \in Seq(Strings)
    BY <1>1
<1>3. refs \in Seq(Objects) /\ Range(refs) \subseteq Range(old.refs) \cup {object}
    <2> DEFINE seq == old.refs
    <2>1. seq \in Seq(Objects)
        BY <1>1
    <2> HIDE DEF seq
    <2>2. /\ Append(seq, object) \in Seq(Objects)
          /\ \A i \in DOMAIN Append(seq, object) :
                Append(seq, object)[i] = object \/ (i \in DOMAIN seq /\ Append(seq, object)[i] = seq[i])
        BY <2>1
    <2>3. Range(Append(seq, object)) \subseteq Range(seq) \cup {object}
        BY <2>2 DEF Range
    <2>4. QED  BY <2>2, <2>3 DEF seq
<1>4. [run EXCEPT !.heap[o] = ItemHeld(@, object)] = [run EXCEPT !.heap[o] = cell]
    BY DEF ItemHeld
<1> HIDE DEF items, refs
<1>5. cell \in Cells /\ cell.effects = run.heap[o].effects /\ cell.refs = refs
    <2>1. old = run.heap[o]
        OBVIOUS
    <2> HIDE DEF old
    <2>2. QED  BY <1>1, <1>2, <1>3, <2>1 DEF Cells
<1> HIDE DEF cell
<1>6. QED  BY <1>3, <1>4, <1>5 DEF Changes

Growing == {"append", "aug", "extend"}

\* The value that grows is a sequence, and is extended by what another holds.
Extends(run, st) == (st.op = "append" => st.value.kind = "seq") /\ Value(run, st.names[1]).list

\* What may come of a statement the analysis follows.
LEMMA ExecutedIs ==
    ASSUME NEW run, NEW st, IsSimple(st), FollowedSimple(st), NEW x \in Executed(run, st)
    PROVE  /\ st.op = "assign" =>
                 \E r \in Evaluated(run, st.value) : x = BindResult(r, st.names)
           /\ st.op = "unpack" =>
                 \E r \in Evaluated(run, st.value) :
                    /\ Len(r.run.heap[r.object].refs) = 2
                    /\ x = UnpackedTo(r, st.names, r.run.heap[r.object].refs)
           /\ st.op = "call" => \E r \in Evaluated(run, st.value) : x = r.run
           /\ st.op = "import" => \E module \in Modules : \E r \in New(run, module) : x = BindResult(r, st.names)
           /\ st.op = "def" => \E r \in New(run, Function(st.effects, << >>)) : x = BindResult(r, st.names)
           /\ st.op = "declare" => x = run
           /\ st.op = "delete" => x = BindAll(run, st.names, Unbound)
           /\ st.op \in Growing =>
                 /\ Bound(run, Range(st.names))
                 /\ \E r \in Evaluated(run, st.value) :
                       IF Extends(run, st)
                       THEN r.run.heap[r.object].list /\ x = GrownBy(r, st.names[1], r.run.heap[r.object])
                       ELSE x = RetainedBy(r, st.names[1])
           /\ st.op \in {"method", "delitem"} =>
                 /\ Bound(run, Range(st.names))
                 /\ \E n \in Range(st.names) : Value(run, n).items # << >> /\ x = Shortened(run, n)
           /\ st.op = "item" =>
                 /\ Bound(run, Range(st.names))
                 /\ \E r \in Evaluated(run, st.value) : x \in ItemSet(r, st.names[1], st.value)
           /\ st.op \notin {"withimport", "nested"}
<1> DEFINE results == Evaluated(run, st.value)
<1>1. x \in ExecutedOn(run, st, results)
    BY DEF Executed
<1> HIDE DEF results
<1>2. CASE st.op = "assign"
    BY <1>1, <1>2 DEF ExecutedOn, BoundTo, results, Growing
<1>3. CASE st.op = "unpack"
    BY <1>1, <1>3 DEF ExecutedOn, results, Growing
<1>4. CASE st.op = "call"
    BY <1>1, <1>4 DEF ExecutedOn, results, Growing
<1>5. CASE st.op = "import"
    BY <1>1, <1>5 DEF ExecutedOn, Imported, BoundTo, Growing
<1>6. CASE st.op = "def"
    <2>1. st.defaults = {} /\ {run.env[n] : n \in {}} = {}
        BY <1>6 DEF FollowedSimple
    <2>2. Bound(run, st.defaults) /\ SetToSeq({run.env[n] : n \in st.defaults}) = << >>
        BY <2>1, SetToSeqEmpty DEF Bound
    <2>3. x \in BoundTo(st.names, New(run, Function(st.effects, SetToSeq({run.env[n] : n \in st.defaults}))))
        BY <1>1, <1>6, <2>2 DEF ExecutedOn
    <2>4. QED  BY <1>6, <2>2, <2>3 DEF BoundTo, Growing
<1>7. CASE st.op = "declare"
    BY <1>1, <1>7 DEF ExecutedOn, Growing
<1>8. CASE st.op = "delete"
    BY <1>1, <1>8 DEF ExecutedOn, Growing
<1>9. CASE st.op \in Growing
    <2>1. Bound(run, Range(st.names))
        BY <1>1, <1>9 DEF ExecutedOn, Growing
    <2>2. ExecutedOn(run, st, results) = IF Extends(run, st) THEN Grown(results, st.names[1])
                                         ELSE Retained(results, st.names[1])
        BY <1>9, <2>1 DEF ExecutedOn, Growing, Extends
    <2>3. \E r \in results : IF Extends(run, st)
                             THEN r.run.heap[r.object].list /\ x = GrownBy(r, st.names[1], r.run.heap[r.object])
                             ELSE x = RetainedBy(r, st.names[1])
        BY <1>1, <2>2 DEF Grown, Retained
    <2>4. QED  BY <1>9, <2>1, <2>3 DEF Growing, results
<1>10. CASE st.op \in {"method", "delitem"}
    <2>1. Bound(run, Range(st.names))
        BY <1>1, <1>10 DEF ExecutedOn
    <2>2. ExecutedOn(run, st, results)
             = {Shortened(run, n) : n \in {n \in Range(st.names) : Value(run, n).items # << >>}}
        BY <1>10, <2>1 DEF ExecutedOn
    <2>3. QED  BY <1>1, <1>10, <2>1, <2>2 DEF Growing
<1>11. CASE st.op = "item"
    <2>1. Bound(run, Range(st.names))
        BY <1>1, <1>11 DEF ExecutedOn
    <2>2. ExecutedOn(run, st, results) = UNION {ItemSet(r, st.names[1], st.value) : r \in results}
        BY <1>11, <2>1 DEF ExecutedOn
    <2>3. QED  BY <1>1, <1>11, <2>1, <2>2 DEF Growing, results
<1>12. st.op \in Valueless \cup Valued /\ st.op \notin {"withimport", "nested"}
    BY DEF IsSimple, FollowedSimple
<1>13. QED
    BY <1>2, <1>3, <1>4, <1>5, <1>6, <1>7, <1>8, <1>9, <1>10, <1>11, <1>12 DEF Valueless, Valued, Growing

LEMMA NamesAre ==
    ASSUME NEW st, IsSimple(st)
    PROVE  /\ st.names \in Seq(Names) /\ st.value \in Expressions
           /\ st.op \notin {"assign", "unpack", "call"} =>
                 /\ st.names[1] \in Names /\ Range(st.names) = {st.names[1]} /\ st.names # << >>
           /\ st.op = "unpack" => /\ st.names[1] \in Names /\ st.names[2] \in Names
                                  /\ Range(st.names) = {st.names[1], st.names[2]}
           /\ st.op = "assign" => st.names # << >> /\ st.names[1] \in Range(st.names)
           /\ st.op \in Valueless => st.value.kind = "other" /\ References(st.value) = {}
<1>1. st.names \in Seq(Names) /\ st.value \in Expressions /\ Len(st.names) \in NamesOf(st.op)
    BY DEF IsSimple
<1>2. DOMAIN st.names = 1 .. Len(st.names)
    BY <1>1
<1>3. st.op \in Valueless => st.value.kind = "other" /\ References(st.value) = {}
    BY <1>1, ReferencesAre DEF IsSimple
<1>4. CASE st.op = "unpack"
    <2>1. Len(st.names) = 2
        BY <1>1, <1>4 DEF NamesOf
    <2>2. DOMAIN st.names = {1, 2}
        BY <1>2, <2>1
    <2>3. QED  BY <1>1, <1>3, <1>4, <2>1, <2>2 DEF Range
<1>5. CASE st.op = "assign"
    BY <1>1, <1>2, <1>3, <1>5 DEF NamesOf, Range
<1>6. CASE st.op = "call"
    BY <1>1, <1>3, <1>6
<1>7. CASE st.op \notin {"assign", "unpack", "call"}
    <2>1. Len(st.names) = 1
        BY <1>1, <1>7 DEF NamesOf
    <2>2. DOMAIN st.names = {1}
        BY <1>2, <2>1
    <2>3. QED  BY <1>1, <1>3, <1>7, <2>1, <2>2 DEF Range
<1>8. QED  BY <1>4, <1>5, <1>6, <1>7

LEMMA ModulesAre ==
    \A module \in Modules : module \in Cells /\ module.effects = {} /\ Range(module.refs) = {}
<1>1. \A s \in Strings : <<s>> \in Seq(Strings)
    OBVIOUS
<1>2. \A s \in Strings : List(<<s>>) \in Cells /\ List(<<s>>).effects = {} /\ List(<<s>>).refs = << >>
    BY <1>1, CellsAre
<1>3. Range(<< >>) = {}
    BY DEF Range
<1>4. ASSUME NEW module \in Modules
      PROVE  module \in Cells /\ module.effects = {} /\ module.refs = << >>
    <2>1. module = Opaque \/ \E s \in Strings : module = List(<<s>>)
        BY DEF Modules
    <2>2. CASE module = Opaque
        BY <2>2, CellsAre
    <2>3. CASE \E s \in Strings : module = List(<<s>>)
        BY <1>2, <2>3
    <2>4. QED  BY <2>1, <2>2, <2>3
<1>5. QED  BY <1>3, <1>4

LEMMA TwoIs ==
    ASSUME NEW S, NEW seq \in Seq(S)
    PROVE  Len(seq) = 2 => seq[1] \in S /\ seq[2] \in S /\ Range(seq) = {seq[1], seq[2]}
<1>1. DOMAIN seq = 1 .. Len(seq) /\ \A i \in 1 .. Len(seq) : seq[i] \in S
    OBVIOUS
<1>2. Len(seq) = 2 => 1 .. Len(seq) = {1, 2}
    OBVIOUS
<1>3. QED  BY <1>1, <1>2 DEF Range

\* Two names take the objects a pair holds.
LEMMA UnpackedIs ==
    ASSUME NEW r, r.run \in Runs, r.object \in Objects, Len(r.run.heap[r.object].refs) = 2,
           NEW names \in Seq(Names), Len(names) = 2
    PROVE  LET x == UnpackedTo(r, names, r.run.heap[r.object].refs)
           IN  /\ x \in Runs
               /\ \A n \in Names \ Range(names) : x.env[n] = r.run.env[n]
               /\ \A out, kept :
                     /\ Apart(r.run, out, kept) /\ kept \subseteq Names
                     /\ Range(names) \subseteq kept \/ r.object \in out
                     => Apart(x, out, kept)
               /\ x.heap = r.run.heap
<1> DEFINE run == r.run  refs == run.heap[r.object].refs
           first == refs[1]  second == refs[2]
           m == names[1]  n == names[2]
           x == UnpackedTo(r, names, refs)
           env == [run.env EXCEPT ![m] = first, ![n] = second]
<1>1. m \in Names /\ n \in Names /\ Range(names) = {m, n}
    BY TwoIs
<1>2. /\ first \in Objects /\ second \in Objects
      /\ first \in Range(refs) /\ second \in Range(refs)
    <2>1. refs \in Seq(Objects)
        BY RunIs DEF Cells
    <2> HIDE DEF refs
    <2>2. Len(refs) = 2
        BY DEF refs
    <2>3. QED  BY <2>1, <2>2, TwoIs
<1>3. x = [run EXCEPT !.env = env]
    BY DEF UnpackedTo, Bind
<1>4. run \in Runs /\ r.object \in Objects /\ refs = run.heap[r.object].refs
    OBVIOUS
<1> HIDE DEF run, refs, first, second, m, n, x
<1>5. run.env \in [Names -> Objects \cup {Unbound}]
    BY <1>4, RunIs
<1>6. /\ env \in [Names -> Objects \cup {Unbound}]
      /\ \A k \in Names : env[k] = IF k = n THEN second ELSE IF k = m THEN first ELSE run.env[k]
    BY <1>1, <1>2, <1>5
<1> HIDE DEF env
<1>7. x \in Runs /\ x.env = env /\ x.heap = run.heap
    BY <1>3, <1>4, <1>6 DEF Runs
<1>8. ASSUME NEW out, NEW kept, Apart(run, out, kept), kept \subseteq Names,
             Range(names) \subseteq kept \/ r.object \in out
      PROVE  Apart(x, out, kept)
    <2>1. r.object \in out => first \in out /\ second \in out
        BY <1>2, <1>4, <1>8 DEF Apart, Closes
    <2>2. QED  BY <1>1, <1>6, <1>7, <1>8, <2>1 DEF Apart, Closes
<1>9. \A k \in Names \ Range(names) : x.env[k] = run.env[k]
    BY <1>1, <1>6, <1>7
<1>10. QED  BY <1>7, <1>8, <1>9 DEF x, run, refs

LEMMA ResultBound ==
    ASSUME NEW r, r.run \in Runs, r.object \in Objects, NEW names, NEW out2, NEW kept \in SUBSET Names,
           Apart(r.run, out2, kept), r.object \in out2, Range(names) \cap kept = {}
    PROVE  BindResult(r, names) \in Runs /\ Untouched(BindResult(r, names), out2, r.run, out2, kept)
<1> DEFINE run == r.run  o == r.object
<1>1. run \in Runs /\ o \in Objects \cup {Unbound} /\ Apart(run, out2, kept) /\ o \in out2
    OBVIOUS
<1>2. BindResult(r, names) = BindAll(run, names, o)
    BY DEF BindResult
<1> HIDE DEF run, o
<1>3. BindAll(run, names, o) \in Runs /\ Untouched(BindAll(run, names, o), out2, run, out2, kept)
    BY <1>1, BindIs
<1>4. QED  BY <1>2, <1>3 DEF run

\* A new object, bound to names outside kept.
LEMMA NewBound ==
    ASSUME NEW run \in Runs, NEW out, NEW kept \in SUBSET Names, Apart(run, out, kept),
           NEW value \in Cells, Range(value.refs) = {}, value.effects \cap kept = {},
           NEW r \in New(run, value), NEW names, Range(names) \cap kept = {}
    PROVE  /\ BindResult(r, names) \in Runs
           /\ \E out2 : Untouched(BindResult(r, names), out2, run, out, kept)
<1> DEFINE out2 == (out \cap Live(run)) \cup {r.object}
<1>1. r.run \in Runs /\ r.object \in Objects
    BY NewIs
<1>2. Untouched(r.run, out2, run, out, kept) /\ r.object \in out2
    BY NewApart
<1> HIDE DEF out2
<1>3. Apart(r.run, out2, kept)
    BY <1>2 DEF Untouched
<1>4. BindResult(r, names) \in Runs /\ Untouched(BindResult(r, names), out2, r.run, out2, kept)
    BY <1>1, <1>2, <1>3, ResultBound
<1>5. QED  BY <1>2, <1>4, Twice

\* A statement that neither binds nor mentions a name of kept leaves kept alone.
LEMMA ExecutedApart ==
    ASSUME NEW run \in Runs, NEW out, NEW kept \in SUBSET Names, Apart(run, out, kept),
           NEW st, IsSimple(st), FollowedSimple(st),
           Range(st.names) \cap kept = {}, References(st.value) \cap kept = {},
           st.op = "def" => st.effects \cap kept = {},
           NEW x \in Executed(run, st)
    PROVE  x \in Runs /\ \E out2 : Untouched(x, out2, run, out, kept)
<1>1. st.names \in Seq(Names) /\ st.value \in Expressions
    BY NamesAre
<1>2. ASSUME NEW r \in Evaluated(run, st.value)
      PROVE  /\ r.run \in Runs /\ r.object \in Objects
             /\ \A n \in Names : run.env[n] # Unbound => r.run.env[n] # Unbound
             /\ \E out2 : /\ Untouched(r.run, out2, run, out, kept) /\ r.object \in out2
                          /\ Apart(r.run, out2, kept)
    BY <1>1, EvaluatedTyped, EvaluatedApart DEF Untouched
<1>3. CASE st.op = "assign"
    <2>1. PICK r \in Evaluated(run, st.value) : x = BindResult(r, st.names)
        BY <1>3, ExecutedIs
    <2>2. PICK out2 : /\ Untouched(r.run, out2, run, out, kept) /\ r.object \in out2
                      /\ Apart(r.run, out2, kept)
        BY <1>2
    <2>3. x \in Runs /\ Untouched(x, out2, r.run, out2, kept)
        BY <1>2, <2>1, <2>2, ResultBound
    <2>4. QED  BY <2>2, <2>3, Twice
<1>4. CASE st.op = "unpack"
    <2>1. PICK r \in Evaluated(run, st.value) :
             /\ Len(r.run.heap[r.object].refs) = 2
             /\ x = UnpackedTo(r, st.names, r.run.heap[r.object].refs)
        BY <1>4, ExecutedIs
    <2>2. PICK out2 : /\ Untouched(r.run, out2, run, out, kept) /\ r.object \in out2
                      /\ Apart(r.run, out2, kept)
        BY <1>2
    <2>3. Len(st.names) = 2
        BY <1>4 DEF IsSimple, NamesOf
    <2>4. /\ x \in Runs
          /\ \A n \in Names \ Range(st.names) : x.env[n] = r.run.env[n]
          /\ Apart(x, out2, kept)
          /\ x.heap = r.run.heap
        BY <1>1, <1>2, <2>1, <2>2, <2>3, UnpackedIs
    <2>5. Untouched(x, out2, r.run, out2, kept)
        BY <2>4 DEF Untouched
    <2>6. QED  BY <2>2, <2>4, <2>5, Twice
<1>5. CASE st.op = "call"
    <2>1. PICK r \in Evaluated(run, st.value) : x = r.run
        BY <1>5, ExecutedIs
    <2>2. QED  BY <1>2, <2>1
<1>6. CASE st.op = "import"
    <2>1. PICK module \in Modules : \E r \in New(run, module) : x = BindResult(r, st.names)
        BY <1>6, ExecutedIs
    <2>2. PICK r \in New(run, module) : x = BindResult(r, st.names)
        BY <2>1
    <2>3. module \in Cells /\ module.effects = {} /\ Range(module.refs) = {}
        BY ModulesAre
    <2>4. module.effects \cap kept = {}
        BY <2>3
    <2>5. QED  BY <2>2, <2>3, <2>4, NewBound
<1>7. CASE st.op = "def"
    <2> DEFINE value == Function(st.effects, << >>)
    <2>1. PICK r \in New(run, value) : x = BindResult(r, st.names)
        BY <1>7, ExecutedIs
    <2>2. st.effects \in SUBSET Names
        BY <1>7 DEF IsSimple
    <2>3. value \in Cells /\ value.refs = << >> /\ value.effects = st.effects
        BY <2>2, CellsAre
    <2> HIDE DEF value
    <2>4. value.effects \cap kept = {} /\ Range(value.refs) = {}
        BY <1>7, <2>3 DEF Range
    <2>5. QED  BY <2>1, <2>3, <2>4, NewBound
<1>8. CASE st.op = "declare"
    <2>1. x = run
        BY <1>8, ExecutedIs
    <2>2. Untouched(run, out, run, out, kept)
        BY Still
    <2>3. QED  BY <2>1, <2>2
<1>9. CASE st.op = "delete"
    <2>1. x = BindAll(run, st.names, Unbound)
        BY <1>9, ExecutedIs
    <2>2. QED  BY <2>1, BindIs
<1>10. CASE st.op \in Growing
    <2> DEFINE n == st.names[1]
    <2>1. n \in Names \ kept /\ run.env[n] # Unbound
        BY <1>10, NamesAre, ExecutedIs DEF Growing, Bound
    <2>2. PICK r \in Evaluated(run, st.value) :
             IF Extends(run, st) THEN r.run.heap[r.object].list /\ x = GrownBy(r, n, r.run.heap[r.object])
             ELSE x = RetainedBy(r, n)
        BY <1>10, ExecutedIs
    <2> HIDE DEF n
    <2>3. PICK out2 : /\ Untouched(r.run, out2, run, out, kept) /\ r.object \in out2
                      /\ Apart(r.run, out2, kept)
        BY <1>2
    <2>4. /\ r.run \in Runs /\ r.object \in Objects /\ r.run.env[n] # Unbound
          /\ r.run.env[n] \in Objects /\ r.run.env[n] \in out2
        BY <1>2, <2>1, <2>3, RunIs DEF Apart
    <2>5. \E more \in SUBSET out2 : Changes(x, r.run, r.run.env[n], more)
        <3>1. CASE Extends(run, st)
            <4> DEFINE more == r.run.heap[r.object]
            <4>1. more \in Cells /\ Range(more.refs) \subseteq out2
                BY <2>3, <2>4, RunIs DEF Apart, Closes
            <4>2. x = GrownBy(r, n, more)
                BY <2>2, <3>1
            <4> HIDE DEF more
            <4>3. Changes(GrownBy(r, n, more), r.run, r.run.env[n], Range(more.refs))
                BY <2>1, <2>4, <4>1, GrownIs
            <4>4. QED  BY <4>1, <4>2, <4>3
        <3>2. CASE ~Extends(run, st)
            BY <2>1, <2>2, <2>3, <2>4, <3>2, RetainedIs
        <3>3. QED  BY <3>1, <3>2
    <2>6. x \in Runs /\ Untouched(x, out2, r.run, out2, kept)
        BY <2>3, <2>4, <2>5, ChangesIs
    <2>7. QED  BY <2>3, <2>6, Twice
<1>11. CASE st.op \in {"method", "delitem"}
    <2>1. PICK n \in Range(st.names) : Value(run, n).items # << >> /\ x = Shortened(run, n)
        BY <1>11, ExecutedIs
    <2>2. n \in Names \ kept /\ run.env[n] # Unbound
        BY <1>11, <2>1, NamesAre, ExecutedIs DEF Bound
    <2>3. Changes(x, run, run.env[n], {})
        BY <2>1, <2>2, ShortenedIs
    <2>4. run.env[n] \in Objects /\ run.env[n] \in out
        BY <2>2, RunIs DEF Apart
    <2>5. QED  BY <2>3, <2>4, ChangesIs
<1>12. CASE st.op = "item"
    <2> DEFINE n == st.names[1]
    <2>1. n \in Names \ kept /\ run.env[n] # Unbound
        <3>1. Bound(run, Range(st.names))
            BY <1>12, ExecutedIs
        <3>2. n \in Names /\ Range(st.names) = {n}
            BY <1>12, NamesAre
        <3>3. QED  BY <3>1, <3>2 DEF Bound
    <2>2. PICK r \in Evaluated(run, st.value) : x \in ItemSet(r, n, st.value)
        BY <1>12, ExecutedIs
    <2> HIDE DEF n
    <2>3. PICK out2 : /\ Untouched(r.run, out2, run, out, kept) /\ r.object \in out2
                      /\ Apart(r.run, out2, kept)
        BY <1>2
    <2>4. /\ r.run \in Runs /\ r.object \in Objects /\ r.run.env[n] # Unbound
          /\ r.run.env[n] \in Objects /\ r.run.env[n] \in out2
        BY <1>2, <2>1, <2>3, RunIs DEF Apart
    <2>5. \E more \in SUBSET out2 : Changes(x, r.run, r.run.env[n], more)
        <3>1. CASE st.value.kind = "other"
            <4>1. PICK s \in Strings : Value(r.run, n).items # << >> /\ x = Overwritten(r.run, r.run.env[n], s)
                BY <2>2, <3>1 DEF ItemSet
            <4>2. Changes(x, r.run, r.run.env[n], {})
                BY <2>4, <4>1, OverwrittenIs DEF Value
            <4>3. QED  BY <4>2
        <3>2. CASE st.value.kind # "other"
            <4>1. x = [r.run EXCEPT !.heap[r.run.env[n]] = ItemHeld(@, r.object)]
                BY <2>2, <3>2 DEF ItemSet
            <4>2. Changes(x, r.run, r.run.env[n], {r.object})
                <5> DEFINE now == r.run
                           o == now.env[n]
                <5>1. now \in Runs /\ o \in Objects
                    BY <2>4
                <5>2. x = [now EXCEPT !.heap[o] = ItemHeld(@, r.object)]
                    BY <4>1
                <5> HIDE DEF now, o
                <5>3. Changes(x, now, o, {r.object})
                    BY <2>4, <5>1, <5>2, ItemHeldIs
                <5>4. QED  BY <5>3 DEF now, o
            <4>3. QED  BY <2>3, <4>2
        <3>3. QED  BY <3>1, <3>2
    <2>6. x \in Runs /\ Untouched(x, out2, r.run, out2, kept)
        BY <2>3, <2>4, <2>5, ChangesIs
    <2>7. QED  BY <2>3, <2>6, Twice
<1>13. st.op \in Valueless \cup Valued /\ st.op \notin {"withimport", "nested"}
    BY DEF IsSimple, FollowedSimple
<1>14. QED
    BY <1>3, <1>4, <1>5, <1>6, <1>7, <1>8, <1>9, <1>10, <1>11, <1>12, <1>13 DEF Valueless, Valued, Growing

LEMMA ExecutedTyped ==
    ASSUME NEW run \in Runs, NEW st, IsSimple(st), FollowedSimple(st), NEW x \in Executed(run, st)
    PROVE  x \in Runs
<1>1. Apart(run, Objects, {}) /\ {} \in SUBSET Names
    BY Everything
<1>2. Range(st.names) \cap {} = {} /\ References(st.value) \cap {} = {} /\ st.effects \cap {} = {}
    OBVIOUS
<1>3. QED  BY <1>1, <1>2, ExecutedApart

\* A state that says no more than another.
Weaker(t, s) ==
    \/ t.dynamic
    \/ /\ DOMAIN t.known \subseteq DOMAIN s.known
       /\ \A n \in DOMAIN t.known : t.known[n] = s.known[n]
       /\ \A m, n \in DOMAIN t.known : {m, n} \in s.aliases => {m, n} \in t.aliases
       /\ t.exports = "missing" => s.exports = "missing"

LEMMA WeakerTells ==
    ASSUME NEW s, NEW t, NEW run, NEW out, Tells(s, run, out), Weaker(t, s), ~t.dynamic
    PROVE  Tells(t, run, out)
BY DEF Tells, Knows, Weaker

LEMMA WeakerFollows ==
    ASSUME NEW s, NEW t, NEW run, Follows(s, run), Weaker(t, s), s.dynamic => t.dynamic
    PROVE  Follows(t, run)
<1>1. CASE s.dynamic \/ t.dynamic
    BY <1>1 DEF Follows
<1>2. CASE ~s.dynamic /\ ~t.dynamic
    BY <1>2, WeakerTells DEF Follows
<1>3. QED  BY <1>1, <1>2

LEMMA AssignedWeaker ==
    ASSUME NEW s, NEW t, NEW bound, Assigned(t, s, bound, Unresolved)
    PROVE  Weaker(t, s) /\ (s.dynamic => t.dynamic)
BY DEF Assigned, Weaker

LEMMA TiedWeaker ==
    ASSUME NEW s, NEW t, NEW u, NEW bound, NEW values, Assigned(u, s, bound, values), bound = {}, Tied(t, u)
    PROVE  Weaker(t, s)
<1>1. DOMAIN u.known = DOMAIN s.known /\ u.exports = s.exports
    BY DEF Assigned
<1>2. \A n \in DOMAIN u.known : u.known[n] = s.known[n]
    BY DEF Assigned
<1>3. u.aliases = s.aliases
    BY DEF Assigned
<1>4. QED  BY <1>1, <1>2, <1>3 DEF Tied, Weaker

LEMMA SimpleDynamic ==
    ASSUME Tracking, NEW s \in States, s.dynamic, NEW st, IsSimple(st)
    PROVE  Simple(s, st).dynamic
<1>1. st.names \in Seq(Names) /\ st.value \in Expressions
    BY NamesAre
<1>2. MarkDynamic(s).dynamic
    BY MarkTyped
<1>3. \A values \in Values \cup {Unresolved} :
         AssignAll(s, st.names, values) \in States /\ AssignAll(s, st.names, values).dynamic
    BY <1>1, AssignAllIs DEF Assigned
<1>4. Resolve(st.value, s.known) \in Values \cup {Unresolved}
    BY <1>1, StateIs, ResolveTyped
<1>5. ASSUME NEW n \in Names, NEW more \in Values \cup {Unresolved}
      PROVE  ExtendedBy(s, n, more).dynamic
    <2>1. CASE n \in DOMAIN s.known /\ more # Unresolved
        <3> DEFINE all == s.known[n] \o more
        <3>1. n \in tracked /\ all \in Values
            BY <2>1, KnownTracked DEF Values
        <3>2. ExtendedBy(s, n, more) = AssignSequence(s, n, all)
            BY <2>1 DEF ExtendedBy
        <3> HIDE DEF all
        <3>3. QED  BY <3>1, <3>2, AssignIs
    <2>2. CASE ~(n \in DOMAIN s.known /\ more # Unresolved)
        BY <1>2, <2>2 DEF ExtendedBy
    <2>3. QED  BY <2>1, <2>2
<1>6. \A n \in Names : Extended(s, n, st.value).dynamic /\ Appended(s, n, st.value).dynamic
    BY <1>4, <1>5 DEF Extended, Appended
<1>7. CASE st.op \in {"assign", "unpack", "item", "aug", "call"} /\ HasEffect(st.value)
    BY <1>2, <1>7, SimpleIs
<1>8. CASE st.op = "assign" /\ ~HasEffect(st.value)
    <2> DEFINE u == AssignAll(s, st.names, Resolve(st.value, s.known))
               t == AliasTargets(u, st.names, st.value)
    <2>1. u \in States /\ u.dynamic
        BY <1>3, <1>4
    <2> HIDE DEF u
    <2>2. st.names # << >>
        BY <1>8, NamesAre
    <2>3. Tied(t, u)
        BY <1>1, <2>1, <2>2, AliasTargetsIs
    <2>4. t.dynamic
        BY <2>1, <2>3 DEF Tied
    <2>5. QED  BY <1>8, <2>4, SimpleIs DEF u
<1>9. CASE st.op = "unpack" /\ ~HasEffect(st.value)
    BY <1>3, <1>4, <1>9, SimpleIs
<1>10. CASE st.op \in {"item", "call", "delitem", "withimport", "nested"} /\ (st.op \in {"item", "call"} => ~HasEffect(st.value))
    BY <1>2, <1>10, SimpleIs
<1>11. CASE st.op = "aug" /\ ~HasEffect(st.value)
    <2>1. st.names[1] \in Names
        BY <1>11, NamesAre
    <2>2. QED  BY <1>2, <1>6, <1>11, <2>1, SimpleIs
<1>12. CASE st.op \in {"append", "extend", "method"}
    <2>1. st.names[1] \in Names
        BY <1>12, NamesAre
    <2>2. CASE st.names[1] \notin tracked
        BY <1>2, <1>12, <2>2, SimpleIs
    <2>3. CASE st.names[1] \in tracked
               /\ (st.op = "method" \/ IsAliased(s, st.names[1]) \/ HasEffect(st.value))
        BY <1>2, <1>12, <2>3, SimpleIs
    <2>4. CASE st.names[1] \in tracked
               /\ ~(st.op = "method" \/ IsAliased(s, st.names[1]) \/ HasEffect(st.value))
        BY <1>6, <1>12, <2>1, <2>4, SimpleIs
    <2>5. QED  BY <2>2, <2>3, <2>4
<1>13. CASE st.op \in {"declare", "import", "def"}
    BY <1>3, <1>13, SimpleIs
<1>14. CASE st.op = "delete"
    <2>1. DeleteAll(s, st.names).dynamic
        BY <1>1, DeleteAllIs DEF Deleted
    <2>2. QED  BY <1>14, <2>1, SimpleIs
<1>15. st.op \in Valueless \cup Valued
    BY DEF IsSimple
<1>16. QED
    BY <1>7, <1>8, <1>9, <1>10, <1>11, <1>12, <1>13, <1>14, <1>15 DEF Valueless, Valued

\* A statement that may not change a tracked sequence only makes a state forget.
LEMMA SimpleWeaker ==
    ASSUME Tracking, NEW s \in States, NEW st, IsSimple(st),
           Range(st.names) \cap tracked = {} \/ st.op \in {"import", "def", "declare"}
    PROVE  Weaker(Simple(s, st), s)
<1>1. st.names \in Seq(Names) /\ st.value \in Expressions
    BY NamesAre
<1>2. Weaker(MarkDynamic(s), s) /\ Weaker(s, s)
    BY MarkTyped DEF Weaker
<1>3. Resolve(st.value, s.known) \in Values \cup {Unresolved}
    BY <1>1, StateIs, ResolveTyped
<1>4. CASE st.op \in {"assign", "unpack", "item", "aug", "call"} /\ HasEffect(st.value)
    BY <1>2, <1>4, SimpleIs
<1>5. CASE st.op \in {"assign", "unpack"} /\ ~HasEffect(st.value)
    <2> DEFINE values == Resolve(st.value, s.known)
               u == AssignAll(s, st.names, values)
               t == AliasTargets(u, st.names, st.value)
               bound == Range(st.names) \cap tracked
    <2>a. values \in Values \cup {Unresolved}
        BY <1>3
    <2>b. bound = {}
        BY <1>5
    <2>c. Assigned(u, s, bound, values)
        <3> HIDE DEF values
        <3>1. QED  BY <1>1, <2>a, AssignAllIs
    <2>1. Assigned(u, s, bound, values) /\ bound = {} /\ u \in States
        BY <2>b, <2>c DEF Assigned
    <2> HIDE DEF u, bound
    <2>2. Tied(u, u)
        BY <2>1 DEF Tied
    <2>3. st.op = "assign" => Tied(t, u)
        BY <1>1, <2>1, NamesAre, AliasTargetsIs
    <2>4. Weaker(u, s) /\ (st.op = "assign" => Weaker(t, s))
        BY <2>1, <2>2, <2>3, TiedWeaker
    <2>5. QED  BY <1>5, <2>4, SimpleIs DEF u
<1>6. CASE st.op \in {"item", "call", "delitem", "withimport", "nested"} /\ (st.op \in {"item", "call"} => ~HasEffect(st.value))
    BY <1>2, <1>6, SimpleIs
<1>7. CASE st.op = "aug" /\ ~HasEffect(st.value)
    <2>1. st.names[1] \in Names /\ st.names[1] \notin tracked /\ st.names[1] \notin DOMAIN s.known
        BY <1>7, NamesAre, KnownTracked
    <2>2. Extended(s, st.names[1], st.value) = s
        BY <2>1 DEF Extended, ExtendedBy
    <2>3. QED  BY <1>2, <1>7, <2>2, SimpleIs
<1>8. CASE st.op \in {"append", "extend", "method"}
    <2>1. st.names[1] \notin tracked
        BY <1>8, NamesAre
    <2>2. QED  BY <1>2, <1>8, <2>1, SimpleIs
<1>9. CASE st.op \in {"declare", "import", "def"}
    <2>1. Assigned(AssignAll(s, st.names, Unresolved), s, Range(st.names) \cap tracked, Unresolved)
        BY <1>1, AssignAllIs
    <2>2. Weaker(AssignAll(s, st.names, Unresolved), s)
        BY <2>1, AssignedWeaker
    <2>3. QED  BY <1>9, <2>2, SimpleIs
<1>10. CASE st.op = "delete"
    <2> DEFINE t == DeleteAll(s, st.names)  bound == Range(st.names) \cap tracked
    <2>1. Deleted(t, s, bound) /\ bound = {}
        BY <1>1, <1>10, DeleteAllIs
    <2> HIDE DEF t, bound
    <2>2. Weaker(t, s)
        <3>1. DOMAIN t.known = DOMAIN s.known /\ t.exports = s.exports /\ t.aliases = s.aliases
            BY <2>1 DEF Deleted
        <3>2. \A n \in DOMAIN t.known : t.known[n] = s.known[n]
            BY <2>1 DEF Deleted
        <3>3. QED  BY <3>1, <3>2 DEF Weaker
    <2>3. QED  BY <1>10, <2>2, SimpleIs DEF t
<1>11. st.op \in Valueless \cup Valued
    BY DEF IsSimple
<1>12. QED
    BY <1>4, <1>5, <1>6, <1>7, <1>8, <1>9, <1>10, <1>11 DEF Valueless, Valued

\* The names a statement ties together are tracked together.
Tying(st) == \A edge \in Edges(st) : edge[1] \in tracked => edge[2] \in tracked

LEMMA TyingIs ==
    ASSUME NEW st, IsSimple(st), Tying(st)
    PROVE  /\ st.op = "assign" => \A m, n \in Range(st.names) : m \in tracked => n \in tracked
           /\ st.op \in {"assign", "unpack"} =>
                 \A n \in Range(st.names) : \A m \in References(st.value) : n \in tracked <=> m \in tracked
           /\ st.op = "def" => \A n \in Range(st.names) : \A m \in st.effects : m \in tracked => n \in tracked
<1> DEFINE names == Range(st.names)  refs == References(st.value)
<1>1. CASE st.op = "assign"
    <2>1. Edges(st) = (names \X refs) \cup (refs \X names) \cup (names \X names)
        BY <1>1 DEF Edges
    <2> HIDE DEF names, refs
    <2>2. \A m, n \in names : <<m, n>> \in Edges(st)
        BY <2>1
    <2>3. \A n \in names : \A m \in refs : <<m, n>> \in Edges(st) /\ <<n, m>> \in Edges(st)
        BY <2>1
    <2>4. QED  BY <1>1, <2>2, <2>3 DEF Tying, names, refs
<1>2. CASE st.op = "unpack"
    <2>1. Edges(st) = (names \X refs) \cup (refs \X names)
        BY <1>2 DEF Edges
    <2> HIDE DEF names, refs
    <2>3. \A n \in names : \A m \in refs : <<m, n>> \in Edges(st) /\ <<n, m>> \in Edges(st)
        BY <2>1
    <2>4. QED  BY <1>2, <2>3 DEF Tying, names, refs
<1>3. CASE st.op = "def"
    <2>1. Edges(st) = st.effects \X names
        BY <1>3 DEF Edges
    <2> HIDE DEF names, refs
    <2>3. \A n \in names : \A m \in st.effects : <<m, n>> \in Edges(st)
        BY <2>1
    <2>4. QED  BY <1>3, <2>3 DEF Tying, names, refs
<1>4. QED  BY <1>1, <1>2, <1>3

\* An effect that the analysis sees makes the state dynamic.
LEMMA EffectDynamic ==
    ASSUME Tracking, NEW s \in States, NEW st, IsSimple(st), HasEffect(st.value)
    PROVE  Simple(s, st).dynamic
<1>1. MarkDynamic(s).dynamic
    BY MarkTyped
<1>2. st.op \in Valued
    BY NamesAre DEF IsSimple, HasEffect
<1>3. CASE st.op \in {"assign", "unpack", "item", "aug", "call"}
    BY <1>1, <1>3, SimpleIs
<1>4. CASE st.op \in {"append", "extend"}
    <2>1. References(st.value) \cap tracked # {}
        BY DEF HasEffect
    <2>2. CASE st.names[1] \notin tracked
        BY <1>1, <1>4, <2>1, <2>2, SimpleIs
    <2>3. CASE st.names[1] \in tracked
        BY <1>1, <1>4, <2>3, SimpleIs
    <2>4. QED  BY <2>2, <2>3
<1>5. QED  BY <1>2, <1>3, <1>4 DEF Valued

\* An exception may leave a statement where a state of before or of after follows.
LEMMA RaisedFollows ==
    ASSUME Tracking, NEW s \in States, NEW run \in Runs, Follows(s, run),
           NEW st, IsSimple(st), NEW x \in Raised(run, st)
    PROVE  x \in Runs /\ (Follows(s, x) \/ Follows(Simple(s, st), x))
<1>1. st.value \in Expressions
    BY NamesAre
<1>2. x = run \/ \E r \in Evaluated(run, st.value) : x = r.run
    BY DEF Raised
<1>3. CASE x = run
    BY <1>3
<1>4. CASE \E r \in Evaluated(run, st.value) : x = r.run
    <2>1. PICK r \in Evaluated(run, st.value) : x = r.run
        BY <1>4
    <2>2. x \in Runs
        BY <1>1, <2>1, EvaluatedTyped
    <2>3. CASE HasEffect(st.value)
        BY <2>2, <2>3, EffectDynamic DEF Follows
    <2>4. CASE s.dynamic
        BY <2>2, <2>4 DEF Follows
    <2>5. CASE ~HasEffect(st.value) /\ ~s.dynamic
        <3>1. PICK out : Tells(s, run, out)
            BY <2>5 DEF Follows
        <3>2. Apart(run, out, tracked) /\ tracked \in SUBSET Names
            BY <3>1 DEF Tells, Tracking
        <3>3. st.value.kind # "call" \/ References(st.value) \cap tracked = {}
            BY <2>5 DEF HasEffect
        <3>4. PICK out2 : Untouched(r.run, out2, run, out, tracked)
            BY <1>1, <3>2, <3>3, EvaluatedAside
        <3>5. Tells(s, x, out2)
            BY <2>1, <3>1, <3>4, UntouchedTells
        <3>6. QED  BY <2>2, <3>5 DEF Follows
    <2>6. QED  BY <2>3, <2>4, <2>5
<1>5. QED  BY <1>2, <1>3, <1>4

\* A statement that binds no tracked name.
LEMMA BesideFollows ==
    ASSUME Tracking, NEW s \in States, NEW run \in Runs, NEW out, Tells(s, run, out), ~s.dynamic,
           NEW st, IsSimple(st), FollowedSimple(st), Tying(st), Range(st.names) \cap tracked = {},
           NEW x \in Executed(run, st)
    PROVE  Follows(Simple(s, st), x)
<1>1. Apart(run, out, tracked) /\ tracked \in SUBSET Names
    BY DEF Tells, Tracking
<1>2. Weaker(Simple(s, st), s)
    BY SimpleWeaker
<1>3. ASSUME NEW out2, Untouched(x, out2, run, out, tracked)
      PROVE  Follows(Simple(s, st), x)
    <2>1. Follows(s, x)
        BY <1>3, UntouchedTells DEF Follows
    <2>2. QED  BY <1>2, <2>1, WeakerFollows
<1>4. CASE References(st.value) \cap tracked = {} /\ (st.op = "def" => st.effects \cap tracked = {})
    <2>1. \E out2 : Untouched(x, out2, run, out, tracked)
        BY <1>1, <1>4, ExecutedApart
    <2>2. QED  BY <1>3, <2>1
<1>5. CASE Simple(s, st).dynamic
    BY <1>5 DEF Follows
<1>6. CASE st.op = "call" /\ ~HasEffect(st.value)
    <2>1. PICK r \in Evaluated(run, st.value) : x = r.run
        BY <1>6, ExecutedIs
    <2>2. st.value \in Expressions /\ (st.value.kind # "call" \/ References(st.value) \cap tracked = {})
        BY <1>6, NamesAre DEF HasEffect
    <2>3. \E out2 : Untouched(x, out2, run, out, tracked)
        BY <1>1, <2>1, <2>2, EvaluatedAside
    <2>4. QED  BY <1>3, <2>3
<1>7. ASSUME References(st.value) \cap tracked # {}, st.op # "call", ~HasEffect(st.value)
      PROVE  Simple(s, st).dynamic
    <2>1. MarkDynamic(s).dynamic
        BY MarkTyped
    <2>2. st.op \notin Valueless
        BY <1>7, NamesAre
    <2>3. st.op \notin {"assign", "unpack"}
        <3>1. st.op \in {"assign", "unpack"} => \E n \in Range(st.names) : TRUE
            BY NamesAre
        <3>2. QED  BY <1>7, <3>1, TyingIs
    <2>4. st.op # "aug"
        <3>1. st.op = "aug" /\ st.names = <<All>> => All \in Range(st.names)
            BY NamesAre
        <3>2. st.op = "aug" => st.value.kind = "call"
            BY <1>7, <3>1 DEF FollowedSimple, Tracking
        <3>3. QED  BY <1>7, <3>2 DEF HasEffect
    <2>5. CASE st.op = "item"
        BY <1>7, <2>1, <2>5, SimpleIs
    <2>6. CASE st.op \in {"append", "extend"}
        <3>1. st.names[1] \notin tracked
            BY <2>6, NamesAre
        <3>2. QED  BY <1>7, <2>1, <2>6, <3>1, SimpleIs
    <2>7. st.op \in Valueless \cup Valued
        BY DEF IsSimple
    <2>8. QED  BY <1>7, <2>2, <2>3, <2>4, <2>5, <2>6, <2>7 DEF Valued
<1>8. st.op = "def" => st.effects \cap tracked = {}
    <2>1. st.op = "def" => st.names[1] \in Range(st.names)
        BY NamesAre
    <2>2. QED  BY <2>1, TyingIs
<1>9. HasEffect(st.value) => Simple(s, st).dynamic
    BY EffectDynamic
<1>10. QED  BY <1>4, <1>5, <1>6, <1>7, <1>8, <1>9

\* A state that has forgotten what it knew of names.
Forgot(t, s, bound) ==
    /\ DOMAIN t.known \subseteq DOMAIN s.known \ bound
    /\ \A n \in DOMAIN t.known : t.known[n] = s.known[n]
    /\ \A m, n \in DOMAIN t.known : {m, n} \in s.aliases => {m, n} \in t.aliases
    /\ t.exports = "missing" => All \in bound \/ s.exports = "missing"

LEMMA AssignedForgot ==
    ASSUME NEW s, NEW u, NEW t, NEW bound, Assigned(u, s, bound, Unresolved), t = u \/ Tied(t, u)
    PROVE  Forgot(t, s, bound) /\ (t.exports = "missing" => All \notin bound)
<1>1. DOMAIN u.known = DOMAIN s.known \ bound /\ \A n \in DOMAIN u.known : u.known[n] = s.known[n]
    BY DEF Assigned
<1>2. u.aliases = {pair \in s.aliases : pair \cap bound = {}}
    BY DEF Assigned
<1>3. \A m, n \in DOMAIN u.known : {m, n} \in s.aliases => {m, n} \in u.aliases
    BY <1>1, <1>2
<1>4. u.exports = "missing" => All \notin bound /\ s.exports = "missing"
    BY DEF Assigned
<1>5. t.known = u.known /\ t.exports = u.exports /\ u.aliases \subseteq t.aliases
    BY DEF Tied
<1>6. QED  BY <1>1, <1>3, <1>4, <1>5 DEF Forgot

LEMMA DeletedForgot ==
    ASSUME NEW s, NEW t, NEW bound, Deleted(t, s, bound)
    PROVE  Forgot(t, s, bound)
<1>1. DOMAIN t.known = DOMAIN s.known \ bound /\ \A n \in DOMAIN t.known : t.known[n] = s.known[n]
    BY DEF Deleted
<1>2. t.aliases = {pair \in s.aliases : pair \cap bound = {}}
    BY DEF Deleted
<1>3. \A m, n \in DOMAIN t.known : {m, n} \in s.aliases => {m, n} \in t.aliases
    BY <1>1, <1>2
<1>4. t.exports = "missing" => All \in bound \/ s.exports = "missing"
    BY DEF Deleted
<1>5. QED  BY <1>1, <1>3, <1>4 DEF Forgot

\* Names that are forgotten may be bound to anything.
LEMMA ForgotTells ==
    ASSUME Tracking, NEW s \in States, NEW run, NEW out, Tells(s, run, out), NEW x, NEW out2,
           Apart(x, out2, tracked), x.heap = run.heap, out2 \subseteq out, NEW bound,
           \A n \in tracked \ bound : x.env[n] = run.env[n],
           NEW t, Forgot(t, s, bound), t.exports = "missing" /\ All \in bound => x.env[All] = Unbound
    PROVE  Tells(t, x, out2)
<1>1. DOMAIN s.known \subseteq tracked /\ All \in tracked
    BY KnownTracked DEF Tracking
<1>2. t.exports = "missing" => x.env[All] = Unbound
    BY <1>1 DEF Tells, Forgot
<1>3. Knows(t, x, out2)
    BY <1>1 DEF Tells, Knows, Forgot, Value
<1>4. QED  BY <1>2, <1>3 DEF Tells

LEMMA BoundApart ==
    ASSUME NEW run, NEW out, NEW kept, Apart(run, out, kept), NEW x, x.heap = run.heap,
           \A n \in Names \ kept : x.env[n] = run.env[n]
    PROVE  Apart(x, out, kept)
BY DEF Apart, Closes

LEMMA BindResultIs ==
    ASSUME NEW r, r.run \in Runs, r.object \in Objects, NEW names
    PROVE  LET x == BindResult(r, names)
           IN  /\ x \in Runs /\ x.heap = r.run.heap
               /\ \A n \in Names : x.env[n] = IF n \in Range(names) THEN r.object ELSE r.run.env[n]
<1> DEFINE run == r.run  o == r.object
<1>1. run \in Runs /\ o \in Objects \cup {Unbound}
    OBVIOUS
<1>2. BindResult(r, names) = BindAll(run, names, o)
    BY DEF BindResult
<1> HIDE DEF run, o
<1>3. LET x == BindAll(run, names, o)
      IN  /\ x \in Runs /\ x.heap = run.heap
          /\ \A n \in Names : x.env[n] = IF n \in Range(names) THEN o ELSE run.env[n]
    BY <1>1, BindIs
<1>4. QED  BY <1>2, <1>3 DEF run, o

\* A sequence is bound to tracked names.
LEMMA AssignFollows ==
    ASSUME Tracking, NEW s \in States, NEW run \in Runs, NEW out, Tells(s, run, out),
           NEW e \in Expressions, Resolve(e, s.known) # Unresolved,
           NEW names \in Seq(Names), names # << >>, Range(names) \subseteq tracked,
           e.kind = "name" => e.names[1] \notin Range(names),
           NEW r \in Evaluated(run, e)
    PROVE  Follows(AliasTargets(AssignAll(s, names, Resolve(e, s.known)), names, e), BindResult(r, names))
<1> DEFINE values == Resolve(e, s.known)
           bound == Range(names) \cap tracked
           u == AssignAll(s, names, values)
           t == AliasTargets(u, names, e)
           x == BindResult(r, names)
<1>1. PICK out2 : ValuedApart(s, run, e, r, out2)
    BY EvaluatedResolved
<1>2. r.run \in Runs /\ r.object \in Objects
    BY EvaluatedTyped
<1>3. values \in Values \cup {Unresolved} /\ values # Unresolved
    BY StateIs, ResolveTyped
<1>4. /\ Tells(s, r.run, out2) /\ r.object \notin out2 /\ r.run.env = run.env
      /\ r.run.heap[r.object].list /\ r.run.heap[r.object].items = values
      /\ r.run.heap[r.object].refs = << >>
      /\ \A n \in DOMAIN s.known : run.env[n] = r.object =>
            /\ e.kind = "name" /\ e.names[1] \in DOMAIN s.known
            /\ n = e.names[1] \/ {e.names[1], n} \in s.aliases
    BY <1>1 DEF ValuedApart
<1>5. x.heap = r.run.heap /\ \A n \in Names : x.env[n] = IF n \in Range(names) THEN r.object ELSE r.run.env[n]
    BY <1>2, BindResultIs
<1>6. Assigned(u, s, bound, values)
    <2> HIDE DEF values
    <2>1. QED  BY <1>3, AssignAllIs
<1> HIDE DEF values
<1>7. u \in States
    BY <1>6 DEF Assigned
<1> HIDE DEF u
<1>8. /\ Tied(t, u)
      /\ \A m, n \in Range(names) : m # n => {m, n} \in t.aliases
      /\ e.kind = "name" =>
            \A n \in Range(names) : e.names[1] \in tracked => {n, e.names[1]} \in t.aliases
    <2>1. /\ Tied(t, u)
          /\ names[1] \in tracked =>
                \A m, n \in Range(names) :
                   m \in tracked /\ n \in tracked /\ m # n => {m, n} \in t.aliases
          /\ e.kind = "name" =>
                \A n \in Range(names) :
                   n \in tracked /\ e.names[1] \in tracked /\ n # e.names[1]
                      => {n, e.names[1]} \in t.aliases
        BY <1>7, AliasTargetsIs
    <2>2. names[1] \in Range(names)
        BY RangeIs
    <2>3. \A n \in Range(names) : n \in tracked /\ (e.kind = "name" => n # e.names[1])
        OBVIOUS
    <2> HIDE DEF t
    <2>4. QED  BY <2>1, <2>2, <2>3
<1> HIDE DEF t, x
<1>9. Range(names) \subseteq Names /\ bound = Range(names) /\ DOMAIN s.known \subseteq tracked /\ tracked \subseteq Names
    BY KnownTracked DEF Tracking
<1> HIDE DEF bound
<1>10. /\ t \in States /\ WellPaired(t.aliases)
       /\ t.known = u.known /\ t.exports = u.exports /\ u.aliases \subseteq t.aliases
    BY <1>8, StateIs DEF Tied
<1>11. /\ DOMAIN t.known = DOMAIN s.known \cup bound
       /\ \A m \in DOMAIN t.known : t.known[m] = IF m \in bound THEN values ELSE s.known[m]
       /\ \A m, n : {m, n} \in s.aliases /\ m \notin bound /\ n \notin bound => {m, n} \in t.aliases
       /\ t.exports = "missing" => All \notin bound /\ s.exports = "missing"
    <2>1. /\ DOMAIN u.known = DOMAIN s.known \cup bound
          /\ \A m \in DOMAIN u.known : u.known[m] = IF m \in bound THEN values ELSE s.known[m]
          /\ u.aliases = {pair \in s.aliases : pair \cap bound = {}}
          /\ u.exports = "missing" => All \notin bound /\ s.exports = "missing"
        BY <1>3, <1>6 DEF Assigned
    <2>2. \A m, n : {m, n} \in s.aliases /\ m \notin bound /\ n \notin bound => {m, n} \in u.aliases
        BY <2>1
    <2>3. QED  BY <1>10, <2>1, <2>2
<1>12. Apart(x, out2, tracked)
    <2>1. \A n \in Names \ tracked : x.env[n] = r.run.env[n]
        BY <1>5
    <2>2. QED  BY <1>4, <1>5, <2>1, BoundApart DEF Tells
<1>13. t.exports = "missing" => x.env[All] = Unbound
    BY <1>4, <1>5, <1>9, <1>11 DEF Tells, Tracking
\* A name bound to the new value, and one that was.
<1>14. ASSUME NEW m \in DOMAIN s.known, m \notin bound, run.env[m] = r.object, NEW n \in bound
       PROVE  {m, n} \in t.aliases /\ {n, m} \in t.aliases
    <2> DEFINE k == e.names[1]
    <2>1. k \in DOMAIN s.known /\ e.kind = "name" /\ (m = k \/ {k, m} \in s.aliases) /\ k \notin bound
        BY <1>4, <1>9, <1>14
    <2>2. {n, k} \in t.aliases
        BY <1>8, <1>9, <1>14, <2>1
    <2> HIDE DEF k
    <2>3. m = k \/ {k, m} \in t.aliases
        BY <1>11, <1>14, <2>1
    <2>4. n # m /\ k \in tracked /\ m \in tracked /\ n \in tracked
        BY <1>9, <1>14, <2>1
    <2>5. {n, m} \in t.aliases
        BY <1>10, <2>2, <2>3, <2>4 DEF WellPaired
    <2>6. {n, m} = {m, n}
        OBVIOUS
    <2>7. QED  BY <2>5, <2>6
<1>15. ASSUME NEW n \in DOMAIN t.known
       PROVE  /\ x.env[n] # Unbound /\ x.env[n] \notin out2
              /\ Value(x, n).list /\ Value(x, n).items = t.known[n] /\ Value(x, n).refs = << >>
              /\ \A m \in DOMAIN t.known \ {n} : x.env[m] = x.env[n] => {m, n} \in t.aliases
    <2>1. n \in Names /\ DOMAIN t.known \subseteq Names
        BY <1>9, <1>11
    <2>2. CASE n \in bound
        <3>1. x.env[n] = r.object /\ t.known[n] = values
            BY <1>5, <1>9, <1>11, <2>1, <2>2
        <3>2. r.object # Unbound
            BY <1>2, CellsAre
        <3>3. ASSUME NEW m \in DOMAIN t.known \ {n}, x.env[m] = x.env[n]
              PROVE  {m, n} \in t.aliases
            <4>1. CASE m \in bound
                BY <1>8, <1>9, <2>2, <3>3, <4>1
            <4>2. CASE m \notin bound
                <5>1. run.env[m] = r.object /\ m \in DOMAIN s.known
                    BY <1>4, <1>5, <1>9, <1>11, <2>1, <3>1, <3>3, <4>2
                <5>2. QED  BY <1>14, <2>2, <4>2, <5>1
            <4>3. QED  BY <4>1, <4>2
        <3>4. QED  BY <1>4, <1>5, <3>1, <3>2, <3>3 DEF Value
    <2>3. CASE n \notin bound
        <3>1. n \in DOMAIN s.known /\ x.env[n] = r.run.env[n] /\ t.known[n] = s.known[n]
            BY <1>5, <1>9, <1>11, <2>1, <2>3
        <3>2. /\ r.run.env[n] # Unbound /\ r.run.env[n] \notin out2
              /\ Value(r.run, n).list /\ Value(r.run, n).items = s.known[n] /\ Value(r.run, n).refs = << >>
              /\ \A m \in DOMAIN s.known \ {n} : r.run.env[m] = r.run.env[n] => {m, n} \in s.aliases
            BY <1>4, <3>1 DEF Tells, Knows
        <3>3. ASSUME NEW m \in DOMAIN t.known \ {n}, x.env[m] = x.env[n]
              PROVE  {m, n} \in t.aliases
            <4>1. CASE m \in bound
                <5>1. run.env[n] = r.object
                    BY <1>4, <1>5, <1>9, <2>1, <3>1, <3>3, <4>1
                <5>2. QED  BY <1>14, <2>3, <3>1, <4>1, <5>1
            <4>2. CASE m \notin bound
                <5>1. r.run.env[m] = r.run.env[n] /\ m \in DOMAIN s.known
                    BY <1>5, <1>9, <1>11, <2>1, <3>1, <3>3, <4>2
                <5>2. QED  BY <1>11, <2>3, <3>2, <3>3, <4>2, <5>1
            <4>3. QED  BY <4>1, <4>2
        <3>4. QED  BY <1>5, <3>1, <3>2, <3>3 DEF Value
    <2>4. QED  BY <2>2, <2>3
<1>16. Tells(t, x, out2)
    BY <1>12, <1>13, <1>15 DEF Tells, Knows
<1>17. Follows(t, x)
    BY <1>16 DEF Follows
<1>18. QED  BY <1>17 DEF t, u, x, values

\* A sequence that is known, and held by one name only, grows.
LEMMA GrowFollows ==
    ASSUME Tracking, NEW s \in States, NEW run \in Runs, NEW out, Tells(s, run, out),
           NEW e \in Expressions, Resolve(e, s.known) # Unresolved,
           NEW n \in DOMAIN s.known, ~IsAliased(s, n),
           NEW r \in Evaluated(run, e)
    PROVE  Follows(AssignSequence(s, n, s.known[n] \o Resolve(e, s.known)),
                   GrownBy(r, n, r.run.heap[r.object]))
<1> DEFINE values == Resolve(e, s.known)
           all == s.known[n] \o values
           t == AssignSequence(s, n, all)
           more == r.run.heap[r.object]
           o == r.run.env[n]
           x == GrownBy(r, n, more)
<1>1. PICK out2 : ValuedApart(s, run, e, r, out2)
    BY EvaluatedResolved
<1>2. r.run \in Runs /\ r.object \in Objects
    BY EvaluatedTyped
<1>3. values \in Values /\ s.known[n] \in Values /\ n \in tracked /\ n \in Names
    BY StateIs, ResolveTyped, KnownTracked
<1>4. all \in Values
    BY <1>3 DEF Values
<1>5. all # Unresolved
    <2> HIDE DEF all
    <2>1. "unresolved" \in Range(Unresolved)
        BY DEF Unresolved, Range
    <2>2. Range(all) \subseteq Strings
        BY <1>4, RangeIs DEF Values
    <2>3. QED  BY <2>1, <2>2, StringsAssumption
<1>6. /\ Tells(s, r.run, out2) /\ r.run.env = run.env
      /\ more.list /\ more.items = values /\ more.refs = << >>
    BY <1>1 DEF ValuedApart
<1>7. /\ o # Unbound /\ o \notin out2 /\ o \in Objects
      /\ r.run.heap[o].list /\ r.run.heap[o].items = s.known[n] /\ r.run.heap[o].refs = << >>
    BY <1>2, <1>3, <1>6, RunIs DEF Tells, Knows, Value
<1>8. more \in Cells
    BY <1>2, RunIs
<1> HIDE DEF more
<1>9. /\ x.heap[o].list = r.run.heap[o].list
      /\ x.heap[o].items = r.run.heap[o].items \o more.items
      /\ x.heap[o].refs = r.run.heap[o].refs \o more.refs
      /\ x.env = r.run.env /\ \A p \in Objects \ {o} : x.heap[p] = r.run.heap[p]
    BY <1>2, <1>3, <1>7, <1>8, GrownIs
<1>10. x.heap[o].list /\ x.heap[o].items = all /\ x.heap[o].refs = << >>
    BY <1>6, <1>7, <1>9
<1> HIDE DEF values, x
<1>11. /\ t \in States
       /\ t.known = Learn(s, n, all)
       /\ t.aliases = BreakAlias(s, n)
       /\ t.exports = IF n # All THEN s.exports ELSE "known"
    <2> HIDE DEF all
    <2>1. QED  BY <1>3, <1>4, <1>5, AssignIs
<1> HIDE DEF all, t
<1>12. /\ DOMAIN t.known = DOMAIN s.known
       /\ \A m \in DOMAIN s.known : t.known[m] = IF m = n THEN all ELSE s.known[m]
       /\ t.aliases = s.aliases
    <2>1. BreakAlias(s, n) = s.aliases
        BY DEF BreakAlias, IsAliased
    <2>2. QED  BY <1>11, <2>1 DEF Learn
<1>13. DOMAIN s.known \subseteq Names /\ Apart(r.run, out2, tracked)
    BY <1>6, KnownTracked DEF Tells
<1>14. Apart(x, out2, tracked)
    BY <1>7, <1>9, <1>13 DEF Apart, Closes
<1>15. t.exports = "missing" => x.env[All] = Unbound
    BY <1>6, <1>9, <1>11 DEF Tells
<1>16. ASSUME NEW k \in DOMAIN t.known
       PROVE  /\ x.env[k] # Unbound /\ x.env[k] \notin out2
              /\ Value(x, k).list /\ Value(x, k).items = t.known[k] /\ Value(x, k).refs = << >>
              /\ \A m \in DOMAIN t.known \ {k} : x.env[m] = x.env[k] => {m, k} \in t.aliases
    <2>1. /\ k \in DOMAIN s.known
          /\ r.run.env[k] # Unbound /\ r.run.env[k] \notin out2
          /\ Value(r.run, k).list /\ Value(r.run, k).items = s.known[k] /\ Value(r.run, k).refs = << >>
          /\ \A m \in DOMAIN s.known \ {k} : r.run.env[m] = r.run.env[k] => {m, k} \in s.aliases
        BY <1>6, <1>12 DEF Tells, Knows
    <2>2. r.run.env[k] \in Objects
        BY <1>2, <1>13, <2>1, RunIs
    <2>3. CASE k = n
        BY <1>9, <1>10, <1>12, <2>1, <2>3 DEF Value
    <2>4. CASE k # n
        <3>1. r.run.env[k] # o
            BY <2>1, <2>4 DEF IsAliased
        <3>2. QED  BY <1>9, <1>12, <2>1, <2>2, <2>4, <3>1 DEF Value
    <2>5. QED  BY <2>3, <2>4
<1>17. Tells(t, x, out2)
    BY <1>14, <1>15, <1>16 DEF Tells, Knows
<1>18. Follows(t, x)
    BY <1>17 DEF Follows
<1>19. QED  BY <1>18 DEF t, x, all, values, more

\* += , .append and .extend of a tracked sequence.
LEMMA ExtendFollows ==
    ASSUME Tracking, NEW s \in States, NEW run \in Runs, NEW out, Tells(s, run, out), ~s.dynamic,
           NEW st, IsSimple(st), FollowedSimple(st), st.op \in Growing, st.names[1] \in tracked,
           NEW x \in Executed(run, st)
    PROVE  Follows(Simple(s, st), x)
<1> DEFINE n == st.names[1]  e == st.value  t == Simple(s, st)
           values == IF st.op = "append" /\ e.kind # "seq" THEN Unresolved ELSE Resolve(e, s.known)
<1>1. n \in Names /\ Range(st.names) = {n} /\ e \in Expressions
    BY NamesAre DEF Growing
<1>2. CASE HasEffect(e) \/ IsAliased(s, n)
    <2>1. MarkDynamic(s).dynamic
        BY MarkTyped
    <2>2. IsAliased(s, n) /\ ~HasEffect(e) => t = MarkDynamic(s)
        BY SimpleIs DEF Growing
    <2>3. t.dynamic
        BY <1>2, <2>1, <2>2, EffectDynamic
    <2>4. QED  BY <2>3 DEF Follows
<1>3. CASE ~HasEffect(e) /\ ~IsAliased(s, n)
    <2>1. t = ExtendedBy(s, n, values)
        <3>1. Extended(s, n, e) = ExtendedBy(s, n, Resolve(e, s.known))
            BY DEF Extended
        <3>2. Appended(s, n, e) = IF e.kind = "seq" THEN Extended(s, n, e) ELSE ExtendedBy(s, n, Unresolved)
            BY DEF Appended
        <3>3. t = IF st.op = "append" THEN Appended(s, n, e) ELSE Extended(s, n, e)
            <4>1. CASE st.op = "aug"
                BY <1>3, <4>1, SimpleIs
            <4>2. CASE st.op \in {"append", "extend"}
                BY <1>3, <4>2, SimpleIs
            <4>3. QED  BY <4>1, <4>2 DEF Growing
        <3> HIDE DEF t
        <3>4. QED  BY <3>1, <3>2, <3>3
    <2>2. CASE n \notin DOMAIN s.known \/ values = Unresolved
        <3>1. t = MarkDynamic(s)
            BY <2>1, <2>2 DEF ExtendedBy
        <3>2. QED  BY <3>1, MarkTyped DEF Follows
    <2>3. CASE n \in DOMAIN s.known /\ values # Unresolved
        <3>1. values = Resolve(e, s.known) /\ (st.op = "append" => e.kind = "seq")
            BY <2>3
        <3>2. t = AssignSequence(s, n, s.known[n] \o Resolve(e, s.known))
            BY <2>1, <2>3, <3>1 DEF ExtendedBy
        <3>3. Value(run, n).list
            BY <2>3 DEF Tells, Knows
        <3>4. Extends(run, st)
            BY <3>1, <3>3 DEF Extends
        <3>5. PICK r \in Evaluated(run, e) : x = GrownBy(r, n, r.run.heap[r.object])
            BY <3>4, ExecutedIs
        <3> HIDE DEF t, n, e, values
        <3>6. QED  BY <1>1, <1>3, <2>3, <3>1, <3>2, <3>5, GrowFollows DEF t
    <2>4. QED  BY <2>2, <2>3
<1>4. QED  BY <1>2, <1>3

\* A new object, bound to a tracked name that is forgotten.
LEMMA FreshFollows ==
    ASSUME Tracking, NEW s \in States, NEW run \in Runs, NEW out, Tells(s, run, out),
           NEW names \in Seq(Names), Range(names) \subseteq tracked,
           NEW value \in Cells, NEW r \in New(run, value)
    PROVE  Follows(AssignAll(s, names, Unresolved), BindResult(r, names))
<1> DEFINE t == AssignAll(s, names, Unresolved)  bound == Range(names) \cap tracked
           x == BindResult(r, names)
           out2 == out \cap Live(run)
<1>1. Apart(run, out, tracked) /\ tracked \in SUBSET Names
    BY DEF Tells, Tracking
<1>2. r.run \in Runs /\ r.object \in Objects
    BY NewIs
<1>3. Untouched(r.run, out2, run, out, tracked)
    BY <1>1, NewApart
<1>4. Tells(s, r.run, out2)
    <2> HIDE DEF out2
    <2>1. QED  BY <1>3, UntouchedTells
<1>5. x.heap = r.run.heap /\ \A n \in Names : x.env[n] = IF n \in Range(names) THEN r.object ELSE r.run.env[n]
    BY <1>2, BindResultIs
<1>6. Assigned(t, s, bound, Unresolved)
    BY AssignAllIs
<1> HIDE DEF t, x, out2
<1>7. Forgot(t, s, bound) /\ (t.exports = "missing" => All \notin bound)
    BY <1>6, AssignedForgot
<1>8. Apart(x, out2, tracked)
    BY <1>4, <1>5, BoundApart DEF Tells
<1>9. \A n \in tracked \ bound : x.env[n] = r.run.env[n]
    BY <1>1, <1>5
<1>10. Tells(t, x, out2)
    BY <1>4, <1>5, <1>7, <1>8, <1>9, ForgotTells
<1>11. QED  BY <1>10 DEF Follows, t, x

\* What is no known sequence is bound to tracked names.
LEMMA UnknownFollows ==
    ASSUME Tracking, NEW s \in States, NEW run \in Runs, NEW out, Tells(s, run, out),
           NEW e \in Expressions, ~HasEffect(e),
           NEW names \in Seq(Names), names # << >>, Range(names) \subseteq tracked,
           NEW r \in Evaluated(run, e)
    PROVE  Follows(AliasTargets(AssignAll(s, names, Unresolved), names, e), BindResult(r, names))
<1> DEFINE u == AssignAll(s, names, Unresolved)  t == AliasTargets(u, names, e)
           bound == Range(names) \cap tracked
           x == BindResult(r, names)
<1>1. Apart(run, out, tracked) /\ tracked \in SUBSET Names
    BY DEF Tells, Tracking
<1>2. r.run \in Runs /\ r.object \in Objects
    BY EvaluatedTyped
<1>3. PICK out2 : Untouched(r.run, out2, run, out, tracked)
    BY <1>1, EvaluatedAside DEF HasEffect
<1>4. Tells(s, r.run, out2)
    BY <1>3, UntouchedTells
<1>5. x.heap = r.run.heap /\ \A n \in Names : x.env[n] = IF n \in Range(names) THEN r.object ELSE r.run.env[n]
    BY <1>2, BindResultIs
<1>6. Assigned(u, s, bound, Unresolved)
    BY AssignAllIs
<1> HIDE DEF u
<1>7. Tied(t, u)
    BY <1>6, AliasTargetsIs DEF Assigned
<1> HIDE DEF t, x
<1>8. Forgot(t, s, bound) /\ (t.exports = "missing" => All \notin bound)
    BY <1>6, <1>7, AssignedForgot
<1>9. Apart(x, out2, tracked)
    BY <1>4, <1>5, BoundApart DEF Tells
<1>10. \A n \in tracked \ bound : x.env[n] = r.run.env[n]
    BY <1>1, <1>5
<1>11. Tells(t, x, out2)
    BY <1>4, <1>5, <1>8, <1>9, <1>10, ForgotTells
<1>12. QED  BY <1>11 DEF Follows, t, u, x

\* The names that are unpacked into are forgotten.
LEMMA UnpackFollows ==
    ASSUME Tracking, NEW s \in States, NEW run \in Runs, NEW out, Tells(s, run, out),
           NEW st, IsSimple(st), Tying(st), st.op = "unpack", ~HasEffect(st.value),
           Range(st.names) \cap tracked # {},
           NEW r \in Evaluated(run, st.value)
    PROVE  Len(r.run.heap[r.object].refs) = 2 =>
              Follows(AssignAll(s, st.names, Resolve(st.value, s.known)),
                      UnpackedTo(r, st.names, r.run.heap[r.object].refs))
<1> DEFINE e == st.value  names == st.names
           bound == Range(names) \cap tracked
           x == UnpackedTo(r, names, r.run.heap[r.object].refs)
<1>1. /\ Apart(run, out, tracked) /\ tracked \in SUBSET Names
      /\ e \in Expressions /\ names \in Seq(Names) /\ Range(names) \subseteq Names
    BY NamesAre, RangeIs DEF Tells, Tracking
<1>2. r.run \in Runs /\ r.object \in Objects
    BY <1>1, EvaluatedTyped
<1>3. Len(r.run.heap[r.object].refs) = 2 => Resolve(e, s.known) = Unresolved
    <2>1. Resolve(e, s.known) # Unresolved => r.run.heap[r.object].refs = << >>
        BY <1>1, EvaluatedResolved DEF ValuedApart
    <2>2. Len(<< >>) # 2
        OBVIOUS
    <2>3. QED  BY <2>1, <2>2
<1>4. \E out2 : /\ Untouched(r.run, out2, run, out, tracked)
                /\ Range(names) \subseteq tracked \/ r.object \in out2
    <2>1. CASE References(e) = {}
        BY <1>1, <2>1, EvaluatedApart
    <2>2. CASE References(e) # {}
        <3>1. \A n \in Range(names) : \A m \in References(e) : n \in tracked <=> m \in tracked
            BY TyingIs
        <3>2. Range(names) \subseteq tracked
            BY <2>2, <3>1
        <3>3. \E out2 : Untouched(r.run, out2, run, out, tracked)
            BY <1>1, EvaluatedAside DEF HasEffect
        <3>4. QED  BY <3>2, <3>3
    <2>3. QED  BY <2>1, <2>2
<1>5. PICK out2 : /\ Untouched(r.run, out2, run, out, tracked)
                  /\ Range(names) \subseteq tracked \/ r.object \in out2
    BY <1>4
<1>6. Tells(s, r.run, out2)
    BY <1>5, UntouchedTells
<1>7. Len(names) = 2
    BY DEF IsSimple, NamesOf
<1>8. SUFFICES ASSUME Len(r.run.heap[r.object].refs) = 2
               PROVE  Follows(AssignAll(s, names, Unresolved), x)
    BY <1>3
<1> DEFINE t == AssignAll(s, names, Unresolved)
<1>9. /\ \A n \in Names \ Range(names) : x.env[n] = r.run.env[n]
      /\ x.heap = r.run.heap
      /\ \A out3, kept :
            /\ Apart(r.run, out3, kept) /\ kept \subseteq Names
            /\ Range(names) \subseteq kept \/ r.object \in out3
            => Apart(x, out3, kept)
    BY <1>1, <1>2, <1>7, <1>8, UnpackedIs
<1>10. Apart(x, out2, tracked)
    BY <1>1, <1>5, <1>6, <1>9 DEF Tells
<1>11. Assigned(t, s, bound, Unresolved)
    BY <1>1, AssignAllIs
<1> HIDE DEF t, x
<1>12. Forgot(t, s, bound) /\ (t.exports = "missing" => All \notin bound)
    BY <1>11, AssignedForgot
<1>13. \A n \in tracked \ bound : x.env[n] = r.run.env[n]
    BY <1>1, <1>9
<1>14. Tells(t, x, out2)
    BY <1>6, <1>9, <1>10, <1>12, <1>13, ForgotTells
<1>15. QED  BY <1>14 DEF Follows, t

LEMMA DeleteFollows ==
    ASSUME Tracking, NEW s \in States, NEW run \in Runs, Follows(s, run), NEW names \in Seq(Names)
    PROVE  Follows(DeleteAll(s, names), BindAll(run, names, Unbound))
<1> DEFINE t == DeleteAll(s, names)  bound == Range(names) \cap tracked
           x == BindAll(run, names, Unbound)
<1>1. Deleted(t, s, bound)
    BY DeleteAllIs
<1>2. x.heap = run.heap /\ \A n \in Names : x.env[n] = IF n \in Range(names) THEN Unbound ELSE run.env[n]
    BY BindIs
<1> HIDE DEF t, x
<1>3. CASE s.dynamic
    BY <1>1, <1>3 DEF Deleted, Follows, t
<1>4. CASE ~s.dynamic
    <2>1. PICK out : Tells(s, run, out)
        BY <1>4 DEF Follows
    <2>2. Apart(x, out, tracked)
        BY <1>2, <2>1 DEF Tells, Apart, Closes
    <2>3. (\A n \in tracked \ bound : x.env[n] = run.env[n]) /\ (All \in bound => x.env[All] = Unbound)
        BY <1>2 DEF Tracking
    <2>4. Tells(t, x, out)
        BY <1>1, <1>2, <2>1, <2>2, <2>3, DeletedForgot, ForgotTells
    <2>5. QED  BY <2>4 DEF Follows, t, x
<1>5. QED  BY <1>3, <1>4

\* A state that follows a run follows it past a statement without a body.
LEMMA SimpleFollows ==
    ASSUME Tracking, NEW s \in States, NEW run \in Runs, Follows(s, run),
           NEW st, IsSimple(st), FollowedSimple(st), Tying(st), NEW x \in Executed(run, st)
    PROVE  Follows(Simple(s, st), x)
<1> DEFINE names == st.names  e == st.value
<1>1. names \in Seq(Names) /\ e \in Expressions
    BY NamesAre
<1>2. CASE s.dynamic \/ HasEffect(e)
    BY <1>2, SimpleDynamic, EffectDynamic DEF Follows
<1>3. CASE ~s.dynamic /\ ~HasEffect(e)
    <2>1. PICK out : Tells(s, run, out)
        BY <1>3 DEF Follows
    <2>2. CASE Range(names) \cap tracked = {}
        BY <1>3, <2>1, <2>2, BesideFollows
    <2>3. ASSUME Range(names) \cap tracked # {} PROVE Follows(Simple(s, st), x)
        <3>1. MarkDynamic(s).dynamic
            BY MarkTyped
        <3>2. CASE st.op = "assign"
            <4>1. PICK r \in Evaluated(run, e) : x = BindResult(r, names)
                BY <3>2, ExecutedIs
            <4>2. names # << >>
                BY <3>2, NamesAre
            <4>3. Range(names) \subseteq tracked
                BY <2>3, <3>2, TyingIs
            <4>4. Simple(s, st) = AliasTargets(AssignAll(s, names, Resolve(e, s.known)), names, e)
                BY <1>3, <3>2, SimpleIs
            <4>5. e.kind = "name" => e.names[1] \notin Range(names)
                BY <3>2 DEF FollowedSimple
            <4> HIDE DEF names, e
            <4>6. CASE Resolve(e, s.known) # Unresolved
                BY <1>1, <2>1, <4>1, <4>2, <4>3, <4>4, <4>5, <4>6, AssignFollows
            <4>7. CASE Resolve(e, s.known) = Unresolved
                <5>1. ~HasEffect(e)
                    BY <1>3
                <5>2. Follows(AliasTargets(AssignAll(s, names, Unresolved), names, e), BindResult(r, names))
                    BY <1>1, <2>1, <4>2, <4>3, <5>1, UnknownFollows
                <5>3. QED  BY <4>1, <4>4, <4>7, <5>2
            <4>8. QED  BY <4>6, <4>7
        <3>3. CASE st.op = "unpack"
            <4>1. PICK r \in Evaluated(run, e) :
                     /\ Len(r.run.heap[r.object].refs) = 2
                     /\ x = UnpackedTo(r, names, r.run.heap[r.object].refs)
                BY <3>3, ExecutedIs
            <4>2. Simple(s, st) = AssignAll(s, names, Resolve(e, s.known))
                BY <1>3, <3>3, SimpleIs
            <4>3. Follows(AssignAll(s, names, Resolve(e, s.known)),
                          UnpackedTo(r, names, r.run.heap[r.object].refs))
                BY <1>3, <2>1, <2>3, <3>3, <4>1, UnpackFollows
            <4>4. QED  BY <4>1, <4>2, <4>3
        <3>4. CASE st.op = "call"
            <4>1. st.names = << >>
                BY <1>1, <3>4 DEF IsSimple, NamesOf
            <4>2. QED  BY <2>3, <4>1 DEF Range
        <3>5. CASE st.op \notin {"assign", "unpack", "call"}
            <4>1. names[1] \in tracked /\ Range(names) \subseteq tracked
                <5>1. Range(names) = {names[1]}
                    BY <3>5, NamesAre
                <5> HIDE DEF names
                <5>2. QED  BY <2>3, <5>1
            <4>2. CASE st.op = "import"
                <5>1. PICK module \in Modules : \E r \in New(run, module) : x = BindResult(r, names)
                    BY <4>2, ExecutedIs
                <5>2. PICK r \in New(run, module) : x = BindResult(r, names)
                    BY <5>1
                <5>3. module \in Cells
                    BY ModulesAre
                <5>4. Simple(s, st) = AssignAll(s, names, Unresolved)
                    BY <4>2, SimpleIs
                <5> HIDE DEF names
                <5>5. QED  BY <1>1, <2>1, <4>1, <5>2, <5>3, <5>4, FreshFollows
            <4>3. CASE st.op = "def"
                <5> DEFINE function == Function(st.effects, << >>)
                <5>1. PICK r \in New(run, function) : x = BindResult(r, names)
                    BY <4>3, ExecutedIs
                <5>2. function \in Cells
                    BY <4>3, CellsAre DEF IsSimple
                <5>3. Simple(s, st) = AssignAll(s, names, Unresolved)
                    BY <4>3, SimpleIs
                <5> HIDE DEF names, function
                <5>4. QED  BY <1>1, <2>1, <4>1, <5>1, <5>2, <5>3, FreshFollows
            <4>4. CASE st.op = "declare"
                <5>1. x = run
                    BY <4>4, ExecutedIs
                <5>2. Assigned(AssignAll(s, names, Unresolved), s, Range(names) \cap tracked, Unresolved)
                    BY <1>1, AssignAllIs
                <5>3. Follows(AssignAll(s, names, Unresolved), run)
                    BY <5>2, AssignedWeaker, WeakerFollows
                <5>4. QED  BY <4>4, <5>1, <5>3, SimpleIs
            <4>5. CASE st.op = "delete"
                <5>1. x = BindAll(run, names, Unbound)
                    BY <4>5, ExecutedIs
                <5>2. Simple(s, st) = DeleteAll(s, names)
                    BY <4>5, SimpleIs
                <5>3. QED  BY <1>1, <5>1, <5>2, DeleteFollows
            <4>6. CASE st.op \in Growing
                BY <1>3, <2>1, <4>1, <4>6, ExtendFollows
            <4>7. CASE st.op = "item"
                <5>1. ~(References(e) \cup Range(names) \subseteq Names \ tracked)
                    BY <2>3
                <5>2. Simple(s, st) = MarkDynamic(s)
                    BY <1>3, <4>7, <5>1, SimpleIs
                <5>3. QED  BY <3>1, <5>2 DEF Follows
            <4>8. CASE st.op \in {"method", "delitem"}
                <5>1. Simple(s, st) = MarkDynamic(s)
                    <6>1. CASE st.op = "method"
                        BY <4>1, <6>1, SimpleIs
                    <6>2. CASE st.op = "delitem"
                        BY <4>1, <6>2, SimpleIs
                    <6>3. QED  BY <4>8, <6>1, <6>2
                <5>2. QED  BY <3>1, <5>1 DEF Follows
            <4>9. st.op \in Valueless \cup Valued /\ st.op \notin {"withimport", "nested"}
                BY DEF IsSimple, FollowedSimple
            <4>10. QED
                BY <3>5, <4>2, <4>3, <4>4, <4>5, <4>6, <4>7, <4>8, <4>9 DEF Valueless, Valued, Growing
        <3>6. QED  BY <3>2, <3>3, <3>4, <3>5
    <2>4. QED  BY <2>2, <2>3
<1>4. QED  BY <1>2, <1>3

LEMMA SweptFollows ==
    ASSUME Tracking, NEW s \in States, NEW run \in Runs, Follows(s, run)
    PROVE  Follows(s, Swept(run))
<1>1. CASE s.dynamic
    BY <1>1 DEF Follows
<1>2. CASE ~s.dynamic
    <2>1. PICK out : Tells(s, run, out)
        BY <1>2 DEF Follows
    <2>2. Untouched(Swept(run), out, run, out, tracked)
        BY <2>1, SweptIs DEF Tells, Tracking
    <2>3. QED  BY <2>1, <2>2, UntouchedTells DEF Follows
<1>3. QED  BY <1>1, <1>2
-----------------------------------------------------------------------------
(* Runs of which __all__ is no part, when q holds. *)

Silent(run) == run.env[All] = Unbound /\ \E out : Apart(run, out, {All})
QuietRuns(q) == {run \in Runs : q => Silent(run)}

LEMMA QuietIs ==
    ASSUME NEW q, NEW run \in QuietRuns(q), NEW x \in Runs,
           \A out : Apart(run, out, {All}) /\ q => \E out2 : Untouched(x, out2, run, out, {All})
    PROVE  x \in QuietRuns(q)
<1>1. SUFFICES ASSUME q PROVE Silent(x)
    BY DEF QuietRuns
<1>2. PICK out : Apart(run, out, {All}) /\ run.env[All] = Unbound
    BY <1>1 DEF QuietRuns, Silent
<1>3. PICK out2 : Untouched(x, out2, run, out, {All})
    BY <1>1, <1>2
<1>4. QED  BY <1>2, <1>3 DEF Silent, Untouched

LEMMA AllNamed == {All} \in SUBSET Names
BY DEF Names

LEMMA ExecutedQuiet ==
    ASSUME NEW q, NEW run \in QuietRuns(q), NEW st, IsSimple(st), FollowedSimple(st), q => ~MentionsSimple(st),
           NEW x \in Executed(run, st)
    PROVE  x \in QuietRuns(q)
<1>1. run \in Runs
    BY DEF QuietRuns
<1>2. x \in Runs
    BY <1>1, ExecutedTyped
<1>3. ASSUME NEW out, Apart(run, out, {All}), q
      PROVE  \E out2 : Untouched(x, out2, run, out, {All})
    <2>1. /\ Range(st.names) \cap {All} = {} /\ References(st.value) \cap {All} = {}
          /\ st.op = "def" => st.effects \cap {All} = {}
        BY <1>3 DEF MentionsSimple
    <2>2. QED  BY <1>1, <1>3, <2>1, AllNamed, ExecutedApart
<1>4. QED  BY <1>2, <1>3, QuietIs

LEMMA EvaluatedQuiet ==
    ASSUME NEW q, NEW run \in QuietRuns(q), NEW e \in Expressions, q => All \notin References(e),
           NEW r \in Evaluated(run, e)
    PROVE  r.run \in QuietRuns(q)
<1>1. run \in Runs
    BY DEF QuietRuns
<1>2. r.run \in Runs
    BY <1>1, EvaluatedTyped
<1>3. ASSUME NEW out, Apart(run, out, {All}), q
      PROVE  \E out2 : Untouched(r.run, out2, run, out, {All})
    BY <1>1, <1>3, AllNamed, EvaluatedAside
<1>4. QED  BY <1>2, <1>3, QuietIs

LEMMA SweptQuiet ==
    ASSUME NEW q, NEW run \in QuietRuns(q)
    PROVE  Swept(run) \in QuietRuns(q)
<1>1. run \in Runs
    BY DEF QuietRuns
<1>2. Swept(run) \in Runs
    BY <1>1, SweptIs
<1>3. ASSUME NEW out, Apart(run, out, {All}), q
      PROVE  \E out2 : Untouched(Swept(run), out2, run, out, {All})
    BY <1>1, <1>3, AllNamed, SweptIs
<1>4. QED  BY <1>2, <1>3, QuietIs
-----------------------------------------------------------------------------
(* The states of the analysis cover the runs. *)

Covers(ss, rs) == \A run \in rs : \E s \in ss : Follows(s, run)

LEMMA CoversMore ==
    ASSUME NEW ss, NEW rs, Covers(ss, rs), NEW more, ss \subseteq more, NEW less, less \subseteq rs
    PROVE  Covers(more, less)
BY DEF Covers

LEMMA CoversBoth ==
    ASSUME NEW ss, NEW rs, NEW others, Covers(ss, rs), Covers(ss, others)
    PROVE  Covers(ss, rs \cup others)
BY DEF Covers

\* A statement the analysis follows, and that does not mention __all__ when q holds.
Fit(st, q) == IsSimple(st) /\ FollowedSimple(st) /\ Tying(st) /\ (q => ~MentionsSimple(st))
FitSimples(suite, q) == suite \in Seq(Range(suite)) /\ \A st \in Range(suite) : Fit(st, q)

Ends(q) == [done : SUBSET QuietRuns(q), raised : SUBSET QuietRuns(q)]

AllSimple(ss, st) == {Simple(s, st) : s \in ss}
AllRaised(rs, st) == UNION {Raised(run, st) : run \in rs}

LEMMA SimpleRunsFit ==
    ASSUME NEW q, NEW rs \in SUBSET QuietRuns(q), NEW st, Fit(st, q)
    PROVE  SimpleRuns(rs, st) \in SUBSET QuietRuns(q) /\ AllRaised(rs, st) \in SUBSET QuietRuns(q)
<1>1. IsSimple(st) /\ FollowedSimple(st) /\ (q => ~MentionsSimple(st)) /\ st.value \in Expressions
    BY NamesAre DEF Fit
<1>2. \A run \in rs : \A x \in Executed(run, st) : Swept(x) \in QuietRuns(q)
    BY <1>1, ExecutedQuiet, SweptQuiet
<1>3. \A run \in rs : \A r \in Evaluated(run, st.value) : r.run \in QuietRuns(q)
    BY <1>1, EvaluatedQuiet DEF MentionsSimple
<1>4. SimpleRuns(rs, st) \in SUBSET QuietRuns(q)
    BY <1>2 DEF SimpleRuns
<1>5. AllRaised(rs, st) \in SUBSET QuietRuns(q)
    BY <1>3 DEF AllRaised, Raised
<1>6. QED  BY <1>4, <1>5

LEMMA SimpleRunsCovered ==
    ASSUME Tracking, NEW q, NEW rs \in SUBSET QuietRuns(q), NEW st, Fit(st, q),
           NEW ss \in SUBSET States, Covers(ss, rs)
    PROVE  /\ Covers(AllSimple(ss, st), SimpleRuns(rs, st))
           /\ Covers(ss \cup AllSimple(ss, st), AllRaised(rs, st))
<1>1. IsSimple(st) /\ FollowedSimple(st) /\ Tying(st)
    BY DEF Fit
<1>2. \A run \in rs : run \in Runs /\ \E s \in ss : s \in States /\ Follows(s, run)
    BY DEF Covers, QuietRuns
<1>3. ASSUME NEW run \in rs, NEW x \in Executed(run, st)
      PROVE  \E s \in ss : Follows(Simple(s, st), Swept(x))
    <2>1. PICK s \in ss : s \in States /\ Follows(s, run)
        BY <1>2
    <2>2. run \in Runs /\ x \in Runs
        BY <1>1, <1>2, ExecutedTyped
    <2>3. Follows(Simple(s, st), x) /\ Simple(s, st) \in States
        BY <1>1, <2>1, <2>2, SimpleFollows, SimpleTyped
    <2>4. QED  BY <2>2, <2>3, SweptFollows
<1>4. ASSUME NEW run \in rs, NEW x \in Raised(run, st)
      PROVE  \E s \in ss : Follows(s, x) \/ Follows(Simple(s, st), x)
    BY <1>1, <1>2, RaisedFollows
<1> DEFINE next == {Simple(s, st) : s \in ss}
<1>5. \A x \in SimpleRuns(rs, st) : \E run \in rs : \E y \in Executed(run, st) : x = Swept(y)
    BY DEF SimpleRuns
<1>6. Covers(next, SimpleRuns(rs, st))
    BY <1>3, <1>5 DEF Covers
<1>7. Covers(ss \cup next, AllRaised(rs, st))
    BY <1>4 DEF Covers, AllRaised
<1>8. QED  BY <1>6, <1>7 DEF AllSimple

\* A statement that may not change a tracked sequence makes no state follow less.
LEMMA SimpleStill ==
    ASSUME Tracking, NEW ss \in SUBSET States, NEW rs, Covers(ss, rs),
           NEW q, NEW st, Fit(st, q), ~MayChangeSimple(st)
    PROVE  Covers(AllSimple(ss, st), rs)
<1>1. IsSimple(st) /\ FollowedSimple(st)
    BY DEF Fit
<1>2. Range(st.names) \cap tracked = {} \/ st.op \in {"import", "def", "declare"}
    <2>1. CASE st.op = "call"
        <3>1. st.names = << >>
            BY <1>1, <2>1 DEF IsSimple, NamesOf
        <3>2. QED  BY <3>1 DEF Range
    <2>2. CASE st.op # "call"
        BY <1>1, <2>2 DEF MayChangeSimple, IsSimple, FollowedSimple, Valueless, Valued
    <2>3. QED  BY <2>1, <2>2
<1>3. ASSUME NEW s \in ss, NEW run, Follows(s, run)
      PROVE  Follows(Simple(s, st), run)
    BY <1>1, <1>2, <1>3, SimpleWeaker, SimpleDynamic, WeakerFollows
<1>4. QED  BY <1>3 DEF Covers, AllSimple

LEMMA SimpleEndsTyped ==
    ASSUME NEW q, NEW r \in Ends(q), NEW st, Fit(st, q)
    PROVE  /\ SimpleEnds(r, st) \in Ends(q)
           /\ SimpleEnds(r, st).done = SimpleRuns(r.done, st)
           /\ SimpleEnds(r, st).raised = r.raised \cup AllRaised(r.done, st)
<1>1. r.done \in SUBSET QuietRuns(q) /\ r.raised \in SUBSET QuietRuns(q)
    BY DEF Ends
<1>2. SimpleRuns(r.done, st) \in SUBSET QuietRuns(q) /\ AllRaised(r.done, st) \in SUBSET QuietRuns(q)
    BY <1>1, SimpleRunsFit
<1>3. SimpleEnds(r, st) = [done |-> SimpleRuns(r.done, st), raised |-> r.raised \cup AllRaised(r.done, st)]
    BY DEF SimpleEnds, AllRaised
<1>4. QED  BY <1>1, <1>2, <1>3 DEF Ends

\* The ends of a suite without compound statements, statement by statement.
LEMMA SimpleSuiteEndsSteps ==
    ASSUME NEW q, NEW rs \in SUBSET QuietRuns(q), NEW suite, FitSimples(suite, q)
    PROVE  \E h : /\ h \in [0 .. Len(suite) -> Ends(q)] /\ h[0] = [done |-> rs, raised |-> {}]
                  /\ \A i \in 1 .. Len(suite) : h[i] = SimpleEnds(h[i - 1], suite[i])
                  /\ h[Len(suite)] = SimpleSuiteEnds(rs, suite)
<1> DEFINE n == Len(suite)
           Step(t, i) == SimpleEnds(t, suite[i])
           F == [p \in Ends(q) \X (1 .. n) |-> Step(p[1], p[2])]
           Is(it) == it = [set \in SUBSET DOMAIN suite |->
                             IF set = {} THEN [done |-> rs, raised |-> {}] ELSE Step(it[set \ {Max(set)}], Max(set))]
           it == CHOOSE it : Is(it)
<1>1. n \in Nat /\ DOMAIN suite = 1 .. n
    BY MemberOf DEF FitSimples
<1>2. [done |-> rs, raised |-> {}] \in Ends(q) /\ \A t \in Ends(q), i \in 1 .. n : Step(t, i) \in Ends(q)
    <2>1. \A i \in 1 .. n : Fit(suite[i], q)
        BY <1>1, MemberOf DEF FitSimples
    <2>2. [done |-> rs, raised |-> {}] \in Ends(q)
        BY DEF Ends
    <2>3. QED  BY <2>1, <2>2, SimpleEndsTyped
<1>3. it[DOMAIN suite] = SimpleSuiteEnds(rs, suite)
    BY DEF SimpleSuiteEnds, FoldLeft, MapThenFoldSet
<1> HIDE DEF Step, n
<1>4. IsStep(F, Ends(q), n)
    BY <1>2 DEF IsStep
<1>5. PICK g : IsFold(g, F, Ends(q), [done |-> rs, raised |-> {}], n)
    BY <1>1, <1>2, <1>4, FoldExists
<1>6. ASSUME NEW set \in (SUBSET (1 .. n)) \ {{}}, NEW f, f[set \ {Max(set)}] \in Ends(q)
      PROVE  F[<<f[set \ {Max(set)}], Max(set)>>] = Step(f[set \ {Max(set)}], Max(set))
    <2>1. Max(set) \in 1 .. n
        BY <1>1, MaxOfTo
    <2>2. QED  BY <1>6, <2>1
<1>7. Is(g)
    <2>1. \A set \in (SUBSET (1 .. n)) \ {{}} : g[set \ {Max(set)}] \in Ends(q)
        BY <1>5 DEF IsFold
    <2>2. \A set \in (SUBSET (1 .. n)) \ {{}} : g[set] = Step(g[set \ {Max(set)}], Max(set))
        BY <1>5, <1>6, <2>1 DEF IsFold
    <2> HIDE DEF F
    <2>3. QED  BY <1>1, <1>5, <2>2 DEF IsFold
<1>8. Is(it)
    <2> HIDE DEF Is
    <2>1. QED  BY <1>7
<1>9. Folds(it, F, Ends(q), [done |-> rs, raised |-> {}], n)
    <2> HIDE DEF F, it
    <2>1. it[{}] = [done |-> rs, raised |-> {}]
        BY <1>8
    <2>2. \A set \in (SUBSET (1 .. n)) \ {{}} : it[set] = Step(it[set \ {Max(set)}], Max(set))
        BY <1>1, <1>8
    <2>3. QED  BY <1>6, <2>1, <2>2 DEF Folds
<1> HIDE DEF it, Is
<1>10. PICK h : IsPrefixes(h, F, Ends(q), [done |-> rs, raised |-> {}], n) /\ h[n] = it[1 .. n]
    <2> HIDE DEF F
    <2>1. QED  BY <1>1, <1>2, <1>4, <1>9, FoldSteps
<1>11. ASSUME NEW i \in 1 .. n PROVE h[i] = Step(h[i - 1], i)
    <2>1. i - 1 \in 0 .. n
        BY <1>1
    <2>2. h[i - 1] \in Ends(q)
        BY <1>10, <2>1 DEF IsPrefixes
    <2>3. h[i] = F[<<h[i - 1], i>>]
        BY <1>10 DEF IsPrefixes
    <2>4. QED  BY <2>2, <2>3
<1>12. QED  BY <1>1, <1>3, <1>10, <1>11 DEF IsPrefixes, Step, n

\* A suite without compound statements.
LEMMA SimpleSuiteCovered ==
    ASSUME Tracking, NEW q, NEW rs \in SUBSET QuietRuns(q), NEW suite, FitSimples(suite, q),
           NEW ss \in SUBSET States
    PROVE  LET end == SimpleSuiteEnds(rs, suite)
               result == SimpleSuite(ss, suite)
           IN  /\ end \in Ends(q)
               /\ Covers(ss, rs) /\ ~result.failed => Covers(result.states, end.done)
               /\ (\A st \in Range(suite) : ~MayChangeSimple(st)) =>
                     /\ Covers(ss, rs) /\ ~result.failed => Covers(result.states, end.raised)
                     /\ \A others : Covers(ss, others) /\ ~result.failed => Covers(result.states, others)
<1> DEFINE n == Len(suite)
<1>1. n \in Nat /\ \A i \in 1 .. n : Fit(suite[i], q) /\ IsSimple(suite[i]) /\ suite[i] \in Range(suite)
    BY MemberOf DEF FitSimples, Fit
<1>2. IsSimpleSuite(suite)
    BY DEF FitSimples, Fit, IsSimpleSuite
<1>3. \E h : /\ h \in [0 .. n -> Results] /\ h[0] = Sound(ss)
             /\ \A i \in 1 .. n : h[i] = SimpleStep(h[i - 1], suite[i])
             /\ h[n] = SimpleSuite(ss, suite)
    BY <1>2, SimpleSuiteSteps
<1>4. \E g : /\ g \in [0 .. n -> Ends(q)] /\ g[0] = [done |-> rs, raised |-> {}]
             /\ \A i \in 1 .. n : g[i] = SimpleEnds(g[i - 1], suite[i])
             /\ g[n] = SimpleSuiteEnds(rs, suite)
    BY SimpleSuiteEndsSteps
<1>5. PICK h : /\ h \in [0 .. n -> Results] /\ h[0] = Sound(ss)
               /\ \A i \in 1 .. n : h[i] = SimpleStep(h[i - 1], suite[i])
               /\ h[n] = SimpleSuite(ss, suite)
    BY <1>3
<1>6. PICK g : /\ g \in [0 .. n -> Ends(q)] /\ g[0] = [done |-> rs, raised |-> {}]
               /\ \A i \in 1 .. n : g[i] = SimpleEnds(g[i - 1], suite[i])
               /\ g[n] = SimpleSuiteEnds(rs, suite)
    BY <1>4
<1> HIDE DEF n
<1>7. ASSUME NEW i \in 1 .. n
      PROVE  /\ i - 1 \in 0 .. n /\ i \in 0 .. n
             /\ h[i - 1] \in Results /\ h[i - 1].states \in SUBSET States
             /\ ~h[i].failed => ~h[i - 1].failed /\ h[i].states = AllSimple(h[i - 1].states, suite[i])
             /\ g[i - 1] \in Ends(q) /\ g[i - 1].done \in SUBSET QuietRuns(q)
             /\ g[i].done = SimpleRuns(g[i - 1].done, suite[i])
             /\ g[i].raised = g[i - 1].raised \cup AllRaised(g[i - 1].done, suite[i])
    <2>1. i - 1 \in 0 .. n /\ i \in 0 .. n
        BY <1>1
    <2>2. h[i - 1] \in Results /\ g[i - 1] \in Ends(q)
        BY <1>5, <1>6, <2>1
    <2>3. h[i - 1].states \in SUBSET States /\ g[i - 1].done \in SUBSET QuietRuns(q)
        BY <2>2 DEF Results, Ends
    <2>4. ~h[i].failed => ~h[i - 1].failed /\ h[i].states = AllSimple(h[i - 1].states, suite[i])
        BY <1>1, <1>5, <2>2, SimpleStepIs DEF AllSimple
    <2>5. g[i].done = SimpleRuns(g[i - 1].done, suite[i])
          /\ g[i].raised = g[i - 1].raised \cup AllRaised(g[i - 1].done, suite[i])
        BY <1>1, <1>6, <2>2, SimpleEndsTyped
    <2>6. QED  BY <2>1, <2>2, <2>3, <2>4, <2>5
<1>8. /\ g[0].done = rs /\ g[0].raised = {} /\ ~h[0].failed /\ h[0].states = ss
      /\ g[n] \in Ends(q)
    BY <1>1, <1>5, <1>6, ResultIs
<1>9. ASSUME Covers(ss, rs)
      PROVE  ~h[n].failed => Covers(h[n].states, g[n].done)
    <2> DEFINE good == {i \in 0 .. n : ~h[i].failed => Covers(h[i].states, g[i].done)}
    <2>1. 0 \in good
        BY <1>1, <1>8, <1>9
    <2>2. ASSUME NEW i \in 1 .. n, i - 1 \in good PROVE i \in good
        <3>1. SUFFICES ASSUME ~h[i].failed PROVE Covers(h[i].states, g[i].done)
            BY <1>7
        <3>2. Covers(h[i - 1].states, g[i - 1].done)
            BY <1>7, <2>2, <3>1
        <3>3. h[i].states = AllSimple(h[i - 1].states, suite[i])
            BY <1>7, <3>1
        <3> DEFINE now == h[i - 1].states  done == g[i - 1].done  st == suite[i]
        <3>4. Covers(AllSimple(now, st), SimpleRuns(done, st))
            <4>1. now \in SUBSET States /\ done \in SUBSET QuietRuns(q) /\ Fit(st, q) /\ Covers(now, done)
                BY <1>1, <1>7, <3>2
            <4> HIDE DEF now, done, st
            <4>2. QED  BY <4>1, SimpleRunsCovered
        <3>5. QED  BY <1>7, <3>3, <3>4
    <2> HIDE DEF good
    <2>3. 0 .. n \subseteq good
        BY <1>1, <2>1, <2>2, Steps
    <2>4. n \in 0 .. n
        BY <1>1
    <2>5. QED  BY <2>3, <2>4 DEF good
<1>10. ASSUME \A st \in Range(suite) : ~MayChangeSimple(st), NEW others, Covers(ss, others)
       PROVE  ~h[n].failed => Covers(h[n].states, others)
    <2> DEFINE good == {i \in 0 .. n : ~h[i].failed => Covers(h[i].states, others)}
    <2>1. 0 \in good
        BY <1>1, <1>8, <1>10
    <2>2. ASSUME NEW i \in 1 .. n, i - 1 \in good PROVE i \in good
        <3>1. SUFFICES ASSUME ~h[i].failed PROVE Covers(h[i].states, others)
            BY <1>7
        <3>2. Covers(h[i - 1].states, others)
            BY <1>7, <2>2, <3>1
        <3>3. h[i].states = AllSimple(h[i - 1].states, suite[i])
            BY <1>7, <3>1
        <3>4. QED  BY <1>1, <1>7, <1>10, <3>2, <3>3, SimpleStill
    <2> HIDE DEF good
    <2>3. 0 .. n \subseteq good
        BY <1>1, <2>1, <2>2, Steps
    <2>4. n \in 0 .. n
        BY <1>1
    <2>5. QED  BY <2>3, <2>4 DEF good
<1>11. ASSUME \A st \in Range(suite) : ~MayChangeSimple(st), Covers(ss, rs)
       PROVE  ~h[n].failed => Covers(h[n].states, g[n].raised)
    <2> DEFINE good == {i \in 0 .. n :
                          ~h[i].failed => Covers(h[i].states, g[i].done) /\ Covers(h[i].states, g[i].raised)}
    <2>1. 0 \in good
        <3>1. Covers(ss, {})
            BY DEF Covers
        <3>2. QED  BY <1>1, <1>8, <1>11, <3>1
    <2>2. ASSUME NEW i \in 1 .. n, i - 1 \in good PROVE i \in good
        <3>1. SUFFICES ASSUME ~h[i].failed PROVE Covers(h[i].states, g[i].done) /\ Covers(h[i].states, g[i].raised)
            BY <1>7
        <3> DEFINE before == h[i - 1].states  raised == AllRaised(g[i - 1].done, suite[i])
        <3>2. Covers(before, g[i - 1].done) /\ Covers(before, g[i - 1].raised)
            BY <1>7, <2>2, <3>1
        <3>3. h[i].states = AllSimple(before, suite[i]) /\ before \in SUBSET States
            BY <1>7, <3>1
        <3>4. Covers(h[i].states, g[i].done) /\ Covers(before \cup h[i].states, raised)
            <4> DEFINE done == g[i - 1].done  st == suite[i]
            <4>1. /\ before \in SUBSET States /\ done \in SUBSET QuietRuns(q) /\ Fit(st, q) /\ Covers(before, done)
                  /\ h[i].states = AllSimple(before, st) /\ g[i].done = SimpleRuns(done, st)
                  /\ raised = AllRaised(done, st)
                BY <1>1, <1>7, <3>2, <3>3
            <4> HIDE DEF before, done, st, raised
            <4>2. QED  BY <4>1, SimpleRunsCovered
        <3>5. ~MayChangeSimple(suite[i])
            BY <1>1, <1>11
        <3>6. \A rs2 : Covers(before, rs2) => Covers(h[i].states, rs2)
            BY <1>1, <3>3, <3>5, SimpleStill
        <3>7. Covers(h[i].states, {x \in raised : \E s \in before : Follows(s, x)})
            BY <3>6 DEF Covers
        <3>8. Covers(h[i].states, raised)
            BY <3>4, <3>7 DEF Covers
        <3>9. g[i].raised = g[i - 1].raised \cup raised
            BY <1>7
        <3>10. QED  BY <3>2, <3>4, <3>6, <3>8, <3>9, CoversBoth
    <2> HIDE DEF good
    <2>3. 0 .. n \subseteq good
        BY <1>1, <2>1, <2>2, Steps
    <2>4. n \in 0 .. n
        BY <1>1
    <2>5. QED  BY <2>3, <2>4 DEF good
<1>12. h[n] = SimpleSuite(ss, suite) /\ g[n] = SimpleSuiteEnds(rs, suite)
    BY <1>5, <1>6
<1> HIDE DEF Covers
<1>13. QED  BY <1>8, <1>9, <1>10, <1>11, <1>12

FitClause(clause, q) ==
    IsClause(clause) /\ FitSimples(clause.body, q) /\ (q => All \notin References(clause.value))
FitClauses(clauses, q) ==
    clauses \in Seq(Range(clauses)) /\ \A clause \in Range(clauses) : FitClause(clause, q)

Splits(q) == [done : SUBSET QuietRuns(q), left : SUBSET QuietRuns(q), raised : SUBSET QuietRuns(q)]

LEMMA EffectMarked ==
    ASSUME Tracking, NEW ss \in SUBSET States, NEW clause, NEW rs, Covers(ss, rs),
           clause.test # "else", HasEffect(clause.value), NEW others, rs = {} => others = {}
    PROVE  Covers(ReachClause(ss, clause), others)
<1>1. ReachClause(ss, clause) = {MarkDynamic(s) : s \in ss}
    BY DEF ReachClause
<1>2. \A s \in ss : MarkDynamic(s).dynamic
    BY MarkTyped
<1>3. others # {} => ss # {}
    BY DEF Covers
<1>4. QED  BY <1>1, <1>2, <1>3 DEF Covers, Follows

\* The runs and the states that come past a test.
LEMMA TestedIs ==
    ASSUME Tracking, NEW q, NEW rs \in SUBSET QuietRuns(q), NEW clause, FitClause(clause, q),
           NEW ss \in SUBSET States
    PROVE  /\ Tested(rs, clause) \in SUBSET QuietRuns(q)
           /\ Covers(ss, rs) => Covers(ReachClause(ss, clause), Tested(rs, clause))
<1>1. clause.value \in Expressions /\ (q => All \notin References(clause.value))
    BY DEF FitClause, IsClause
<1>2. \A run \in rs : run \in Runs
    BY DEF QuietRuns
<1>3. CASE clause.test = "call"
    <2>1. Tested(rs, clause) = {r.run : r \in UNION {Evaluated(run, clause.value) : run \in rs}}
        BY <1>3 DEF Tested
    <2>2. \A x \in Tested(rs, clause) : \E run \in rs : \E r \in Evaluated(run, clause.value) : x = r.run
        BY <2>1
    <2>3. Tested(rs, clause) \in SUBSET QuietRuns(q)
        BY <1>1, <2>2, EvaluatedQuiet
    <2>4. ASSUME Covers(ss, rs) PROVE Covers(ReachClause(ss, clause), Tested(rs, clause))
        <3>1. CASE HasEffect(clause.value)
            BY <1>3, <2>2, <2>4, <3>1, EffectMarked
        <3>2. CASE ~HasEffect(clause.value)
            <4>1. ReachClause(ss, clause) = ss
                BY <3>2 DEF ReachClause
            <4>2. ASSUME NEW x \in Tested(rs, clause) PROVE \E s \in ss : Follows(s, x)
                <5>1. PICK run \in rs : \E r \in Evaluated(run, clause.value) : x = r.run
                    BY <2>2
                <5>2. PICK r \in Evaluated(run, clause.value) : x = r.run
                    BY <5>1
                <5>3. PICK s \in ss : s \in States /\ Follows(s, run)
                    BY <2>4 DEF Covers
                <5>4. CASE s.dynamic
                    BY <5>3, <5>4 DEF Follows
                <5>5. CASE ~s.dynamic
                    <6>1. PICK out : Tells(s, run, out)
                        BY <5>3, <5>5 DEF Follows
                    <6>2. Apart(run, out, tracked) /\ tracked \in SUBSET Names /\ run \in Runs
                        BY <1>2, <6>1 DEF Tells, Tracking
                    <6>3. clause.value.kind # "call" \/ References(clause.value) \cap tracked = {}
                        BY <3>2 DEF HasEffect
                    <6>4. PICK out2 : Untouched(r.run, out2, run, out, tracked)
                        BY <1>1, <6>2, <6>3, EvaluatedAside
                    <6>5. Tells(s, x, out2)
                        BY <5>2, <5>3, <6>1, <6>4, UntouchedTells
                    <6>6. QED  BY <5>3, <6>5 DEF Follows
                <5>6. QED  BY <5>4, <5>5
            <4>3. QED  BY <4>1, <4>2 DEF Covers
        <3>3. QED  BY <3>1, <3>2
    <2>5. QED  BY <2>3, <2>4
<1>4. CASE clause.test # "call"
    <2>1. clause.value.kind = "other"
        BY <1>4 DEF FitClause, IsClause
    <2>2. Tested(rs, clause) = rs /\ ReachClause(ss, clause) = ss
        BY <1>4, <2>1 DEF Tested, ReachClause, HasEffect
    <2>3. QED  BY <2>2
<1>5. QED  BY <1>3, <1>4

\* A clause after which a state is as good as before it.
IsStill(clause) ==
    /\ ~(clause.test # "else" /\ HasEffect(clause.value))
    /\ \A st \in Range(clause.body) : ~MayChangeSimple(st)

\* The states between two clauses cover the runs that have taken one, and those that have not.
Split(r, x) == ~r.completed.failed => Covers(r.completed.states, x.done) /\ Covers(r.remaining, x.left)
Kept(r, x) == ~r.completed.failed => Covers(r.completed.states \cup r.remaining, x.raised)

LEMMA ClauseRunsTyped ==
    ASSUME Tracking, NEW q, NEW x \in Splits(q), NEW clause, FitClause(clause, q)
    PROVE  ClauseRuns(x, clause) \in Splits(q)
<1> DEFINE tested == Tested(x.left, clause)  suite == SimpleSuiteEnds(tested, clause.body)
<1>1. x.done \in SUBSET QuietRuns(q) /\ x.left \in SUBSET QuietRuns(q) /\ x.raised \in SUBSET QuietRuns(q)
    BY DEF Splits
<1>2. tested \in SUBSET QuietRuns(q)
    BY <1>1, TestedIs
<1> HIDE DEF tested
<1>3. suite \in Ends(q)
    BY <1>2, SimpleSuiteCovered DEF FitClause
<1>4. ClauseRuns(x, clause) = Taken(x, tested, clause, suite)
    BY DEF ClauseRuns, ClauseTaken, tested
<1> HIDE DEF suite
<1>5. suite.done \in SUBSET QuietRuns(q) /\ suite.raised \in SUBSET QuietRuns(q)
    BY <1>3 DEF Ends
<1>6. QED  BY <1>1, <1>2, <1>4, <1>5 DEF Taken, Splits

LEMMA ClauseCovered ==
    ASSUME Tracking, NEW q, NEW x \in Splits(q), NEW clause, FitClause(clause, q), NEW r \in Clausing, Split(r, x)
    PROVE  /\ Split(Clause(r, clause), ClauseRuns(x, clause))
           /\ IsStill(clause) /\ Kept(r, x) => Kept(Clause(r, clause), ClauseRuns(x, clause))
<1> DEFINE tested == Tested(x.left, clause)  suite == SimpleSuiteEnds(tested, clause.body)
           reach == ReachClause(r.remaining, clause)  result == SimpleSuite(reach, clause.body)
           next == Clause(r, clause)  after == ClauseRuns(x, clause)
<1>1. x.left \in SUBSET QuietRuns(q) /\ r.remaining \in SUBSET States /\ r.completed \in Results
    BY DEF Splits, Clausing
<1>2. /\ tested \in SUBSET QuietRuns(q) /\ reach \in SUBSET States
      /\ Covers(r.remaining, x.left) => Covers(reach, tested)
    BY <1>1, TestedIs, ReachClauseTyped
<1>3. after = Taken(x, tested, clause, suite)
    BY DEF ClauseRuns, ClauseTaken
<1>4. next = [completed |-> IF clause.test = "false" THEN r.completed ELSE Join(r.completed, result),
              remaining |-> IF clause.test \in {"true", "else"} THEN {} ELSE reach]
    BY DEF Clause, ClauseOf
<1>5. IsSimpleSuite(clause.body)
    BY DEF FitClause, FitSimples, Fit, IsSimpleSuite
<1>6. IsStill(clause) => reach = r.remaining
    BY DEF IsStill, ReachClause
<1> HIDE DEF tested, reach
<1>7. result \in Results
    BY <1>2, <1>5, SimpleSuiteTyped
<1>8. /\ Covers(reach, tested) /\ ~result.failed => Covers(result.states, suite.done)
      /\ IsStill(clause) =>
            /\ Covers(reach, tested) /\ ~result.failed => Covers(result.states, suite.raised)
            /\ \A others : Covers(reach, others) /\ ~result.failed => Covers(result.states, others)
    BY <1>2, SimpleSuiteCovered DEF FitClause, IsStill
<1> HIDE DEF result, suite, next, after
<1>9. /\ after.done = IF clause.test = "false" THEN x.done ELSE x.done \cup suite.done
      /\ after.left = IF clause.test \in {"true", "else"} THEN {} ELSE tested
      /\ after.raised = x.raised \cup tested \cup (IF clause.test = "false" THEN {} ELSE suite.raised)
    BY <1>3 DEF Taken
<1>10. /\ next.completed = IF clause.test = "false" THEN r.completed ELSE Join(r.completed, result)
       /\ next.remaining = IF clause.test \in {"true", "else"} THEN {} ELSE reach
    BY <1>4
<1>11. SUFFICES ASSUME ~next.completed.failed
                PROVE  /\ Covers(next.completed.states, after.done) /\ Covers(next.remaining, after.left)
                       /\ IsStill(clause) /\ Kept(r, x) =>
                             Covers(next.completed.states \cup next.remaining, after.raised)
    BY DEF Split, Kept, next, after
<1> DEFINE before == r.completed.states  now == next.completed.states
<1>12. /\ ~r.completed.failed
       /\ clause.test = "false" => now = before
       /\ clause.test # "false" => ~result.failed /\ now = before \cup result.states
    BY <1>1, <1>7, <1>10, <1>11, JoinIs
<1>13. Covers(before, x.done) /\ Covers(reach, tested)
    BY <1>2, <1>12 DEF Split
<1> HIDE DEF before, now
<1>14. Covers(now, after.done)
    BY <1>8, <1>9, <1>12, <1>13 DEF Covers
<1>15. Covers(next.remaining, after.left)
    BY <1>9, <1>10, <1>13 DEF Covers
<1>16. ASSUME IsStill(clause), Kept(r, x)
       PROVE  Covers(now \cup next.remaining, after.raised)
    <2>1. Covers(before \cup reach, x.raised)
        BY <1>6, <1>12, <1>16 DEF Kept, before
    <2>2. CASE clause.test = "false"
        BY <1>9, <1>10, <1>12, <1>13, <2>1, <2>2 DEF Covers
    <2>3. CASE clause.test # "false"
        <3>1. Covers(result.states, suite.raised) /\ \A others : Covers(reach, others) => Covers(result.states, others)
            BY <1>8, <1>12, <1>13, <1>16, <2>3
        <3> DEFINE others == {run \in x.raised : \E s \in reach : Follows(s, run)}
        <3>2. Covers(reach, others)
            BY DEF Covers
        <3>3. Covers(result.states, others) /\ Covers(result.states, tested)
            <4> HIDE DEF others
            <4>1. QED  BY <1>13, <3>1, <3>2
        <3>4. Covers(before \cup result.states, x.raised)
            BY <2>1, <3>3 DEF Covers
        <3>5. QED  BY <1>9, <1>12, <2>3, <3>1, <3>3, <3>4 DEF Covers
    <2>4. QED  BY <2>2, <2>3
<1>17. QED  BY <1>14, <1>15, <1>16 DEF now

\* The ends of an if after each of its clauses.
AreIfEnds(g, rs, st, q) ==
    /\ g \in [0 .. Len(st.clauses) -> Splits(q)] /\ g[0] = [done |-> {}, left |-> rs, raised |-> rs]
    /\ \A i \in 1 .. Len(st.clauses) : g[i] = ClauseRuns(g[i - 1], st.clauses[i])
    /\ g[Len(st.clauses)] = IfEnds(rs, st)

LEMMA IfEndsSteps ==
    ASSUME Tracking, NEW q, NEW rs \in SUBSET QuietRuns(q), NEW st, FitClauses(st.clauses, q)
    PROVE  \E h : AreIfEnds(h, rs, st, q)
<1> DEFINE n == Len(st.clauses)
           Step(t, i) == ClauseRuns(t, st.clauses[i])
           F == [p \in Splits(q) \X (1 .. n) |-> Step(p[1], p[2])]
           Is(it) == it = [set \in SUBSET DOMAIN st.clauses |->
                             IF set = {} THEN [done |-> {}, left |-> rs, raised |-> rs] ELSE Step(it[set \ {Max(set)}], Max(set))]
           it == CHOOSE it : Is(it)
<1>1. n \in Nat /\ DOMAIN st.clauses = 1 .. n
    BY MemberOf DEF FitClauses
<1>2. [done |-> {}, left |-> rs, raised |-> rs] \in Splits(q) /\ \A t \in Splits(q), i \in 1 .. n : Step(t, i) \in Splits(q)
    <2>1. \A i \in 1 .. n : FitClause(st.clauses[i], q)
        BY <1>1, MemberOf DEF FitClauses
    <2>2. [done |-> {}, left |-> rs, raised |-> rs] \in Splits(q)
        BY DEF Splits
    <2>3. QED  BY <2>1, <2>2, ClauseRunsTyped
<1>3. it[DOMAIN st.clauses] = IfEnds(rs, st)
    BY DEF IfEnds, FoldLeft, MapThenFoldSet
<1> HIDE DEF Step, n
<1>4. IsStep(F, Splits(q), n)
    BY <1>2 DEF IsStep
<1>5. PICK g : IsFold(g, F, Splits(q), [done |-> {}, left |-> rs, raised |-> rs], n)
    BY <1>1, <1>2, <1>4, FoldExists
<1>6. ASSUME NEW set \in (SUBSET (1 .. n)) \ {{}}, NEW f, f[set \ {Max(set)}] \in Splits(q)
      PROVE  F[<<f[set \ {Max(set)}], Max(set)>>] = Step(f[set \ {Max(set)}], Max(set))
    <2>1. Max(set) \in 1 .. n
        BY <1>1, MaxOfTo
    <2>2. QED  BY <1>6, <2>1
<1>7. Is(g)
    <2>1. \A set \in (SUBSET (1 .. n)) \ {{}} : g[set \ {Max(set)}] \in Splits(q)
        BY <1>5 DEF IsFold
    <2>2. \A set \in (SUBSET (1 .. n)) \ {{}} : g[set] = Step(g[set \ {Max(set)}], Max(set))
        BY <1>5, <1>6, <2>1 DEF IsFold
    <2> HIDE DEF F
    <2>3. QED  BY <1>1, <1>5, <2>2 DEF IsFold
<1>8. Is(it)
    <2> HIDE DEF Is
    <2>1. QED  BY <1>7
<1>9. Folds(it, F, Splits(q), [done |-> {}, left |-> rs, raised |-> rs], n)
    <2> HIDE DEF F, it
    <2>1. it[{}] = [done |-> {}, left |-> rs, raised |-> rs]
        BY <1>8
    <2>2. \A set \in (SUBSET (1 .. n)) \ {{}} : it[set] = Step(it[set \ {Max(set)}], Max(set))
        BY <1>1, <1>8
    <2>3. QED  BY <1>6, <2>1, <2>2 DEF Folds
<1> HIDE DEF it, Is
<1>10. PICK h : IsPrefixes(h, F, Splits(q), [done |-> {}, left |-> rs, raised |-> rs], n) /\ h[n] = it[1 .. n]
    <2> HIDE DEF F
    <2>1. QED  BY <1>1, <1>2, <1>4, <1>9, FoldSteps
<1>11. ASSUME NEW i \in 1 .. n PROVE h[i] = Step(h[i - 1], i)
    <2>1. i - 1 \in 0 .. n
        BY <1>1
    <2>2. h[i - 1] \in Splits(q)
        BY <1>10, <2>1 DEF IsPrefixes
    <2>3. h[i] = F[<<h[i - 1], i>>]
        BY <1>10 DEF IsPrefixes
    <2>4. QED  BY <2>2, <2>3
<1>12. QED  BY <1>1, <1>3, <1>10, <1>11 DEF IsPrefixes, Step, n, AreIfEnds

LEMMA IfCovered ==
    ASSUME Tracking, NEW q, NEW rs \in SUBSET QuietRuns(q), NEW st, FitClauses(st.clauses, q),
           NEW ss \in SUBSET States
    PROVE  LET end == IfEnds(rs, st)
               result == If(ss, st)
           IN  /\ end \in Splits(q)
               /\ Covers(ss, rs) /\ ~result.failed => Covers(result.states, end.done \cup end.left)
               /\ Covers(ss, rs) /\ ~result.failed /\ (\A clause \in Range(st.clauses) : IsStill(clause)) =>
                     Covers(result.states, end.raised)
<1> DEFINE n == Len(st.clauses)
<1>1. n \in Nat /\ \A i \in 1 .. n : FitClause(st.clauses[i], q) /\ st.clauses[i] \in Range(st.clauses)
    BY MemberOf DEF FitClauses
<1>2. IsClauses(st.clauses)
    BY DEF FitClauses, FitClause, IsClauses
<1>3. \E h : /\ h \in [0 .. n -> Clausing] /\ h[0] = [completed |-> Sound({}), remaining |-> ss]
             /\ \A i \in 1 .. n : h[i] = Clause(h[i - 1], st.clauses[i])
             /\ h[n] = Clauses(ss, st.clauses)
    BY <1>2, ClausesSteps
<1>4. \E g : AreIfEnds(g, rs, st, q)
    BY IfEndsSteps
<1>5. PICK h : /\ h \in [0 .. n -> Clausing] /\ h[0] = [completed |-> Sound({}), remaining |-> ss]
               /\ \A i \in 1 .. n : h[i] = Clause(h[i - 1], st.clauses[i])
               /\ h[n] = Clauses(ss, st.clauses)
    BY <1>3
<1>6. PICK g : AreIfEnds(g, rs, st, q)
    BY <1>4
<1>20. /\ g \in [0 .. n -> Splits(q)] /\ g[0] = [done |-> {}, left |-> rs, raised |-> rs]
       /\ \A i \in 1 .. n : g[i] = ClauseRuns(g[i - 1], st.clauses[i])
       /\ g[n] = IfEnds(rs, st)
    BY <1>6 DEF AreIfEnds
<1> HIDE DEF n
<1>7. \A i \in 1 .. n : i - 1 \in 0 .. n /\ h[i - 1] \in Clausing /\ g[i - 1] \in Splits(q)
    BY <1>1, <1>5, <1>20
<1>8. Covers({}, {})
    BY DEF Covers
<1>9. Covers(ss, rs) => Split(h[0], g[0]) /\ Kept(h[0], g[0])
    <2>1. Sound({}).states = {}
        BY ResultIs
    <2>2. {} \cup ss = ss
        OBVIOUS
    <2>3. h[0].completed.states = {} /\ h[0].remaining = ss /\ g[0].done = {} /\ g[0].left = rs /\ g[0].raised = rs
        BY <1>5, <1>20, <2>1
    <2>4. QED  BY <1>8, <2>2, <2>3 DEF Split, Kept
<1>10. ASSUME Covers(ss, rs)
       PROVE  Split(h[n], g[n])
    <2> DEFINE good == {i \in 0 .. n : Split(h[i], g[i])}
    <2>1. 0 \in good
        BY <1>1, <1>9, <1>10
    <2>2. ASSUME NEW i \in 1 .. n, i - 1 \in good PROVE i \in good
        <3>1. Split(Clause(h[i - 1], st.clauses[i]), ClauseRuns(g[i - 1], st.clauses[i]))
            BY <1>1, <1>7, <2>2, ClauseCovered
        <3>2. QED  BY <1>1, <1>5, <1>20, <3>1
    <2> HIDE DEF good
    <2>3. 0 .. n \subseteq good
        BY <1>1, <2>1, <2>2, Steps
    <2>4. n \in 0 .. n
        BY <1>1
    <2>5. QED  BY <2>3, <2>4 DEF good
<1>11. ASSUME Covers(ss, rs), \A clause \in Range(st.clauses) : IsStill(clause)
       PROVE  Kept(h[n], g[n])
    <2> DEFINE good == {i \in 0 .. n : Split(h[i], g[i]) /\ Kept(h[i], g[i])}
    <2>1. 0 \in good
        BY <1>1, <1>9, <1>11
    <2>2. ASSUME NEW i \in 1 .. n, i - 1 \in good PROVE i \in good
        <3>1. /\ Split(Clause(h[i - 1], st.clauses[i]), ClauseRuns(g[i - 1], st.clauses[i]))
              /\ Kept(Clause(h[i - 1], st.clauses[i]), ClauseRuns(g[i - 1], st.clauses[i]))
            BY <1>1, <1>7, <1>11, <2>2, ClauseCovered
        <3>2. QED  BY <1>1, <1>5, <1>20, <3>1
    <2> HIDE DEF good
    <2>3. 0 .. n \subseteq good
        BY <1>1, <2>1, <2>2, Steps
    <2>4. n \in 0 .. n
        BY <1>1
    <2>5. QED  BY <2>3, <2>4 DEF good
<1> DEFINE last == Clauses(ss, st.clauses)  end == IfEnds(rs, st)  all == last.completed.states \cup last.remaining
<1>12. last = h[n] /\ end = g[n] /\ last \in Clausing /\ end \in Splits(q)
    <2>1. n \in 0 .. n
        BY <1>1
    <2>2. QED  BY <1>5, <1>20, <2>1
<1>13. If(ss, st) = IF last.completed.failed THEN Error ELSE Bounded(all)
    BY DEF If, EndOfClauses, Then
<1>14. all \in SUBSET States
    BY <1>12 DEF Clausing, Results
<1> HIDE DEF last, end
<1>15. ~If(ss, st).failed => ~last.completed.failed /\ If(ss, st).states = all
    <2> HIDE DEF all
    <2>1. QED  BY <1>13, <1>14, ResultIs
<1>16. Split(last, end) /\ ~last.completed.failed => Covers(all, end.done \cup end.left)
    BY DEF Split, Covers
<1>17. Kept(last, end) /\ ~last.completed.failed => Covers(all, end.raised)
    BY DEF Kept
<1> HIDE DEF all
<1>18. QED  BY <1>10, <1>11, <1>12, <1>15, <1>16, <1>17 DEF end

FitFlat(st, q) == IF st.op = "if" THEN FitClauses(st.clauses, q) ELSE Fit(st, q)
FitSuite(suite, q) == suite \in Seq(Range(suite)) /\ \A st \in Range(suite) : FitFlat(st, q)

LEMMA FitIs ==
    /\ \A st, q : FitFlat(st, q) => IsFlat(st)
    /\ \A suite, q : FitSuite(suite, q) => IsSuite(suite)
<1>1. ASSUME NEW st, NEW q, FitFlat(st, q) PROVE IsFlat(st)
    <2>1. CASE st.op = "if"
        BY <1>1, <2>1 DEF FitFlat, FitClauses, FitClause, IsFlat
    <2>2. CASE st.op # "if"
        BY <1>1, <2>2 DEF FitFlat, Fit, IsFlat
    <2>3. QED  BY <2>1, <2>2
<1>2. QED  BY <1>1 DEF FitSuite, IsSuite

LEMMA FlatEndsTyped ==
    ASSUME Tracking, NEW q, NEW r \in Ends(q), NEW st, FitFlat(st, q)
    PROVE  FlatEnds(r, st) \in Ends(q)
<1>1. r.done \in SUBSET QuietRuns(q) /\ r.raised \in SUBSET QuietRuns(q)
    BY DEF Ends
<1>2. CASE st.op = "if"
    <2> DEFINE end == IfEnds(r.done, st)
    <2>1. FitClauses(st.clauses, q)
        BY <1>2 DEF FitFlat
    <2>2. end \in Splits(q)
        BY <1>1, <2>1, IfCovered
    <2>3. FlatEnds(r, st) = FlatEndsOfIf(r, end)
        BY <1>2 DEF FlatEnds
    <2> HIDE DEF end
    <2>4. QED  BY <1>1, <2>2, <2>3 DEF FlatEndsOfIf, Splits, Ends
<1>3. CASE st.op # "if"
    BY <1>3, SimpleEndsTyped DEF FlatEnds, FitFlat
<1>4. QED  BY <1>2, <1>3

LEMMA FlatCovered ==
    ASSUME Tracking, NEW q, NEW r \in Ends(q), NEW st, FitFlat(st, q),
           NEW ss \in SUBSET States, Covers(ss, r.done), ~Flat(ss, st).failed
    PROVE  /\ Covers(Flat(ss, st).states, FlatEnds(r, st).done)
           /\ \A more : Covers(more, r.raised) /\ ~(st.op = "if" /\ MayChange(st)) =>
                 Covers(more \cup ss \cup Flat(ss, st).states, FlatEnds(r, st).raised)
<1> DEFINE next == Flat(ss, st).states
<1>1. r.done \in SUBSET QuietRuns(q) /\ r.raised \in SUBSET QuietRuns(q)
    BY DEF Ends
<1>2. CASE st.op = "if"
    <2> DEFINE end == IfEnds(r.done, st)
    <2>1. FitClauses(st.clauses, q)
        BY <1>2 DEF FitFlat
    <2>2. Flat(ss, st) = If(ss, st)
        BY <1>2 DEF Flat
    <2>3. /\ Covers(next, end.done \cup end.left)
          /\ (\A clause \in Range(st.clauses) : IsStill(clause)) => Covers(next, end.raised)
        BY <1>1, <2>1, <2>2, IfCovered
    <2>4. FlatEnds(r, st) = FlatEndsOfIf(r, end)
        BY <1>2 DEF FlatEnds
    <2>5. ~MayChange(st) => \A clause \in Range(st.clauses) : IsStill(clause)
        BY <1>2 DEF MayChange, IsStill
    <2> HIDE DEF end, next
    <2>6. FlatEnds(r, st).done = end.done \cup end.left /\ FlatEnds(r, st).raised = r.raised \cup end.raised
        BY <2>4 DEF FlatEndsOfIf
    <2>7. ASSUME NEW more, Covers(more, r.raised), ~MayChange(st)
          PROVE  Covers(more \cup ss \cup next, r.raised \cup end.raised)
        BY <2>3, <2>5, <2>7 DEF Covers
    <2>8. QED  BY <1>2, <2>3, <2>6, <2>7 DEF next
<1>3. CASE st.op # "if"
    <2>1. Fit(st, q) /\ FlatEnds(r, st) = SimpleEnds(r, st)
        BY <1>3 DEF FitFlat, FlatEnds
    <2>2. Flat(ss, st) = Bounded(AllSimple(ss, st))
        BY <1>3 DEF Flat, AllSimple
    <2>3. AllSimple(ss, st) \in SUBSET States
        BY <2>1, SimpleTyped DEF AllSimple, Fit
    <2> DEFINE all == AllSimple(ss, st)
    <2>4. Flat(ss, st).states = all
        <3>1. all \in SUBSET States /\ Flat(ss, st) = Bounded(all)
            BY <2>2, <2>3
        <3> HIDE DEF all
        <3>2. QED  BY <3>1, ResultIs
    <2>5. /\ FlatEnds(r, st).done = SimpleRuns(r.done, st)
          /\ FlatEnds(r, st).raised = r.raised \cup AllRaised(r.done, st)
        BY <2>1, SimpleEndsTyped
    <2>6. Covers(all, SimpleRuns(r.done, st)) /\ Covers(ss \cup all, AllRaised(r.done, st))
        <3> DEFINE done == r.done
        <3>1. done \in SUBSET QuietRuns(q) /\ Covers(ss, done)
            BY <1>1
        <3> HIDE DEF done
        <3>2. Covers(AllSimple(ss, st), SimpleRuns(done, st)) /\ Covers(ss \cup AllSimple(ss, st), AllRaised(done, st))
            BY <2>1, <3>1, SimpleRunsCovered
        <3>3. QED  BY <3>2 DEF done
    <2> HIDE DEF all, next
    <2>7. ASSUME NEW more, Covers(more, r.raised)
          PROVE  Covers(more \cup ss \cup all, r.raised \cup AllRaised(r.done, st))
        BY <2>6, <2>7 DEF Covers
    <2>8. QED  BY <2>4, <2>5, <2>6, <2>7
<1>4. QED  BY <1>2, <1>3

\* The ends of a suite after each of its statements.
AreFlatEnds(g, rs, suite, q) ==
    /\ g \in [0 .. Len(suite) -> Ends(q)] /\ g[0] = [done |-> rs, raised |-> {}]
    /\ \A i \in 1 .. Len(suite) : g[i] = FlatEnds(g[i - 1], suite[i])
    /\ g[Len(suite)] = FlatSuiteEnds(rs, suite)

LEMMA FlatSuiteEndsSteps ==
    ASSUME Tracking, NEW q, NEW rs \in SUBSET QuietRuns(q), NEW suite, FitSuite(suite, q)
    PROVE  \E h : AreFlatEnds(h, rs, suite, q)
<1> DEFINE n == Len(suite)
           Step(t, i) == FlatEnds(t, suite[i])
           F == [p \in Ends(q) \X (1 .. n) |-> Step(p[1], p[2])]
           Is(it) == it = [set \in SUBSET DOMAIN suite |->
                             IF set = {} THEN [done |-> rs, raised |-> {}] ELSE Step(it[set \ {Max(set)}], Max(set))]
           it == CHOOSE it : Is(it)
<1>1. n \in Nat /\ DOMAIN suite = 1 .. n
    BY MemberOf DEF FitSuite
<1>2. [done |-> rs, raised |-> {}] \in Ends(q) /\ \A t \in Ends(q), i \in 1 .. n : Step(t, i) \in Ends(q)
    <2>1. \A i \in 1 .. n : FitFlat(suite[i], q)
        BY <1>1, MemberOf DEF FitSuite
    <2>2. [done |-> rs, raised |-> {}] \in Ends(q)
        BY DEF Ends
    <2>3. QED  BY <2>1, <2>2, FlatEndsTyped
<1>3. it[DOMAIN suite] = FlatSuiteEnds(rs, suite)
    BY DEF FlatSuiteEnds, FoldLeft, MapThenFoldSet
<1> HIDE DEF Step, n
<1>4. IsStep(F, Ends(q), n)
    BY <1>2 DEF IsStep
<1>5. PICK g : IsFold(g, F, Ends(q), [done |-> rs, raised |-> {}], n)
    BY <1>1, <1>2, <1>4, FoldExists
<1>6. ASSUME NEW set \in (SUBSET (1 .. n)) \ {{}}, NEW f, f[set \ {Max(set)}] \in Ends(q)
      PROVE  F[<<f[set \ {Max(set)}], Max(set)>>] = Step(f[set \ {Max(set)}], Max(set))
    <2>1. Max(set) \in 1 .. n
        BY <1>1, MaxOfTo
    <2>2. QED  BY <1>6, <2>1
<1>7. Is(g)
    <2>1. \A set \in (SUBSET (1 .. n)) \ {{}} : g[set \ {Max(set)}] \in Ends(q)
        BY <1>5 DEF IsFold
    <2>2. \A set \in (SUBSET (1 .. n)) \ {{}} : g[set] = Step(g[set \ {Max(set)}], Max(set))
        BY <1>5, <1>6, <2>1 DEF IsFold
    <2> HIDE DEF F
    <2>3. QED  BY <1>1, <1>5, <2>2 DEF IsFold
<1>8. Is(it)
    <2> HIDE DEF Is
    <2>1. QED  BY <1>7
<1>9. Folds(it, F, Ends(q), [done |-> rs, raised |-> {}], n)
    <2> HIDE DEF F, it
    <2>1. it[{}] = [done |-> rs, raised |-> {}]
        BY <1>8
    <2>2. \A set \in (SUBSET (1 .. n)) \ {{}} : it[set] = Step(it[set \ {Max(set)}], Max(set))
        BY <1>1, <1>8
    <2>3. QED  BY <1>6, <2>1, <2>2 DEF Folds
<1> HIDE DEF it, Is
<1>10. PICK h : IsPrefixes(h, F, Ends(q), [done |-> rs, raised |-> {}], n) /\ h[n] = it[1 .. n]
    <2> HIDE DEF F
    <2>1. QED  BY <1>1, <1>2, <1>4, <1>9, FoldSteps
<1>11. ASSUME NEW i \in 1 .. n PROVE h[i] = Step(h[i - 1], i)
    <2>1. i - 1 \in 0 .. n
        BY <1>1
    <2>2. h[i - 1] \in Ends(q)
        BY <1>10, <2>1 DEF IsPrefixes
    <2>3. h[i] = F[<<h[i - 1], i>>]
        BY <1>10 DEF IsPrefixes
    <2>4. QED  BY <2>2, <2>3
<1>12. QED  BY <1>1, <1>3, <1>10, <1>11 DEF IsPrefixes, Step, n, AreFlatEnds

LEMMA FlatSuiteCovered ==
    ASSUME Tracking, NEW q, NEW rs \in SUBSET QuietRuns(q), NEW suite, FitSuite(suite, q),
           NEW ss \in SUBSET States
    PROVE  LET end == FlatSuiteEnds(rs, suite)
               result == FlatSuite(ss, suite)
           IN  /\ end \in Ends(q)
               /\ Covers(ss, rs) /\ ~result.failed => Covers(result.states, end.done)
<1> DEFINE n == Len(suite)
<1>1. n \in Nat /\ \A i \in 1 .. n : FitFlat(suite[i], q) /\ IsFlat(suite[i])
    BY MemberOf, FitIs DEF FitSuite
<1>2. IsSuite(suite)
    BY FitIs
<1>3. \E h : /\ h \in [0 .. n -> Results] /\ h[0] = Sound(ss)
             /\ \A i \in 1 .. n : h[i] = FlatStep(h[i - 1], suite[i])
             /\ h[n] = FlatSuite(ss, suite)
    BY <1>2, FlatSuiteSteps
<1>4. \E g : AreFlatEnds(g, rs, suite, q)
    BY FlatSuiteEndsSteps
<1>5. PICK h : /\ h \in [0 .. n -> Results] /\ h[0] = Sound(ss)
               /\ \A i \in 1 .. n : h[i] = FlatStep(h[i - 1], suite[i])
               /\ h[n] = FlatSuite(ss, suite)
    BY <1>3
<1>6. PICK g : AreFlatEnds(g, rs, suite, q)
    BY <1>4
<1>7. /\ g \in [0 .. n -> Ends(q)] /\ g[0] = [done |-> rs, raised |-> {}]
      /\ \A i \in 1 .. n : g[i] = FlatEnds(g[i - 1], suite[i])
      /\ g[n] = FlatSuiteEnds(rs, suite)
    BY <1>6 DEF AreFlatEnds
<1> HIDE DEF n
<1>8. g[0].done = rs /\ ~h[0].failed /\ h[0].states = ss /\ g[n] \in Ends(q)
    BY <1>1, <1>5, <1>7, ResultIs
<1>9. ASSUME Covers(ss, rs)
      PROVE  ~h[n].failed => Covers(h[n].states, g[n].done)
    <2> DEFINE good == {i \in 0 .. n : ~h[i].failed => Covers(h[i].states, g[i].done)}
    <2>1. 0 \in good
        BY <1>1, <1>8, <1>9
    <2>2. ASSUME NEW i \in 1 .. n, i - 1 \in good PROVE i \in good
        <3>1. i \in 0 .. n /\ i - 1 \in 0 .. n
            BY <1>1
        <3>2. SUFFICES ASSUME ~h[i].failed PROVE Covers(h[i].states, g[i].done)
            BY <3>1
        <3> DEFINE st == suite[i]  r == g[i - 1]  now == h[i - 1]
        <3>3. now \in Results /\ r \in Ends(q) /\ FitFlat(st, q) /\ IsFlat(st)
            BY <1>1, <1>5, <1>7, <3>1
        <3>4. h[i] = FlatStep(now, st) /\ g[i] = FlatEnds(r, st)
            BY <1>5, <1>7
        <3>5. ~now.failed => Covers(now.states, r.done)
            BY <2>2
        <3> HIDE DEF st, r, now
        <3>6. ~now.failed /\ h[i] = Flat(now.states, st)
            BY <3>2, <3>3, <3>4, FlatStepIs
        <3> DEFINE before == now.states
        <3>7. before \in SUBSET States /\ Covers(before, r.done) /\ h[i] = Flat(before, st)
            BY <3>3, <3>5, <3>6 DEF Results
        <3> HIDE DEF before
        <3>8. ~Flat(before, st).failed
            BY <3>2, <3>7
        <3>9. Covers(Flat(before, st).states, FlatEnds(r, st).done)
            BY <3>3, <3>7, <3>8, FlatCovered
        <3>10. QED  BY <3>4, <3>7, <3>9
    <2> HIDE DEF good
    <2>3. 0 .. n \subseteq good
        BY <1>1, <2>1, <2>2, Steps
    <2>4. n \in 0 .. n
        BY <1>1
    <2>5. QED  BY <2>3, <2>4 DEF good
<1>10. QED  BY <1>5, <1>7, <1>8, <1>9

\* The body of a try: the states of its end, and those a handler may see.
LEMMA TryBodyCovered ==
    ASSUME Tracking, NEW q, NEW run \in QuietRuns(q), NEW suite, FitSuite(suite, q),
           NEW s \in States, Follows(s, run)
    PROVE  LET end == FlatSuiteEnds({run}, suite)
               result == TryBody(s, suite)
           IN  ~result.normal.failed /\ ~result.exceptional.failed =>
                  Covers(result.normal.states, end.done) /\ Covers(result.exceptional.states, end.raised)
<1> DEFINE n == Len(suite)  rs == {run}
<1>1. n \in Nat /\ \A i \in 1 .. n : FitFlat(suite[i], q) /\ IsFlat(suite[i])
    BY MemberOf, FitIs DEF FitSuite
<1>2. IsSuite(suite) /\ rs \in SUBSET QuietRuns(q)
    BY FitIs
<1>3. \E h : /\ h \in [0 .. n -> Bodies] /\ h[0] = [normal |-> Sound({s}), exceptional |-> Sound({s})]
             /\ \A i \in 1 .. n : h[i] = BodyStep(h[i - 1], suite[i])
             /\ h[n] = TryBody(s, suite)
    BY <1>2, TryBodySteps
<1> HIDE DEF rs
<1>4. \E g : AreFlatEnds(g, rs, suite, q)
    BY <1>2, FlatSuiteEndsSteps
<1>5. PICK h : /\ h \in [0 .. n -> Bodies] /\ h[0] = [normal |-> Sound({s}), exceptional |-> Sound({s})]
               /\ \A i \in 1 .. n : h[i] = BodyStep(h[i - 1], suite[i])
               /\ h[n] = TryBody(s, suite)
    BY <1>3
<1>6. PICK g : AreFlatEnds(g, rs, suite, q)
    BY <1>4
<1>7. /\ g \in [0 .. n -> Ends(q)] /\ g[0] = [done |-> rs, raised |-> {}]
      /\ \A i \in 1 .. n : g[i] = FlatEnds(g[i - 1], suite[i])
      /\ g[n] = FlatSuiteEnds(rs, suite)
    BY <1>6 DEF AreFlatEnds
<1> HIDE DEF n
<1>8. /\ g[0].done = rs /\ g[0].raised = {}
      /\ h[0].normal.states = {s} /\ h[0].exceptional.states = {s}
    BY <1>1, <1>5, <1>7, ResultIs
<1> DEFINE Ok(i) == ~h[i].normal.failed /\ ~h[i].exceptional.failed =>
                       /\ Covers(h[i].normal.states, g[i].done)
                       /\ Covers(h[i].exceptional.states, g[i].raised)
           good == {i \in 0 .. n : Ok(i)}
<1>9. 0 \in good
    BY <1>1, <1>8 DEF Covers, rs
<1>10. ASSUME NEW i \in 1 .. n, i - 1 \in good PROVE i \in good
    <2>1. i \in 0 .. n /\ i - 1 \in 0 .. n
        BY <1>1
    <2>2. SUFFICES ASSUME ~h[i].normal.failed, ~h[i].exceptional.failed
                   PROVE  Covers(h[i].normal.states, g[i].done) /\ Covers(h[i].exceptional.states, g[i].raised)
        BY <2>1
    <2> DEFINE st == suite[i]  r == g[i - 1]  now == h[i - 1]
    <2>3. now \in Bodies /\ r \in Ends(q) /\ FitFlat(st, q) /\ IsFlat(st)
        BY <1>1, <1>5, <1>7, <2>1
    <2>4. h[i] = BodyStep(now, st) /\ g[i] = FlatEnds(r, st)
        BY <1>5, <1>7
    <2>5. ~now.normal.failed /\ ~now.exceptional.failed =>
             Covers(now.normal.states, r.done) /\ Covers(now.exceptional.states, r.raised)
        BY <1>10
    <2> HIDE DEF st, r, now
    <2> DEFINE before == now.normal.states  seen == now.exceptional.states  after == h[i].normal
    <2>6. /\ ~now.normal.failed /\ ~now.exceptional.failed /\ ~(st.op = "if" /\ MayChange(st))
          /\ after = Flat(before, st) /\ h[i].exceptional.states = seen \cup before \cup after.states
        BY <2>2, <2>3, <2>4, BodyStepIs
    <2>7. Covers(before, r.done) /\ Covers(seen, r.raised) /\ before \in SUBSET States /\ ~after.failed
        BY <2>2, <2>3, <2>5, <2>6 DEF Bodies, Results
    <2> HIDE DEF before, seen, after
    <2>8. /\ Covers(Flat(before, st).states, FlatEnds(r, st).done)
          /\ Covers(seen \cup before \cup Flat(before, st).states, FlatEnds(r, st).raised)
        BY <2>3, <2>6, <2>7, FlatCovered
    <2>9. QED  BY <2>4, <2>6, <2>8 DEF after
<1> HIDE DEF good
<1>11. 0 .. n \subseteq good
    BY <1>1, <1>9, <1>10, Steps
<1>12. n \in 0 .. n
    BY <1>1
<1>13. Ok(n)
    BY <1>11, <1>12 DEF good
<1>14. QED  BY <1>5, <1>7, <1>13 DEF rs

FitHandler(h, q) == IsHandler(h) /\ FitSuite(h.body, q) /\ (q => All \notin Range(h.names))
FitTry(st, q) ==
    /\ FitSuite(st.body, q) /\ FitSuite(st.orelse, q) /\ FitSuite(st.finalbody, q)
    /\ st.handlers \in Seq(Range(st.handlers)) /\ \A h \in Range(st.handlers) : FitHandler(h, q)

LEMMA AtMostOne ==
    ASSUME NEW S, NEW seq \in Seq(S), Len(seq) <= 1
    PROVE  \A m, n \in Range(seq) : m = n
<1>1. \A i \in 1 .. Len(seq) : i = 1
    OBVIOUS
<1>2. \A m \in Range(seq) : \E i \in 1 .. Len(seq) : m = seq[i]
    BY RangeIs
<1>3. \A m \in Range(seq) : m = seq[1]
    BY <1>1, <1>2
<1>4. QED  BY <1>3

\* The exception is bound to the name of a handler.
LEMMA StartFollows ==
    ASSUME Tracking, NEW q, NEW run \in QuietRuns(q), NEW h, FitHandler(h, q), NEW x \in HandlerStart(run, h)
    PROVE  /\ x \in QuietRuns(q)
           /\ \A s \in States : Follows(s, run) => Follows(AssignAll(s, h.names, Unresolved), x)
<1>1. run \in Runs /\ h.names \in Seq(Names) /\ Len(h.names) <= 1 /\ (q => All \notin Range(h.names))
    BY DEF QuietRuns, FitHandler, IsHandler
<1> DEFINE names == h.names
<1>2. PICK r \in New(run, Opaque) : x = BindResult(r, names)
    BY DEF HandlerStart, BoundTo
<1>3. Opaque \in Cells /\ Range(Opaque.refs) = {} /\ \A kept : Opaque.effects \cap kept = {}
    BY CellsAre DEF Range
<1>4. x \in Runs
    <2>1. r.run \in Runs /\ r.object \in Objects
        BY <1>1, <1>3, NewIs
    <2>2. QED  BY <1>2, <2>1, BindResultIs
<1>5. ASSUME NEW kept \in SUBSET Names, NEW out, Apart(run, out, kept), Range(names) \cap kept = {}
      PROVE  \E out2 : Untouched(x, out2, run, out, kept)
    BY <1>1, <1>2, <1>3, <1>5, NewBound
<1>6. x \in QuietRuns(q)
    <2>1. \A out : Apart(run, out, {All}) /\ q => \E out2 : Untouched(x, out2, run, out, {All})
        BY <1>1, <1>5, AllNamed
    <2>2. QED  BY <1>4, <2>1, QuietIs
<1>7. ASSUME NEW s \in States, Follows(s, run)
      PROVE  Follows(AssignAll(s, names, Unresolved), x)
    <2> DEFINE t == AssignAll(s, names, Unresolved)  bound == Range(names) \cap tracked
    <2>1. Assigned(t, s, bound, Unresolved)
        BY <1>1, AssignAllIs
    <2>2. CASE s.dynamic
        BY <2>1, <2>2 DEF Assigned, Follows
    <2>3. CASE ~s.dynamic
        <3>1. PICK out : Tells(s, run, out)
            BY <1>7, <2>3 DEF Follows
        <3>2. CASE bound = {}
            <4>1. Apart(run, out, tracked) /\ tracked \in SUBSET Names
                BY <3>1 DEF Tells, Tracking
            <4>2. PICK out2 : Untouched(x, out2, run, out, tracked)
                BY <1>5, <3>2, <4>1
            <4>3. Tells(s, x, out2)
                BY <3>1, <4>2, UntouchedTells
            <4>4. Follows(s, x)
                BY <4>3 DEF Follows
            <4>5. Follows(t, x)
                <5> HIDE DEF t
                <5>1. Weaker(t, s) /\ (s.dynamic => t.dynamic)
                    BY <2>1, AssignedWeaker
                <5>2. QED  BY <4>4, <5>1, WeakerFollows
            <4>6. QED  BY <4>5
        <3>3. CASE bound # {}
            <4>1. Range(names) \subseteq tracked
                BY <1>1, <3>3, AtMostOne
            <4> HIDE DEF names
            <4>2. QED  BY <1>1, <1>2, <1>3, <3>1, <4>1, FreshFollows DEF names
        <3>4. QED  BY <3>2, <3>3
    <2>4. QED  BY <2>2, <2>3
<1>8. QED  BY <1>6, <1>7

LEMMA EndFollows ==
    ASSUME Tracking, NEW q, NEW run \in QuietRuns(q), NEW h, FitHandler(h, q)
    PROVE  LET x == Swept(BindAll(run, h.names, Unbound))
           IN  /\ x \in QuietRuns(q)
               /\ \A s \in States : Follows(s, run) => Follows(DeleteAll(s, h.names), x)
<1> DEFINE names == h.names  y == BindAll(run, names, Unbound)
<1>1. run \in Runs /\ names \in Seq(Names) /\ (q => All \notin Range(names))
    BY DEF QuietRuns, FitHandler, IsHandler
<1>2. y \in Runs
    BY <1>1, BindIs
<1>3. ASSUME NEW out, Apart(run, out, {All}), q
      PROVE  Untouched(y, out, run, out, {All})
    <2>1. Range(names) \cap {All} = {} /\ {All} \subseteq Names
        BY <1>1, <1>3, AllNamed
    <2>2. QED  BY <1>1, <1>3, <2>1, BindIs
<1>4. ASSUME NEW s \in States, Follows(s, run)
      PROVE  Follows(DeleteAll(s, names), y) /\ DeleteAll(s, names) \in States
    BY <1>1, <1>4, DeleteFollows, DeleteAllIs DEF Deleted
<1> HIDE DEF y
<1>5. y \in QuietRuns(q)
    BY <1>2, <1>3, QuietIs
<1>6. Swept(y) \in QuietRuns(q)
    BY <1>5, SweptQuiet
<1>7. \A s \in States : Follows(s, run) => Follows(DeleteAll(s, names), Swept(y))
    BY <1>2, <1>4, SweptFollows
<1>8. QED  BY <1>6, <1>7 DEF y

Started(rs, h) == UNION {HandlerStart(run, h) : run \in rs}
AllAssigned(ss, h) == {AssignAll(s, h.names, Unresolved) : s \in ss}

LEMMA HandlerCovered ==
    ASSUME Tracking, NEW q, NEW rs \in SUBSET QuietRuns(q), NEW h, FitHandler(h, q),
           NEW ss \in SUBSET States
    PROVE  /\ HandlerRuns(rs, h) \in SUBSET QuietRuns(q)
           /\ Covers(ss, rs) /\ ~Handler(ss, h).failed => Covers(Handler(ss, h).states, HandlerRuns(rs, h))
<1> DEFINE started == Started(rs, h)  assigned == AllAssigned(ss, h)
           end == FlatSuiteEnds(started, h.body)
           inner == FlatSuite(assigned, h.body)
<1>1. started \in SUBSET QuietRuns(q)
    BY StartFollows DEF Started
<1>2. h.names \in Seq(Names) /\ IsHandler(h) /\ FitSuite(h.body, q)
    BY DEF FitHandler, IsHandler
<1>3. assigned \in SUBSET States
    <2>1. ASSUME NEW s \in ss PROVE AssignAll(s, h.names, Unresolved) \in States
        <3>1. Assigned(AssignAll(s, h.names, Unresolved), s, Range(h.names) \cap tracked, Unresolved)
            BY <1>2, AssignAllIs
        <3>2. QED  BY <3>1 DEF Assigned
    <2>2. QED  BY <2>1 DEF AllAssigned
<1>4. Covers(ss, rs) => Covers(assigned, started)
    <2>1. SUFFICES ASSUME Covers(ss, rs), NEW x \in started PROVE \E t \in assigned : Follows(t, x)
        BY DEF Covers
    <2>2. PICK run \in rs : x \in HandlerStart(run, h)
        BY DEF Started
    <2>3. PICK s \in ss : Follows(s, run)
        BY <2>1 DEF Covers
    <2>4. Follows(AssignAll(s, h.names, Unresolved), x)
        BY <2>2, <2>3, StartFollows
    <2>5. QED  BY <2>4 DEF AllAssigned
<1>5. /\ HandlerRuns(rs, h) = {Swept(BindAll(run, h.names, Unbound)) : run \in end.done}
      /\ ~Handler(ss, h).failed => ~inner.failed /\ Handler(ss, h).states = {DeleteAll(s, h.names) : s \in inner.states}
    BY <1>2, HandlerIs DEF HandlerRuns, FlatSuiteRuns, Started, AllAssigned
<1>6. inner \in Results
    <2> HIDE DEF assigned
    <2>1. QED  BY <1>2, <1>3, FitIs, FlatSuiteTyped
<1> HIDE DEF started, assigned
<1>7. end \in Ends(q) /\ (Covers(assigned, started) /\ ~inner.failed => Covers(inner.states, end.done))
    BY <1>1, <1>2, <1>3, FlatSuiteCovered
<1> HIDE DEF end, inner
<1>8. end.done \in SUBSET QuietRuns(q) /\ inner.states \in SUBSET States
    BY <1>6, <1>7 DEF Ends, Results
<1>9. HandlerRuns(rs, h) \in SUBSET QuietRuns(q)
    BY <1>5, <1>8, EndFollows
<1>10. ASSUME Covers(ss, rs), ~Handler(ss, h).failed, NEW run \in end.done
       PROVE  \E t \in Handler(ss, h).states : Follows(t, Swept(BindAll(run, h.names, Unbound)))
    <2>1. PICK s \in inner.states : Follows(s, run)
        BY <1>4, <1>5, <1>7, <1>10 DEF Covers
    <2>2. Follows(DeleteAll(s, h.names), Swept(BindAll(run, h.names, Unbound)))
        BY <1>8, <2>1, EndFollows
    <2>3. DeleteAll(s, h.names) \in Handler(ss, h).states
        BY <1>5, <1>10, <2>1
    <2>4. QED  BY <2>2, <2>3
<1>11. Covers(ss, rs) /\ ~Handler(ss, h).failed => Covers(Handler(ss, h).states, HandlerRuns(rs, h))
    BY <1>5, <1>10 DEF Covers
<1>12. QED  BY <1>9, <1>11

LEMMA FitTryIs ==
    ASSUME NEW q, NEW st, FitTry(st, q)
    PROVE  IsTry(st)
BY FitIs DEF FitTry, FitHandler, IsTry

\* One run of a try, from the state that follows it.
LEMMA EndsOfTryCovered ==
    ASSUME Tracking, NEW q, NEW run \in QuietRuns(q), NEW st, FitTry(st, q)
    PROVE  LET some == EndsOfTry(FlatSuiteEnds({run}, st.body), st)
           IN  /\ some \in SUBSET QuietRuns(q)
               /\ \A s \in States :
                     Follows(s, run) /\ (\A end \in EndsOf(TryBody(s, st.body), st) : ~end.failed) =>
                        Covers(UNION {end.states : end \in EndsOf(TryBody(s, st.body), st)}, some)
<1> DEFINE rs == {run}  end == FlatSuiteEnds(rs, st.body)
           after == FlatSuiteEnds(end.done, st.orelse)
           some == EndsOfTry(end, st)
<1>1. /\ FitSuite(st.body, q) /\ FitSuite(st.orelse, q) /\ IsTry(st)
      /\ \A h \in Range(st.handlers) : FitHandler(h, q)
    BY FitTryIs DEF FitTry
<1>2. rs \in SUBSET QuietRuns(q) /\ {} \in SUBSET States
    OBVIOUS
<1> HIDE DEF rs
<1>3. end \in Ends(q)
    BY <1>1, <1>2, FlatSuiteCovered
<1>4. some = after.done \cup UNION {HandlerRuns(end.raised, h) : h \in Range(st.handlers)}
    BY DEF EndsOfTry, FlatSuiteRuns
<1> HIDE DEF end, some
<1>5. end.done \in SUBSET QuietRuns(q) /\ end.raised \in SUBSET QuietRuns(q)
    BY <1>3 DEF Ends
<1>6. after \in Ends(q)
    BY <1>1, <1>2, <1>5, FlatSuiteCovered
<1>7. \A h \in Range(st.handlers) : HandlerRuns(end.raised, h) \in SUBSET QuietRuns(q)
    BY <1>1, <1>2, <1>5, HandlerCovered
<1>8. some \in SUBSET QuietRuns(q)
    BY <1>4, <1>6, <1>7 DEF Ends
<1>9. ASSUME NEW s \in States, Follows(s, run), \A e \in EndsOf(TryBody(s, st.body), st) : ~e.failed
      PROVE  Covers(UNION {e.states : e \in EndsOf(TryBody(s, st.body), st)}, some)
    <2> DEFINE body == TryBody(s, st.body)  ends == EndsOf(body, st)  all == UNION {e.states : e \in ends}
               normal == body.normal.states  seen == body.exceptional.states
    <2>1. body \in Bodies
        BY <1>1, TryBodyTyped DEF IsTry
    <2>2. ~body.normal.failed /\ ~body.exceptional.failed
        <3>1. Error.failed
            BY DEF Error
        <3>2. QED  BY <1>9, <3>1 DEF EndsOf
    <2>3. Covers(normal, end.done) /\ Covers(seen, end.raised)
        BY <1>1, <1>9, <2>2, TryBodyCovered DEF end, rs
    <2>4. normal \in SUBSET States /\ seen \in SUBSET States
        BY <2>1 DEF Bodies, Results
    <2>5. ends = {FlatSuite(normal, st.orelse)} \cup {Handler(seen, h) : h \in Range(st.handlers)}
        BY <2>2 DEF EndsOf
    <2>6. \A e \in ends : ~e.failed /\ e.states \subseteq all
        BY <1>9
    <2> HIDE DEF normal, seen, ends, all
    <2>7. Covers(FlatSuite(normal, st.orelse).states, after.done)
        BY <1>1, <1>5, <2>3, <2>4, <2>5, <2>6, FlatSuiteCovered
    <2>8. \A h \in Range(st.handlers) : Covers(Handler(seen, h).states, HandlerRuns(end.raised, h))
        BY <1>1, <1>5, <2>3, <2>4, <2>5, <2>6, HandlerCovered
    <2>9. Covers(all, some)
        BY <1>4, <2>5, <2>6, <2>7, <2>8 DEF Covers
    <2>10. QED  BY <2>9 DEF all, ends
<1>10. QED  BY <1>8, <1>9 DEF some, end, rs

LEMMA TryCovered ==
    ASSUME Tracking, NEW q, NEW rs \in SUBSET QuietRuns(q), NEW st, FitTry(st, q), NEW ss \in SUBSET States
    PROVE  /\ TryRuns(rs, st) \in SUBSET QuietRuns(q)
           /\ Covers(ss, rs) /\ ~Try(ss, st).failed => Covers(Try(ss, st).states, TryRuns(rs, st))
<1> DEFINE EndOf(run) == EndsOfTry(FlatSuiteEnds({run}, st.body), st)
           ended == UNION {EndOf(run) : run \in rs}
           ends == UNION {EndsOf(TryBody(s, st.body), st) : s \in ss}
           joined == UNION {end.states : end \in ends}
<1>1. TryRuns(rs, st) = FlatSuiteEnds(ended, st.finalbody).done
    BY DEF TryRuns, FlatSuiteRuns
<1>2. \A run \in rs : EndOf(run) \in SUBSET QuietRuns(q)
    BY EndsOfTryCovered
<1>3. ended \in SUBSET QuietRuns(q)
    BY <1>2
<1>4. /\ joined \in SUBSET States
      /\ ~Try(ss, st).failed => (\A end \in ends : ~end.failed) /\ Try(ss, st) = FlatSuite(joined, st.finalbody)
    BY FitTryIs, TryIs
<1>5. ASSUME Covers(ss, rs), ~Try(ss, st).failed
      PROVE  Covers(joined, ended)
    <2>1. SUFFICES ASSUME NEW x \in ended PROVE \E t \in joined : Follows(t, x)
        BY DEF Covers
    <2>2. PICK run \in rs : x \in EndOf(run)
        OBVIOUS
    <2>3. PICK s \in ss : s \in States /\ Follows(s, run)
        BY <1>5 DEF Covers
    <2> DEFINE own == EndsOf(TryBody(s, st.body), st)  all == UNION {end.states : end \in own}
    <2>4. own \subseteq ends
        OBVIOUS
    <2>5. \A end \in own : ~end.failed
        <3> HIDE DEF own, ends
        <3>1. QED  BY <1>4, <1>5, <2>4
    <2>6. Covers(all, EndOf(run))
        BY <2>3, <2>5, EndsOfTryCovered
    <2>7. all \subseteq joined
        <3> HIDE DEF own, ends
        <3>1. QED  BY <2>4
    <2> HIDE DEF own, ends, all, EndOf, joined, ended
    <2>8. QED  BY <2>2, <2>6, <2>7 DEF Covers
<1> HIDE DEF ended, joined, ends
<1>6. FitSuite(st.finalbody, q)
    BY DEF FitTry
<1> DEFINE last == FlatSuiteEnds(ended, st.finalbody)
<1>7. /\ last \in Ends(q)
      /\ Covers(joined, ended) /\ ~FlatSuite(joined, st.finalbody).failed =>
            Covers(FlatSuite(joined, st.finalbody).states, last.done)
    BY <1>3, <1>4, <1>6, FlatSuiteCovered
<1> HIDE DEF last
<1>8. last.done \in SUBSET QuietRuns(q)
    BY <1>7 DEF Ends
<1>9. QED  BY <1>1, <1>4, <1>5, <1>7, <1>8 DEF last
-----------------------------------------------------------------------------
(* Statements, and the theorems. *)

\* What a program consists of, when the analysis follows it and the tracked names
\* are those its statements tie to __all__.
FitStatement(st, q) == IF st.op = "try" THEN FitTry(st, q) ELSE FitFlat(st, q)

LEMMA DirectFits ==
    ASSUME NEW st, Followed(st), Closed(st), NEW q, q => ~Mentions(st),
           NEW x \in Direct(st), IsFlat(x)
    PROVE  FitFlat(x, q)
<1>1. ASSUME NEW y \in Inner(st), IsSimple(y) PROVE Fit(y, q)
    <2>1. FollowedSimple(y)
        BY DEF Followed
    <2>2. Tying(y)
        BY DEF Closed, Tying
    <2>3. q => ~MentionsSimple(y)
        BY DEF Mentions
    <2>4. QED  BY <1>1, <2>1, <2>2, <2>3 DEF Fit
<1>2. CASE x.op = "if"
    <2>1. x \in Ifs(st)
        BY <1>2 DEF Ifs
    <2>2. x.clauses \in Seq(Range(x.clauses)) /\ \A clause \in Range(x.clauses) : IsClause(clause)
        BY <1>2 DEF IsFlat
    <2>3. ASSUME NEW clause \in Range(x.clauses) PROVE FitClause(clause, q)
        <3>1. \A y \in Range(clause.body) : y \in Inner(st)
            BY <2>1 DEF Inner
        <3>2. clause.body \in Seq(Range(clause.body)) /\ \A y \in Range(clause.body) : IsSimple(y)
            BY <2>2 DEF IsClause
        <3>3. FitSimples(clause.body, q)
            BY <1>1, <3>1, <3>2 DEF FitSimples
        <3>4. q => All \notin References(clause.value)
            BY <2>1 DEF Mentions
        <3>5. QED  BY <2>2, <3>3, <3>4 DEF FitClause
    <2>4. QED  BY <1>2, <2>2, <2>3 DEF FitFlat, FitClauses
<1>3. CASE x.op # "if"
    <2>1. x \in Inner(st)
        BY <1>3 DEF Inner, Ifs
    <2>2. QED  BY <1>1, <1>3, <2>1 DEF FitFlat, IsFlat
<1>4. QED  BY <1>2, <1>3

LEMMA StatementFits ==
    ASSUME NEW st, IsStatement(st), Followed(st), Closed(st), NEW q, q => ~Mentions(st)
    PROVE  FitStatement(st, q)
<1>1. CASE st.op = "try"
    <2>1. Direct(st) = Range(st.body) \cup Range(st.orelse) \cup Range(st.finalbody)
                          \cup UNION {Range(h.body) : h \in Range(st.handlers)}
        BY <1>1 DEF Direct
    <2>2. /\ IsSuite(st.body) /\ IsSuite(st.orelse) /\ IsSuite(st.finalbody)
          /\ st.handlers \in Seq(Range(st.handlers))
          /\ \A h \in Range(st.handlers) : IsHandler(h)
        BY <1>1 DEF IsStatement, IsHandler
    <2>3. ASSUME NEW suite, IsSuite(suite), Range(suite) \subseteq Direct(st)
          PROVE  FitSuite(suite, q)
        BY <2>3, DirectFits DEF IsSuite, FitSuite
    <2>4. FitSuite(st.body, q) /\ FitSuite(st.orelse, q) /\ FitSuite(st.finalbody, q)
        BY <2>1, <2>2, <2>3
    <2>5. ASSUME NEW h \in Range(st.handlers) PROVE FitHandler(h, q)
        <3>1. Range(h.body) \subseteq Direct(st) /\ IsHandler(h)
            BY <2>1, <2>2
        <3>2. FitSuite(h.body, q)
            BY <2>3, <3>1 DEF IsHandler
        <3>3. q => All \notin Range(h.names)
            BY <1>1 DEF Mentions
        <3>4. QED  BY <3>1, <3>2, <3>3 DEF FitHandler
    <2>6. QED  BY <1>1, <2>2, <2>4, <2>5 DEF FitStatement, FitTry
<1>2. CASE st.op # "try"
    <2>1. st \in Direct(st) /\ IsFlat(st)
        BY <1>2 DEF Direct, IsStatement
    <2>2. QED  BY <1>2, <2>1, DirectFits DEF FitStatement
<1>3. QED  BY <1>1, <1>2

LEMMA StatementCovered ==
    ASSUME Tracking, NEW q, NEW rs \in SUBSET QuietRuns(q), NEW st, FitStatement(st, q),
           NEW ss \in SUBSET States
    PROVE  /\ StatementRuns(rs, st) \in SUBSET QuietRuns(q)
           /\ Covers(ss, rs) /\ ~Statement(ss, st).failed =>
                 Covers(Statement(ss, st).states, StatementRuns(rs, st))
<1>1. CASE st.op = "try"
    BY <1>1, TryCovered DEF FitStatement, StatementRuns, Statement
<1>2. CASE st.op # "try"
    <2> DEFINE r == [done |-> rs, raised |-> {}]
    <2>1. r \in Ends(q) /\ r.done = rs
        BY DEF Ends
    <2>2. /\ FitFlat(st, q) /\ Statement(ss, st) = Flat(ss, st)
          /\ StatementRuns(rs, st) = FlatEnds(r, st).done
        BY <1>2 DEF FitStatement, StatementRuns, Statement
    <2> HIDE DEF r
    <2>3. FlatEnds(r, st) \in Ends(q)
        BY <2>1, <2>2, FlatEndsTyped
    <2>4. FlatEnds(r, st).done \in SUBSET QuietRuns(q)
        BY <2>3 DEF Ends
    <2>5. Covers(ss, rs) /\ ~Flat(ss, st).failed => Covers(Flat(ss, st).states, FlatEnds(r, st).done)
        BY <2>1, <2>2, FlatCovered
    <2>6. QED  BY <2>2, <2>4, <2>5
<1>3. QED  BY <1>1, <1>2

\* However a module runs, a state of the analysis follows it; and before the
\* program mentions __all__, no run has bound it.
Covering ==
    /\ Typed
    /\ runs \in SUBSET QuietRuns(~mentioned)
    /\ ~failed => Covers(states, runs)

\* Every statement of the menu is one the analysis follows.
AllFollowed == \A st \in Menu : Followed(st)

LEMMA StartIs ==
    ASSUME NEW names \in SUBSET Names
    PROVE  Start \in Runs /\ Apart(Start, {}, names) /\ \A n \in Names : Start.env[n] = Unbound
<1>1. Start \in Runs
    BY CellsAre DEF Start, Runs
<1>2. \A n \in Names : Start.env[n] = Unbound
    BY DEF Start
<1>3. QED  BY <1>1, <1>2 DEF Apart, Closes

LEMMA CoveringInit == Init => Covering
<1> SUFFICES ASSUME Init PROVE Covering
    OBVIOUS
<1>1. Typed /\ Tracking
    BY TypedInit DEF Typed
<1>2. All \in Names /\ tracked \in SUBSET Names
    BY <1>1 DEF Names, Tracking
<1>3. Silent(Start) /\ Start \in Runs
    BY <1>2, StartIs, AllNamed DEF Silent
<1>4. Follows(NewState, Start)
    <2>1. Start.env[All] = Unbound /\ Apart(Start, {}, tracked)
        BY <1>2, StartIs
    <2>2. DOMAIN NewState.known = {}
        BY DEF NewState, NoSequences
    <2>3. Tells(NewState, Start, {})
        BY <2>1, <2>2 DEF Tells, Knows
    <2>4. QED  BY <2>3 DEF Follows
<1>5. runs = {Start} /\ states = {NewState} /\ runs \in SUBSET QuietRuns(~mentioned)
    BY <1>3 DEF Init, QuietRuns
<1>6. QED  BY <1>1, <1>4, <1>5 DEF Covering, Covers

LEMMA CoveringNext == AllFollowed /\ Covering /\ [Next]_vars => Covering'
<1> SUFFICES ASSUME AllFollowed, Covering, [Next]_vars PROVE Covering'
    OBVIOUS
<1>1. Typed /\ Typed' /\ Tracking /\ states \in SUBSET States
    BY TypedNext DEF Covering, Typed
<1>2. CASE UNCHANGED vars
    <2>1. tracked' = tracked /\ states' = states /\ failed' = failed /\ runs' = runs /\ mentioned' = mentioned
        BY <1>2 DEF vars
    <2>2. \A s, run : Follows(s, run)' <=> Follows(s, run)
        BY <2>1 DEF Follows, Tells, Knows
    <2>3. ~failed' => \A run \in runs' : \E s \in states' : Follows(s, run)'
        BY <2>1, <2>2 DEF Covering, Covers
    <2>4. runs' \in SUBSET QuietRuns(~mentioned')
        BY <2>1 DEF Covering
    <2>5. QED  BY <1>1, <2>3, <2>4 DEF Covering, Covers
<1>3. CASE Next
    <2>1. PICK st \in Menu : Extend(st)
        BY <1>3 DEF Next
    <2> DEFINE q == ~mentioned'
    <2>2. /\ states' = Statement(states, st).states /\ failed' = Statement(states, st).failed
          /\ runs' = StatementRuns(runs, st) /\ tracked' = tracked /\ ~failed /\ Closed(st)
          /\ mentioned' = (mentioned \/ Mentions(st))
        BY <2>1 DEF Extend
    <2>3. IsStatement(st) /\ Followed(st) /\ (q => ~Mentions(st)) /\ (q => ~mentioned)
        BY <2>2, MenuAssumption DEF AllFollowed
    <2>4. runs \in SUBSET QuietRuns(q) /\ Covers(states, runs)
        BY <2>2, <2>3 DEF Covering, QuietRuns
    <2> HIDE DEF q
    <2>5. FitStatement(st, q)
        BY <2>2, <2>3, StatementFits
    <2>6. /\ StatementRuns(runs, st) \in SUBSET QuietRuns(q)
          /\ ~Statement(states, st).failed => Covers(Statement(states, st).states, StatementRuns(runs, st))
        BY <1>1, <2>4, <2>5, StatementCovered
    <2>7. runs' \in SUBSET QuietRuns(q)
        BY <2>2, <2>6
    <2>8. ~failed' => \A run \in runs' : \E s \in states' : Follows(s, run)
        BY <2>2, <2>6 DEF Covers
    <2>9. \A s, run : Follows(s, run)' <=> Follows(s, run)
        BY <2>2 DEF Follows, Tells, Knows
    <2>10. ~failed' => \A run \in runs' : \E s \in states' : Follows(s, run)'
        BY <2>8, <2>9
    <2>11. QED  BY <1>1, <2>7, <2>10 DEF Covering, Covers, q
<1>4. QED  BY <1>2, <1>3

\* A state that follows a run tells the truth about it.
LEMMA FollowsDescribes ==
    ASSUME NEW s, NEW run, Follows(s, run)
    PROVE  Describes(s, run)
BY DEF Follows, Tells, Knows, Describes

LEMMA CoveringDescribes == Covering => EveryRunDescribed
BY FollowsDescribes DEF Covering, Covers, EveryRunDescribed

LEMMA CoveringComplete == Covering => ExportsComplete
<1> SUFFICES ASSUME Covering PROVE ExportsComplete
    OBVIOUS
<1> DEFINE known == {s \in states : s.exports = "known"}
<1>1. states \in SUBSET States
    BY DEF Covering, Typed
<1>2. None # Unknown
    BY DEF None, Unknown
<1>3. CASE ~mentioned
    <2>1. Result = None
        BY <1>3 DEF Result
    <2>2. \A run \in runs : run.env[All] = Unbound
        BY <1>3 DEF Covering, QuietRuns, Silent
    <2>3. QED  BY <2>1, <2>2 DEF ExportsComplete, Resolved
<1>4. CASE mentioned /\ (failed \/ \E s \in states : s.dynamic)
    <2>1. Result = Unknown
        BY <1>4 DEF Result
    <2>2. QED  BY <1>2, <2>1 DEF ExportsComplete, Resolved
<1>5. CASE mentioned /\ ~failed /\ \A s \in states : ~s.dynamic
    <2>1. ASSUME NEW run \in runs
          PROVE  \E s \in states : /\ s.exports = "missing" => run.env[All] = Unbound
                                   /\ s.exports = "known" => run.env[All] # Unbound /\ Exported(run) = Range(s.known[All])
        <3>1. PICK s \in states : Follows(s, run)
            BY <1>5 DEF Covering, Covers
        <3>2. PICK out : Tells(s, run, out)
            BY <1>5, <3>1 DEF Follows
        <3>3. s.exports = "known" => All \in DOMAIN s.known
            BY <1>1, StateIs
        <3>4. QED  BY <3>2, <3>3 DEF Tells, Knows, Exported
    <2>2. CASE known = {}
        <3>1. Result = None
            BY <1>5, <2>2 DEF Result
        <3>2. \A s \in states : s.exports = "missing"
            BY <1>1, <1>5, <2>2, StateIs
        <3>3. QED  BY <2>1, <3>1, <3>2 DEF ExportsComplete, Resolved
    <2>3. CASE known # {} /\ known # states
        <3>1. Result = Unknown
            BY <1>5, <2>3 DEF Result
        <3>2. QED  BY <1>2, <3>1 DEF ExportsComplete, Resolved
    <2>4. CASE known # {} /\ known = states
        <3>1. Result = UNION {Range(s.known[All]) : s \in known}
            BY <1>5, <2>4 DEF Result
        <3>2. \A s \in states : s.exports = "known"
            BY <2>4
        <3>3. \A run \in runs : run.env[All] # Unbound /\ Exported(run) \subseteq Result
            BY <2>1, <2>4, <3>1, <3>2
        <3>4. ASSUME NEW s \in known PROVE Range(s.known[All]) \subseteq Strings
            <4>1. s \in States /\ All \in DOMAIN s.known
                BY <1>1, StateIs
            <4>2. s.known[All] \in Seq(Strings)
                BY <4>1, StateIs, KnownIs DEF Values
            <4>3. QED  BY <4>2, RangeIs
        <3>5. Result \subseteq Strings
            BY <3>1, <3>4
        <3>6. Result # None
            BY <3>5, StringsAssumption DEF None
        <3>7. QED  BY <3>3, <3>6 DEF ExportsComplete
    <2>5. QED  BY <2>2, <2>3, <2>4
<1>6. QED  BY <1>3, <1>4, <1>5

LEMMA CoveringAlways == AllFollowed /\ Spec => []Covering
<1>1. AllFollowed /\ Init => AllFollowed /\ Covering
    BY CoveringInit
<1>2. AllFollowed /\ Covering /\ [Next]_vars => AllFollowed' /\ Covering'
    BY CoveringNext DEF AllFollowed
<1>3. QED  BY <1>1, <1>2, PTL DEF Spec

\* In every state of every program of such statements, unless the analysis has
\* given up with an error, each run of the module is described by a state of the
\* analysis: evaluate_static_all_statement loses no path.
THEOREM RunsAreDescribed == AllFollowed /\ Spec => []EveryRunDescribed
BY CoveringAlways, CoveringDescribes, PTL

\* A list that static_all_names returns holds every name that a run of the module
\* exports, and of a module said to have no __all__ no run binds one.
THEOREM ExportsAreComplete == AllFollowed /\ Spec => []ExportsComplete
BY CoveringAlways, CoveringComplete, PTL
==============================================================================
