-------------------------- MODULE MCBuildPipeline --------------------------
(***************************************************************************)
(* A module p, whose text may be right, in forms that differ in body, in    *)
(* surface and in what the summary hides, or have one of the Faults, and a *)
(* module c that imports it.                                               *)
(***************************************************************************)
EXTENDS BuildPipeline, FiniteSets, TLC

CONSTANTS Bodies, Hidden, Faults, Targets, Required, Transforms

P == <<"p">>
C == <<"c">>

Text(imports, surface, hidden, body, fault) ==
    [imports |-> imports, surface |-> surface, hidden |-> hidden, body |-> body, fault |-> fault]

MCModules == {P, C}

MCTextsOf == [module \in MCModules |->
    IF module = C
    THEN {Text({P}, 1, 1, 1, "none")}
    ELSE {Text({}, 1, hidden, body, "none") : hidden \in Hidden, body \in Bodies}
            \cup {Text({}, 2, 1, 1, "none")}
            \cup {Text({}, 1, 1, 1, fault) : fault \in Faults}]

MCConfigs == [target_python : Targets, require_known_public_types : Required,
              shape_transforms : Transforms]

Analysed == IF analysis_cache = None THEN None ELSE analysis_cache.incremental
Manifested == IF manifest = None THEN None ELSE manifest.incremental
States == {snapshot, Manifested, Analysed} \ {None}
TextsMet ==
    UNION {{project[module] : module \in DOMAIN project} :
                project \in {sources} \cup {state.source_hashes : state \in States}}
        \cup {outputs[module].of.text : module \in DOMAIN outputs}
TargetsMet ==
    {config.target_python} \cup {state.metadata : state \in States}
        \cup {outputs[module].under.target_python : module \in DOMAIN outputs}
TransformsMet ==
    {config.shape_transforms}
        \cup (IF manifest = None THEN {} ELSE {manifest.output_config.shape_transforms})
        \cup {outputs[module].under.shape_transforms : module \in DOMAIN outputs}

\* Bound: in one state, be it in a source, in a cache file or in an artifact, only
\* these variations meet.
Variation(text) ==
    CASE text.imports # {} -> "importer"
      [] text.fault # "none" -> text.fault
      [] text.surface # 1 -> "surface"
      [] text.hidden # 1 -> "hidden"
      [] OTHER -> "plain"
Variations ==
    {Variation(text) : text \in TextsMet}
        \cup (IF Cardinality(TargetsMet) > 1 THEN {"targets"} ELSE {})
        \cup (IF TRUE \in TransformsMet THEN {"transforms"} ELSE {})
Together ==
    {{"importer", "plain", "surface", "type error", "incomplete surface"},
     {"importer", "plain", "type error", "lowering"},
     {"importer", "plain", "shape transform"},
     {"importer", "shape transform", "transforms"},
     {"importer", "plain", "hidden", "syntax error"},
     {"importer", "plain", "targets"},
     {"importer", "plain", "transforms"}}
OneVariation == LET met == Variations IN \E variations \in Together : met \subseteq variations

\* Nothing but equality is asked of a target version.
TargetSymmetry == Permutations(Targets)
=============================================================================
