---------------------------- MODULE BundleMutator ----------------------------
(***************************************************************************)
(* evolution/mutator.py: MutationPlan and BundleMutator.apply.             *)
(*                                                                         *)
(* A bundle is [scope, prompt, maps, configs]: maps are the named entries  *)
(* (skills, MCP servers), configs the nested dictionaries that are merged. *)
(* A dictionary is a function from the paths in it, the sequences of keys  *)
(* that lead to a value, to these values; the value of a path that leads   *)
(* to a dictionary is Dict, and the paths beyond it are its entries.       *)
(***************************************************************************)
EXTENDS Naturals, Sequences, SequencesExt

CONSTANTS
    MapNames,       \* components that are maps: "skills", "mcp_servers"
    ConfigNames,    \* components that are patched
    Keys,           \* of dictionaries
    Dict            \* what stands at a path that leads to a dictionary

Components == {"system_prompt"} \cup MapNames \cup ConfigNames

IsMap(f) == f = [k \in DOMAIN f |-> f[k]]

\* Only dictionaries have entries: what leads to a path leads to dictionaries.
IsDictionary(d) ==
    /\ IsMap(d)
    /\ DOMAIN d \subseteq Seq(Keys) \ {<<>>}
    /\ \A p \in DOMAIN d : \A i \in 1 .. Len(p) - 1 :
          LET q == SubSeq(p, 1, i) IN q \in DOMAIN d /\ d[q] = Dict

\* A bug: a dictionary of the patch replaces the one of the base.
ShallowMerge(base, patch) ==
    [p \in {p \in DOMAIN base : <<p[1]>> \notin DOMAIN patch} \cup DOMAIN patch |->
        IF p \in DOMAIN patch THEN patch[p] ELSE base[p]]

\* BundleMutator._deep_merge: a dictionary is merged into a dictionary; any
\* other value of the patch replaces what the base has at and beyond its path.
DeepMerge(base, patch) ==
    LET replaced == {p \in DOMAIN base : \E q \in DOMAIN patch :
                        IsStrictPrefix(q, p) /\ patch[q] # Dict}
    IN [p \in (DOMAIN base \ replaced) \cup DOMAIN patch |->
           IF p \in DOMAIN patch THEN patch[p] ELSE base[p]]

\* A bug: an entry that is only removed is no change.
ChangedByUpserts(plan) ==
    {c \in Components :
        \/ c = "system_prompt" /\ plan.prompt # ""
        \/ c \in MapNames /\ DOMAIN plan.upsert[c] # {}
        \/ c \in ConfigNames /\ DOMAIN plan.patch[c] # {}}

\* MutationPlan.changed_components; prompt "" is no change of the prompt.
Changed(plan) ==
    {c \in Components :
        \/ c = "system_prompt" /\ plan.prompt # ""
        \/ c \in MapNames /\ (DOMAIN plan.upsert[c] # {} \/ plan.remove[c] # {})
        \/ c \in ConfigNames /\ DOMAIN plan.patch[c] # {}}

\* BundleMutator._allowed_components
Allowed(scope) ==
    CASE scope = "hint_only"         -> {}
      [] scope = "prompt_only"       -> {"system_prompt"}
      [] scope = "prompt_and_skills" -> {"system_prompt", "skills"}
      [] scope = "full_agent_bundle" -> Components

\* pop, then update: an entry that is removed and upserted stays.
Edited(map, remove, upsert) ==
    [k \in (DOMAIN map \ remove) \cup DOMAIN upsert |->
        IF k \in DOMAIN upsert THEN upsert[k] ELSE map[k]]

Patched(parent, plan) ==
    [scope   |-> parent.scope,
     prompt  |-> IF plan.prompt = "" THEN parent.prompt ELSE plan.prompt,
     maps    |-> [c \in MapNames |->
                    Edited(parent.maps[c], plan.remove[c], plan.upsert[c])],
     configs |-> [c \in ConfigNames |-> DeepMerge(parent.configs[c], plan.patch[c])]]

\* BundleMutator.apply, and require_change of the plan: the candidate, or the
\* parent itself where the code raises.
Accepted(parent, plan) ==
    /\ Changed(plan) # {}
    /\ Changed(plan) \subseteq Allowed(parent.scope)
    /\ Patched(parent, plan) # parent

Mutate(parent, plan) == IF Accepted(parent, plan) THEN Patched(parent, plan) ELSE parent
=============================================================================
