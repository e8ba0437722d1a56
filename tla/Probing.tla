--------------------------------- MODULE Probing ---------------------------------
(***************************************************************************)
(* The probes of package probing.  A probe looks at one object, here       *)
(*                                                                         *)
(*   generation           .metadata.generation                             *)
(*   observedGeneration   .status.observedGeneration, NotSet if missing    *)
(*   conditions           .status.conditions, <<>> if missing; an entry    *)
(*                        that is no condition has the type "malformed"    *)
(*   fields               the fields of the object by their path           *)
(*                                                                         *)
(* and answers "True", "False" or "Unknown".  A probe that wraps others    *)
(* takes their answers.                                                    *)
(***************************************************************************)
EXTENDS Integers, Sequences, FiniteSetsExt

NotSet == -1

And(answers) ==
    CASE "Unknown" \in answers -> "Unknown"
      [] "Unknown" \notin answers /\ "False" \in answers -> "False"
      [] OTHER -> "True"

\* Something written for another generation than the object's
Outdated(obj, observed) == observed # NotSet /\ observed # obj.generation

\* The first condition of the type decides, unless a malformed entry comes
\* before it.
ConditionProbe(obj, type, status) ==
    LET found == {i \in DOMAIN obj.conditions :
                      obj.conditions[i].type \in {type, "malformed"}}
        cond  == obj.conditions[Min(found)]
    IN  CASE found = {} -> "Unknown"
          [] found # {} /\ cond.type = "malformed" -> "Unknown"
          [] found # {} /\ cond.type = type ->
                IF Outdated(obj, cond.observedGeneration) THEN "Unknown"
                ELSE IF cond.status = status THEN "True" ELSE "False"

ObservedGenerationProbe(obj, answer) ==
    IF Outdated(obj, obj.observedGeneration) THEN "Unknown" ELSE answer

\* Objects a selector does not select pass.
GroupKindSelector(selected, answer) == IF selected THEN answer ELSE "True"
LabelSelector(selected, answer) == IF selected THEN answer ELSE "True"

FieldsEqualProbe(obj, fieldA, fieldB) ==
    IF /\ {fieldA, fieldB} \subseteq DOMAIN obj.fields
       /\ obj.fields[fieldA] = obj.fields[fieldB]
    THEN "True" ELSE "False"

FieldValueProbe(obj, path, value) ==
    IF path \in DOMAIN obj.fields /\ obj.fields[path] = value THEN "True" ELSE "False"

\* evaluation: what the expression evaluates to, "error" if it does not
CELProbe(evaluation) ==
    IF evaluation = "error" THEN "Unknown"
    ELSE IF evaluation = "true" THEN "True" ELSE "False"
================================================================================
