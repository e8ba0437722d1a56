-------------------------------- MODULE Validation --------------------------------
(***************************************************************************)
(* The checks before a rollout (package validation).  A declared object is *)
(* a record of                                                             *)
(*                                                                         *)
(*   ref        its ObjectRef (kind, version, namespace and name)          *)
(*   set        the metadata fields that are not empty                     *)
(*   namespace  its namespace                                              *)
(*   mapping    what the REST mapper knows of its kind: the scope "root"   *)
(*              or "namespace", "nomatch", or "error" for any other error  *)
(*                                                                         *)
(* and a phase has a name and a sequence of objects.  An outcome is        *)
(* "valid"; "invalid", a validation error that goes into the result;       *)
(* "error", which the call returns; or "panic".                            *)
(***************************************************************************)
EXTENDS Naturals, Sequences

Required  == {"apiVersion", "kind"}
Forbidden == {"uid", "generation", "generateName", "finalizers",
              "ownerReferences", "resourceVersion"}

\* validateObjectMetadata
MetadataErrors(obj) == (Required \ obj.set) \cup (obj.set \cap Forbidden)

\* Any error of the mapper but NoMatch leaves no mapping to look at: panic.
validateNamespace(namespace, obj) ==
    CASE namespace = "" -> "valid"
      [] namespace # "" /\ obj.mapping \in {"nomatch", "root"} -> "invalid"
      [] namespace # "" /\ obj.mapping = "namespace" ->
            IF obj.namespace = namespace THEN "valid" ELSE "invalid"
      [] namespace # "" /\ obj.mapping = "error" -> "panic"

\* The reasons that speak of the object; "NoMatch" is the client's error for
\* an unknown kind, "TypedPatch" an error without a reason whose message says
\* the typed patch could not be created.
ValidationReasons ==
    {"Unauthorized", "Forbidden", "AlreadyExists", "Conflict", "Invalid", "BadRequest",
     "MethodNotAllowed", "RequestEntityTooLarge", "UnsupportedMediaType",
     "NotAcceptable", "NotFound", "NoMatch", "TypedPatch"}

\* validateDryRun: what the server answers to the patch and, if that finds
\* nothing to patch, to the creation
DryRunOutcome(patch, create) ==
    LET answer == IF patch = "NotFound" THEN create ELSE patch
    IN  CASE answer = "ok" -> "valid"
          [] answer \in ValidationReasons -> "invalid"
          [] OTHER -> "error"

\* ObjectValidator.Validate.  Errors in the metadata alone fail nothing here.
ValidateObject(allowNamespaceEscalation, options, namespace, obj, patch, create) ==
    IF /\ options.owner # "nil" /\ ~allowNamespaceEscalation
       /\ validateNamespace(namespace, obj) # "valid"
    THEN validateNamespace(namespace, obj)
    ELSE DryRunOutcome(patch, create)

--------------------------------------------------------------------------------

\* The places of the objects of the phases, and the object at one
Places(phases) ==
    UNION {{<<i, k>> : k \in DOMAIN phases[i].objects} : i \in DOMAIN phases}
RefAt(phases, place) == phases[place[1]].objects[place[2]].ref

\* Mutant: every phase is searched for itself.
DuplicatesPerPhase(phases) ==
    {RefAt(phases, x) : x \in {x \in Places(phases) : \E y \in Places(phases) :
        y # x /\ y[1] = x[1] /\ RefAt(phases, y) = RefAt(phases, x)}}

\* checkForObjectDuplicates: the objects found more than once
Duplicates(phases) ==
    {RefAt(phases, x) : x \in {x \in Places(phases) : \E y \in Places(phases) :
        y # x /\ RefAt(phases, y) = RefAt(phases, x)}}

\* PhaseValidator.Validate, for the outcomes of the phase's objects
ValidatePhase(phase, namesValid, outcomes) ==
    CASE "panic" \in outcomes -> "panic"
      [] "panic" \notin outcomes /\ "error" \in outcomes -> "error"
      [] outcomes \cap {"panic", "error"} = {} ->
            IF \/ phase.name \notin namesValid
               \/ "invalid" \in outcomes
               \/ Duplicates(<<phase>>) # {}
            THEN "invalid" ELSE "valid"

\* RevisionValidator.Validate.  A duplicate is reported for every phase it is
\* found in, so one is enough to fail the revision.
ValidateRevision(phases, namesValid) ==
    IF \/ Duplicates(phases) # {}
       \/ \E i \in DOMAIN phases :
             \/ phases[i].name \notin namesValid
             \/ \E k \in DOMAIN phases[i].objects : MetadataErrors(phases[i].objects[k]) # {}
    THEN "invalid" ELSE "valid"
================================================================================
