------------------------ MODULE FeaturesUnification ------------------------
(***************************************************************************)
(* WorkspaceResolve::features_unification (src/scarb/src/ops/resolve.rs):  *)
(* which features of which packages a compilation unit is built with.  The *)
(* features that manifests and the command line name are the seeds; a      *)
(* queue then enables what enabled features depend on.                     *)
(*                                                                         *)
(* A flag is a feature of a package.  The queue starts in the order of a   *)
(* hash map, and holds no flag twice: it is a set here, served in any      *)
(* order.                                                                  *)
(***************************************************************************)
EXTENDS ResolverProtocol

CONSTANTS
    Flag,            \* features of packages
    NotADependency   \* a dependant of a package that is no dependency

ASSUME FlagAssumption == NotADependency \notin Flag

VARIABLES
    seeds,        \* the flags it starts from
    dependants,   \* of each flag: the flags it enables in turn
    enabled,      \* the flags enabled so far
    queue,        \* those whose dependants are not looked at yet
    unification   \* "none", "running", "done" or "failed"

unificationVars == <<seeds, dependants, enabled, queue, unification>>

UnificationTypeOK ==
    /\ seeds \subseteq Flag /\ enabled \subseteq Flag /\ queue \subseteq Flag
    /\ dependants \in [Flag -> SUBSET (Flag \cup {NotADependency})]
    /\ unification \in {"none", "running", "done", "failed"}

UnificationInit ==
    /\ seeds = {} /\ enabled = {} /\ queue = {}
    /\ dependants = [f \in Flag |-> {}]
    /\ unification = "none"

StartUnification(flags, enables) ==
    /\ unification # "running"
    /\ seeds' = flags /\ enabled' = flags /\ queue' = flags
    /\ dependants' = enables
    /\ unification' = "running"

(* Mutant of Visit: a feature enabled on the way is not looked at.         *)
Visit_NoPush(f) ==
    /\ unification = "running" /\ f \in queue
    /\ IF NotADependency \in dependants[f]
       THEN unification' = "failed" /\ UNCHANGED <<enabled, queue>>
       ELSE /\ enabled' = enabled \cup dependants[f]
            /\ queue' = queue \ {f}
            /\ UNCHANGED unification
    /\ UNCHANGED <<seeds, dependants>>

Visit(f) ==
    /\ unification = "running" /\ f \in queue
    /\ IF NotADependency \in dependants[f]
       THEN unification' = "failed" /\ UNCHANGED <<enabled, queue>>
       ELSE /\ enabled' = enabled \cup dependants[f]
            /\ queue' = (queue \ {f}) \cup (dependants[f] \ enabled)
            /\ UNCHANGED unification
    /\ UNCHANGED <<seeds, dependants>>

EndUnification ==
    /\ unification = "running" /\ queue = {}
    /\ unification' = "done"
    /\ UNCHANGED <<seeds, dependants, enabled, queue>>

UnificationStep ==
    \/ \E flags \in SUBSET Flag,
          enables \in [Flag -> SUBSET (Flag \cup {NotADependency})] :
              StartUnification(flags, enables)
    \/ \E f \in Flag : Visit(f)
    \/ EndUnification

-----------------------------------------------------------------------------
(* Sets of flags with the seeds and whatever their members depend on.      *)
Closed(flags) ==
    /\ seeds \subseteq flags
    /\ \A f \in flags : dependants[f] \subseteq flags \cup {NotADependency}

Broken(flags) == \E f \in flags : NotADependency \in dependants[f]

(* The order of the queue does not matter: a unification that ends well    *)
(* has enabled the least closed set of flags, and it fails exactly when    *)
(* that set names a package that is no dependency (features_unification).  *)
FeaturesUnified ==
    /\ unification = "done" => Closed(enabled) /\ ~Broken(enabled)
    /\ unification = "failed" =>
           \A flags \in SUBSET Flag : Closed(flags) => Broken(flags)
    /\ unification = "done" =>
           \A flags \in SUBSET Flag : Closed(flags) => enabled \subseteq flags
=============================================================================
