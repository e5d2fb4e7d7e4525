------------------------------ MODULE Settings ------------------------------
(***************************************************************************)
(* Layered configuration (crates/config and materialize in crates/server): *)
(* an override, if one is stored, hides the property the environment gives *)
(* a setting.  Every operation is a function of the override layer; module *)
(* AdminApi keeps that layer, its document in the store and the running    *)
(* configuration.  Texts are abstracted to the numbers they parse to.      *)
(***************************************************************************)
EXTENDS Integers

CONSTANTS
    Setting,    \* the keys of the inventory
    Bounds,     \* setting -> [min, max, opt]: its Kind, opt when it can be unset
    Property,   \* setting -> what the environment, or the default, says
    Pinned,     \* settings the environment pins
    None,       \* no override stored
    Unset       \* the explicit-none override

\* Kind::check and allows_explicit_none.
check(k, v) ==
    \/ v = Unset /\ Bounds[k].opt
    \/ v # Unset /\ v \in Bounds[k].min .. Bounds[k].max

\* Layered::effective, and materialize, which reads every key through it.
effective(ov, k) == IF ov[k] = None THEN Property[k] ELSE ov[k]
materialize(ov) == [k \in Setting |-> effective(ov, k)]

\* validate_cross_field, over the effective values: files outlive the
\* longest query that may still read them.
validate_cross_field(ov) ==
    effective(ov, "gc_grace_secs") > effective(ov, "query_timeout_secs")

\* Layered::set: what the change would make of the whole layer is validated,
\* and a change that is refused leaves the layer alone.
proposed(ov, k, v) == [ov EXCEPT ![k] = v]
set_accepts(ov, k, v) ==
    /\ k \notin Pinned
    /\ check(k, v)
    /\ validate_cross_field(proposed(ov, k, v))

\* Layered::revert: no validation of what the property makes of the layer.
revert_accepts(ov, k) == k \notin Pinned
reverted(ov, k) == [ov EXCEPT ![k] = None]
=============================================================================
