---------------------------- MODULE MCServiceState ----------------------------
(* Instance of ServiceState: three calls of one kind of work at a time.    *)
EXTENDS ServiceState, TLC

Correction(task, pattern) == [kind |-> "correct", task |-> task, pattern |-> pattern]
Put(patch) == [kind |-> "put", patch |-> patch]
Edit(key, value, category) == [kind |-> "edit", key |-> key, value |-> value, category |-> category]
Quiet(hours) == [quiet |-> hours]

Corrections == {Correction(t, p) : t \in Tasks, p \in Patterns}
Updates == {Put(Quiet("after_6pm")), Put(Quiet("weekends")), Put([tone |-> "formal"]),
            [kind |-> "portal", hour |-> 19],
            Edit("quiet", Quiet("after_7pm"), "none"),
            Edit("profile", [tone |-> "formal"], "preference"),
            [kind |-> "delete", key |-> "quiet"]}
Uploads == [kind : {"upload", "upsert"}, document : Documents, replace : BOOLEAN]

Kinds == {Corrections, Updates, Uploads}
Symmetry == Permutations(Calls)
=============================================================================
