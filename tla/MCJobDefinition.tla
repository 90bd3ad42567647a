--------------------------- MODULE MCJobDefinition ---------------------------
EXTENDS JobDefinition

MCRoles == FrameworkRoles \union {"Illegal_Name"}

(* What a user writes for a role of a framework, all else left out. *)
PlainRole(r, workers) ==
    [replicas |-> IF r = "worker" THEN workers ELSE Unset, restart |-> "",
     failed |-> "None", succeeded |-> "None", nodeDownAsFailed |-> FALSE,
     dependence |-> NoDependence, containers |-> "default",
     declared |-> IF r = "scheduler" THEN 2 ELSE 1, named |-> TRUE, legal |-> TRUE]

PlainJob(framework, roles, workers, option, ports) ==
    [framework |-> framework, roles |-> [r \in roles |-> PlainRole(r, workers)],
     policy |-> NoPolicy, option |-> option, ports |-> ports, complete |-> FALSE]

PlainJobs(framework, roles, options, ports) ==
    {PlainJob(framework, rs, n, o, k) :
        rs \in SUBSET roles, n \in {1, 3}, o \in options, k \in ports}

Plainest ==
    UNION {PlainJobs("bagua", {"master", "worker", "etcd"}, {"nil", "on"}, {1, 4}),
           PlainJobs("dask", {"scheduler", "launcher", "leadworker", "worker"}, {"nil"}, {0}),
           PlainJobs("mpi", {"launcher", "worker"}, {"nil", "bad"}, {0}),
           PlainJobs("pytorch", {"master", "worker"}, {"nil"}, {0}),
           PlainJobs("standalone", {"worker", "ps"}, {"nil"}, {0}),
           PlainJobs("tensorflow", {"chief", "ps", "worker"}, {"nil", "on"}, {0}),
           PlainJobs("custom", {"ps", "worker"}, {"nil"}, {0}),
           PlainJobs("demo", {"worker"}, {"nil"}, {0}),
           PlainJobs("unknown", {"worker"}, {"nil"}, {0})}

(* One thing is written differently. *)
Restarted(d, r) == {[d EXCEPT !.roles[r].restart = p] : p \in {"OnFailure", "ExitCode"}}
Masters(d, r) == IF r = "worker" THEN {} ELSE {[d EXCEPT !.roles[r].replicas = 2]}
Dependent(d, r) ==
    {[d EXCEPT !.roles[r].dependence = w] : w \in {WaitsFor({}), WaitsFor({"worker"}), HostFileOf({"worker"})}}
Contained(d, r) ==
    {[d EXCEPT !.roles[r].containers = c, !.roles[r].named = FALSE] : c \in {"none", "other"}}
Unnamed(d, r) ==
    {[d EXCEPT !.roles[r].named = FALSE, !.roles[r].declared = 0], [d EXCEPT !.roles[r].legal = FALSE]}
Decided(d) ==
    {[d EXCEPT !.policy = [given |-> TRUE, failed |-> {{r}}, succeeded |-> {{r}}]] : r \in {"worker", "etcd"}}
Illegal(d) ==
    [d EXCEPT !.roles = [r \in DOMAIN d.roles \union {"Illegal_Name"} |-> PlainRole(r, 1)]]

Varied(d) ==
    UNION {Restarted(d, r) \union Masters(d, r) \union Dependent(d, r) \union Contained(d, r)
             \union Unnamed(d, r) : r \in DOMAIN d.roles}
      \union Decided(d) \union {Illegal(d)}

(* One plain job of each framework and mode, with all its roles. *)
Full ==
    {PlainJob("bagua", {"master", "worker"}, 3, "nil", 4),
     PlainJob("bagua", {"worker", "etcd"}, 3, "on", 6),
     PlainJob("dask", {"scheduler", "launcher", "leadworker", "worker"}, 3, "nil", 0),
     PlainJob("mpi", {"launcher", "worker"}, 3, "nil", 0),
     PlainJob("pytorch", {"master", "worker"}, 3, "nil", 0),
     PlainJob("standalone", {"worker", "ps"}, 3, "nil", 0),
     PlainJob("tensorflow", {"chief", "ps", "worker"}, 3, "nil", 0),
     PlainJob("tensorflow", {"ps", "worker"}, 3, "on", 0),
     PlainJob("custom", {"ps", "worker"}, 3, "nil", 0)}

AllSubmissions == Plainest \union UNION {Varied(d) : d \in Full}

(* The full jobs are disturbed twice, the others once. *)
OnceOrTwice(d) == IF d \in Full THEN 2 ELSE 1

ThreeSizes == {0, 1, 3}

Undisturbed(d) == 0

(* Every role that Validate asks for may be missing. *)
MissingRoles ==
    PlainJobs("dask", {"scheduler", "launcher", "leadworker"}, {"nil"}, {0})
      \union PlainJobs("bagua", {"master", "worker", "etcd"}, {"nil", "on"}, {6})
=============================================================================
