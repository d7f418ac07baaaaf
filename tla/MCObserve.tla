----------------------------- MODULE MCObserve -----------------------------
(* Tasks belong to projects, projects to owners; a project has many tasks. *)
EXTENDS Observe, Queries

CONSTANTS owners, projects, tasks

MCAssociations ==
    {[from |-> tasks, to |-> projects, many |-> FALSE],
     [from |-> projects, to |-> owners, many |-> FALSE],
     [from |-> projects, to |-> tasks, many |-> TRUE]}

MCTableIds == owners :> {1} @@ projects :> {1} @@ tasks :> {1, 2}

R(id, val, ref) == [id |-> id, val |-> val, ref |-> ref, gone |-> FALSE]

MCStorages ==
    {owners :> (1 :> R(1, 1, Null)) @@ projects :> (1 :> R(1, 1, 1))
        @@ tasks :> (1 :> R(1, 0, 1) @@ 2 :> R(2, 1, 1))}

MCVals == owners :> {1} @@ projects :> {0, 1} @@ tasks :> {0, 1}
MCRefs == owners :> {Null} @@ projects :> {1} @@ tasks :> {Null, 1}

\* The schema of the other contexts: as ours, or without projects' ref.
MCUnknown == [t \in DOMAIN MCTableIds |-> IF t = projects THEN {"ref"} ELSE {}]
MCNoneUnknown == [t \in DOMAIN MCTableIds |-> {}]

MCObserved ==
    <<\* of the tasks whose project has val 1 and an owner, or which are not of
     \* the project numbered as they are, highest value first: the second one
     [table |-> tasks,
      clauses |-> <<On(projects, <<Where("val", "eq", Value(1))>>),
                    NestedJoin(projects, owners),
                    Or(<<On(owners, <<Where("val", "oneOf", Values(<<0, 1>>))>>),
                         Where("ref", "notEq", Column("id"))>>),
                    SortBy("val", "desc"), Take(1), Skip(1)>>],
     \* the projects with a task, or with none at all
     [table |-> projects,
      clauses |-> <<JoinTables(<<tasks>>),
                    Or(<<On(tasks, <<Where("val", "gte", Value(0))>>),
                         On(tasks, <<Where("id", "eq", Value(Null))>>)>>)>>]>>

MCDescribe(q) == Query(q.table, q.clauses)

MCAsks(s, q) == Answer(s, q.table, q.d)
MCFetches(s, q) == Selected(s, q.table, q.d)
MCCounts(s, q) == Counted(s, q.table, q.d)

\* Neither the builders nor the compiler refuse them.
ASSUME Compiles ==
    \A i \in DOMAIN Observed :
        /\ Buildable(Observed[i].clauses)
        /\ IsDescription(Described[i].d)
        /\ Compilable(Described[i].table, Described[i].d)
=============================================================================
