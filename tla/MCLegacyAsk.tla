---------------------------- MODULE MCLegacyAsk ----------------------------
(***************************************************************************)
(* A small instance of LegacyAsk: two repositories, with a function that   *)
(* reads data, on the main branch and unchanged on a feature branch, a     *)
(* schema with its units on the feature branch alone, and a file with a    *)
(* name that contracts about changing data forbid.                         *)
(***************************************************************************)
EXTENDS LegacyAsk

Slice(r, f, b, latest, type, units, named) ==
    [repo |-> r, file |-> f, branch |-> b, latest |-> latest, type |-> type,
     units |-> units, named |-> named]

Reader == Slice("r1", "reader.go", "main", TRUE, "read_path", FALSE, "plain")
Schema == Slice("r2", "schema.sql", "dev", FALSE, "migration_sql", TRUE, "plain")
ReaderDev == Slice("r1", "reader.go", "dev", FALSE, "read_path", FALSE, "plain")
Barred == Slice("r2", "execute_sql.go", "main", TRUE, "read_path", FALSE, "execute_sql")

McSlices == {Reader, ReaderDev, Schema, Barred}
McRepos == {"r1", "r2"}

Reply(intent, explicit, flow, follow, previous) ==
    [intent |-> intent, explicit |-> explicit, flow |-> flow, follow |-> follow,
     previous |-> previous]

McReplies ==
    {Reply("document_qa", "none", FALSE, "yes", "yes"),
     Reply("none", "no", FALSE, "none", "none"),
     Reply("business_value_change", "none", TRUE, "none", "none"),
     Reply("database_direct_update_for_test", "yes", FALSE, "no", "none")}

Scope(repos, mode, file, branches) ==
    [repos |-> repos, mode |-> mode, file |-> file, branches |-> branches]

McRequests == {Scope({}, "global", {}, TRUE), Scope({"r1"}, "selected", {}, FALSE),
               Scope({}, "", {}, TRUE)}
McSaved == {Scope({}, "global", {Schema}, TRUE)}
McTalks == {[available |-> TRUE, focus |-> {"r2"}, follow |-> FALSE]}
Said(status, refs) == [status |-> status, refs |-> refs]
All(said) == [k \in AssessedKeys |-> said]
McOpinions ==
    {All(Said("missing", {})), All(Said("covered", {Reader})), All(Said("covered", {Schema})),
     All(Said("partial", {Barred})), All(Said("conflict", {Reader})),
     [All(Said("covered", {Reader})) EXCEPT !["persistence_target"] =
        Said("covered", {Schema}), !["side_effects"] = Said("partial", {ReaderDev})],
     [k \in {"write_path", "side_effects"} |->
        IF k = "write_path" THEN Said("conflict", {Reader, Barred})
        ELSE Said("covered", {Reader, Barred})]}

McAnswers == {{}, {"secret"}, {"uncited"}, {"sql"}, {"select"}, {"word"}, {"latest", "steps"}}
McLocal == {{}, {"sql"}}
=============================================================================
