----------------------------- MODULE MCRelease ------------------------------
(* Two beta builds of one Debian version, a later beta and a standalone.   *)
EXTENDS DebRelease

MCNames == {"beta1", "beta2", "beta3", "alone"}
MCKind == [n \in MCNames |-> IF n = "alone" THEN "standalone" ELSE "beta"]
MCVersion == [n \in MCNames |-> CASE n = "beta3" -> 2 [] n = "alone" -> 3 [] OTHER -> 1]

MCTrees == {{"code", "legacy", "ds_store", "link_123", "app_foreign"},
            {"code", "edited", "app_code"}, {"unsigned"}, {"legacy_tool", "launcher_123"},
            {"link_out", "fifo"}, {"code", "app_rights"}, {"code", "app_code", "app_foreign"}}
=============================================================================
