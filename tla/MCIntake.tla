------------------------------ MODULE MCIntake ------------------------------
(* A small instance of Intake for TLC. *)
EXTENDS Intake

sapHeader == <<"sap item code", "catalogue no", "brand", "main group", "uom",
               "Alias.", "sap item description", "grade">>
genericHeader == <<"alias", "stock item name", "", "", "", "size">>
saniHeader == <<"", "stock item name", "alias", "main group", "sub group", "uom",
                "category">>

SapRow(code, cat, alias, name) == <<code, cat, "", "", "", alias, name, "g">>

MCTexts == {"", "-", "C1", "C2", "a1", "A1", "a2~", "a2", "n", "m", "g",
            "sap item code", "catalogue no", "brand", "main group", "sub group",
            "uom", "Alias.", "alias", "sap item description", "stock item name",
            "category", "grade", "size"}

MCNormalHeader == [t \in MCTexts |-> IF t = "Alias." THEN "alias" ELSE t]
\* "a2~" ends in a tab, which the database does not trim.
MCLower == [t \in MCTexts |-> CASE t = "A1" -> "a1" [] t = "a2~" -> "a2" [] OTHER -> t]
MCSqlLower == [t \in MCTexts |-> IF t = "A1" THEN "a1" ELSE t]

MCRows == { sapHeader, genericHeader, saniHeader, <<"a1", "n">>,
            SapRow("C1", "", "a1", "n"), SapRow("C1", "", "a2", "n"),
            SapRow("", "C2", "A1", "n"), SapRow("-", "C2", "", "n") }

SapItem(code, alias, name) == ParsedItem(sapItemMaster, sapHeader, SapRow(code, "", alias, name))

\* One item whose alias the query does not find; one item with an alias and one
\* without; one alias on both.
MCCatalogs ==
  { {SapItem("C2", "a2~", "n")},
    {SapItem("C1", "a1", "n"), SapItem("C2", "", "m")},
    {SapItem("C1", "a1", "n"), SapItem("C2", "A1", "m")} }

MCEdits == { SapItem("C2", "a1", "m") }
=============================================================================
