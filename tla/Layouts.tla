------------------------------ MODULE Layouts ------------------------------
(***************************************************************************)
(* The sheet layouts the parser knows (item-layout.registry.ts): how a     *)
(* header row is recognised, and what a data row under it turns into.      *)
(* Pure operators; Intake runs them over a file row by row.                *)
(*                                                                         *)
(* A row is a sequence of cell texts.  normalizeHeader is the function     *)
(* NormalHeader, given as a constant; the empty text stands for every      *)
(* value the code treats as false.  Formatting of dates and numbers is     *)
(* left out.                                                               *)
(***************************************************************************)
EXTENDS Naturals, Sequences, FiniteSets

CONSTANTS
  Texts,         \* texts a cell may hold
  Placeholders,  \* texts that only mark "nothing here", such as "-"
  NormalHeader   \* normalizeHeader: what a cell reads as in a header row

Blank == ""

ASSUME LayoutsAssumption ==
  /\ Blank \in Texts
  /\ Placeholders \subseteq Texts
  /\ NormalHeader \in [Texts -> Texts]
  /\ NormalHeader[Blank] = Blank

isPlaceholderValue(v) == v = Blank \/ v \in Placeholders

\* row[0], as a place to look for a value
FirstCell == "(first cell)"

(***************************************************************************)
(* The four detectors.  required: the headers it insists on; first: what   *)
(* it wants of the first header cell; code, names: where it looks for the  *)
(* item code and the item name, in this order; captured: the other columns *)
(* it copies.  code and names hold the first non-empty value.              *)
(***************************************************************************)
sapItemMaster ==
  [key |-> "sap_item_master_v1",
   required |-> {"sap item code", "catalogue no", "brand", "main group", "uom"},
   first |-> "any",
   code |-> <<"sap item code", "catalogue no">>,
   names |-> <<"sap item description", "stock item name for searching",
               "stock item name for migration">>,
   captured |-> {"sap item code", "catalogue no", "brand", "main group",
                 "sub group", "uom", "hsn description", "alias"}]

masterCode ==
  [key |-> "master_code_v1",
   required |-> {"catalogue no", "brand", "stock item name for migration",
                 "alias", "main group", "sub group", "uom"},
   first |-> "filled",
   code |-> <<"alias", "catalogue no", "sap item code">>,
   names |-> <<"stock item name for migration">>,
   captured |-> {"catalogue no", "brand", "alias", "main group", "sub group",
                 "uom", "hsn description", "sap item code"}]

cpSaniOthers ==
  [key |-> "cp_sani_others_v1",
   required |-> {"stock item name", "alias", "main group", "sub group", "uom",
                 "category"},
   first |-> "blank",
   code |-> <<FirstCell, "alias">>,
   names |-> <<"stock item name">>,
   captured |-> {"alias", "main group", "sub group", "uom", "brand",
                 "hsn description", "sap item code"}]

genericAlias ==
  [key |-> "generic_alias_v1",
   required |-> {"alias"},
   first |-> "any",
   code |-> <<"alias">>,
   names |-> <<"stock item name", "stock item name for migration",
               "sap item description", "stock item name for searching">>,
   captured |-> {"alias", "brand", "main group", "sub group", "uom",
                 "hsn description", "catalogue no", "sap item code"}]

\* The loosest comes last.
Registry == <<sapItemMaster, masterCode, cpSaniOthers, genericAlias>>

\* no row of the sheet has been recognised as its header
NoLayout == [key |-> "none"]

knownHeaderKeys(layout) ==
  layout.captured \cup {layout.names[i] : i \in 1..Len(layout.names)}

-----------------------------------------------------------------------------
\* buildColumnMap: the columns of a header row, each at its first occurrence
Columns(header) == {NormalHeader[header[i]] : i \in 1..Len(header)} \ {Blank}

ColumnAt(header, c) ==
  CHOOSE i \in 1..Len(header) :
    /\ NormalHeader[header[i]] = c
    /\ \A j \in 1..(i - 1) : NormalHeader[header[j]] # c

\* row[columns[c]]: nothing if the sheet lacks the column or the row ends early
Cell(header, r, c) ==
  LET i == IF c = FirstCell THEN 1 ELSE ColumnAt(header, c)
  IN  IF (c = FirstCell \/ c \in Columns(header)) /\ i <= Len(r)
      THEN r[i] ELSE Blank

FirstIsBlank(r) == Len(r) = 0 \/ NormalHeader[r[1]] = Blank

Detects(layout, r) ==
  /\ layout.required \subseteq Columns(r)
  /\ layout.first = "blank" => FirstIsBlank(r)
  /\ layout.first = "filled" => ~FirstIsBlank(r)

\* The first detector of the registry that accepts the row as a header.
LayoutOf(r) ==
  LET accepting == {k \in 1..Len(Registry) : Detects(Registry[k], r)}
  IN  IF accepting = {} THEN NoLayout
      ELSE Registry[CHOOSE k \in accepting : \A j \in accepting : k <= j]

-----------------------------------------------------------------------------
\* a || b || c
FirstFilled(header, r, places) ==
  LET filled == {k \in 1..Len(places) : Cell(header, r, places[k]) # Blank}
  IN  IF filled = {} THEN Blank
      ELSE Cell(header, r, places[CHOOSE k \in filled : \A j \in filled : k <= j])

\* parseRow and extractExtra: what a data row holds, and whether it is skipped.
\* A placeholder counts as a value where one is picked, and is refused after.
CodeOf(layout, header, r) == FirstFilled(header, r, layout.code)
NameOf(layout, header, r) == FirstFilled(header, r, layout.names)

MissingCode(layout, header, r) == isPlaceholderValue(CodeOf(layout, header, r))
MissingName(layout, header, r) == isPlaceholderValue(NameOf(layout, header, r))

Skips(layout, header, r) == MissingCode(layout, header, r) \/ MissingName(layout, header, r)

ParsedItem(layout, header, r) ==
  [layout |-> layout.key,
   code |-> CodeOf(layout, header, r),
   alias |-> Cell(header, r, "alias"),
   name |-> NameOf(layout, header, r),
   fields |-> {<<c, Cell(header, r, c)>> :
                 c \in {d \in Columns(header) \cap layout.captured :
                          Cell(header, r, d) # Blank}},
   extra |-> {<<header[ColumnAt(header, c)], Cell(header, r, c)>> :
                c \in {d \in Columns(header) \ knownHeaderKeys(layout) :
                         ~isPlaceholderValue(Cell(header, r, d))}}]

\* extraHeadersFromHeaderRow: the labels of the columns no field takes
ExtraLabels(layout, header) ==
  {header[ColumnAt(header, c)] : c \in Columns(header) \ knownHeaderKeys(layout)}
=============================================================================
