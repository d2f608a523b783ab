------------------------- MODULE MCSourceStripping -------------------------
(***************************************************************************)
(* Seven files: one with every kind of line the user writes, one with the  *)
(* comments earlier versions of notlin left, one with comments inside a    *)
(* declaration, one whose residue may be comments only, one with nothing   *)
(* between its declarations, and two with an indented declaration.         *)
(***************************************************************************)
EXTENDS SourceStripping

Documented ==
    <<Item("text", "package"), Blank, Item("doc", "of Order"), Item("ann", "Order"),
      Item("head", "Order"), Blank, Item("comment", "why"),
      Item("plain", "licence"), Blank, Item("head", "Total")>>

Migrated ==
    <<Item("legacy", "old"), Item("head", "Order"), Blank, Item("marker", "old"),
      Item("legacy", "old"), Item("ann", "Total"), Item("head", "Total")>>

\* Comments inside a declaration, notes at two columns above its body.
Filled ==
    <<Item("marker", "old"), Item("ann", "Order"), Item("head", "Order"), Item("note", "old"),
      Indented("note", "old", 4), Indented("body", "Order", 4), Item("body", "Order")>>

Remarked ==
    <<Item("comment", "file"), Blank, Item("marker", "old"), Item("ann", "Order"),
      Item("marker", "old"), Item("head", "Order"), Blank, Item("note", "old"),
      Item("plain", "licence"), Item("head", "Total")>>

\* Declarations in a row, the second with comments of both kinds above it.
Crowded ==
    <<Item("head", "Order"), Item("note", "old"), Item("marker", "old"), Blank,
      Blank, Item("ann", "Total"), Item("head", "Total")>>

\* Indented declarations, the first with an old marker above its annotation
\* and one below it.
Nested ==
    <<Item("text", "scope"), Indented("marker", "old", 4), Indented("ann", "Order", 4),
      Indented("marker", "old", 4), Indented("head", "Order", 4), Item("text", "end")>>

\* The same without the comment below, the one above at another column.
Annotated ==
    <<Item("text", "scope"), Item("marker", "old"), Indented("ann", "Order", 4),
      Indented("head", "Order", 4), Item("text", "end")>>

MCFiles == {Documented, Migrated, Filled, Remarked, Crowded, Nested, Annotated}
=============================================================================
