---------------------------- MODULE MCCatalogPage ----------------------------
(* A small instance of CatalogPage for TLC. *)
EXTENDS CatalogPage

CONSTANTS pump, valve, brand, item1, item2

MCTexts == {pump, valve}
MCFilters == {brand}
MCItems == {item1, item2}
=============================================================================
