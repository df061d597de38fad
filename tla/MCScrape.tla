------------------------------ MODULE MCScrape -------------------------------
(* TLC's instances of Scrape.                                              *)
EXTENDS Scrape, TLC

CONSTANTS v1, v2

\* Queries for the first claim only.
FirstClaim == {{v1}}

Symmetry == Permutations(Scrapers) \cup Permutations(Devices) \cup Permutations(Pods)
=============================================================================
