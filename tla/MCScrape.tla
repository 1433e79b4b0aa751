------------------------------ MODULE MCScrape ------------------------------
(* Instance of Scrape for TLC: constants are model values in the .cfg.     *)
EXTENDS Scrape
=============================================================================
