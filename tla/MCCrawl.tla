------------------------------ MODULE MCCrawl ------------------------------
(* Shops of up to three products, every scraper, three faults. *)
EXTENDS Crawl
=============================================================================
