----------------------------- MODULE MCJobQueue -----------------------------
(***************************************************************************)
(* JobQueue with one source and up to three worker slots, the first with a *)
(* browser.                                                                *)
(***************************************************************************)
EXTENDS JobQueue, TLC
CONSTANTS w1, w2, w3, s1
MCSourceOf == [j \in Jobs |-> s1]
MCBackendsOf == [w \in Workers |-> IF w = w1 THEN {"camoufox"} ELSE {}]
\* Slots of equal capability are interchangeable.
PlainSlots == Permutations(Workers \ {w1})
=============================================================================
