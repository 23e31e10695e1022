------------------------------ MODULE MCLeader ------------------------------
\* One schedule over two sources, two workers that may lead.
EXTENDS Leader
CONSTANTS a, b, w1, w2, daily
MCSelections == {{a, b}, {b}}
MCSkews == {-1, 0, 1}
=============================================================================
