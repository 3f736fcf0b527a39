--------------------------- MODULE MCInsertionSort ---------------------------
(* Instance of InsertionSort for TLC: up to four pairs, three keys of which  *)
(* two start with one letter, and two values to tell equal keys apart.       *)
EXTENDS InsertionSort

CONSTANTS v1, v2

MCValue == {v1, v2}
MCKey == {97 * CHAR_BASE, 97 * CHAR_BASE + 1, 98 * CHAR_BASE}

==============================================================================
