--------------------------- MODULE MCStdioCapture ---------------------------
(* Small instances of StdioCapture: two pages and two tools at most, and pages that *)
(* end the list, go on, repeat the cursor, break it, or hold entries that are       *)
(* malformed or cannot be encoded.                                                  *)
EXTENDS StdioCapture

CONSTANTS a, b, noCursor, badCursor

P(items, next) == [items |-> items, next |-> next]

MCPage == { P(<<"tool">>, noCursor), P(<<"tool">>, a), P(<<"tool", "malformed">>, b),
            P(<<>>, badCursor), P(<<"tool", "tool", "tool">>, noCursor),
            P(<<"tool", "surrogate">>, noCursor) }
MCHugePage == { P(<<"tool">>, a), P(<<"tool">>, noCursor) }
=============================================================================
