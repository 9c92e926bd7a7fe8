\* Bodies of up to five runes; segments of four or three units of GSM-7, three or two of
\* UTF-16, so that pairs meet the end of a segment.  The analysis of a text ends.
SPECIFICATION Spec
CONSTANTS
    MaxRunes = 5
    Single <- MCSingle
    Multi <- MCMulti
INVARIANTS FewestSegments ConsoleFaithful
CHECK_DEADLOCK FALSE
