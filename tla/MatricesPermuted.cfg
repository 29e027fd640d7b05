\* Tags only; the half planes leave 12, 9, 8 and 7 of 12 pixels of the border.
CONSTANTS
    Eps <- MCEps
    Args <- MCArgs
    Rows3 = {}
    Rows4 = {}
    MaxSigns = 0
    Cuts <- MCCuts
    Shades <- MCShades
SPECIFICATION Spec
INVARIANT ModelIsSolved
CHECK_DEADLOCK FALSE
