CONSTANTS
    place = place
    base = base
    Ents = {place}
    Rels = {1, 2}
    Base = base
    Target <- MCTarget
    Selected <- MCSelected
    Callers = {a, b}
    Tables <- MCTables
    MaxStamps = 3
    MaxDeaths = 1
SYMMETRY Sym
SPECIFICATION RGSpec
CHECK_DEADLOCK FALSE
 
PROPERTIES FinalStands CompletionUndone
