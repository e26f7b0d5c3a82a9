CONSTANTS
    Names = {1, 2, 3, 4, 5, 6, 7, 8, 9, 10, 11, 12}
    Nodes = {1, 2, 3, 4, 5, 6, 7, 8, 9, 10, 11, 12}
    Members <- TallMembers
    Offsets = {1}
    Limits = {2}
SPECIFICATION Spec
INVARIANTS
    TypeOK
    Linked
    Balanced
    Counted
PROPERTIES
    ImplementsRanking
