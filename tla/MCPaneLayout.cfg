SPECIFICATION Spec
CONSTANTS
    None = None
    HexMin = 3
    FieldMin = 2
    SchemaMin = 2
    Splitter = 1
    Width <- MCWidth
    Delta <- MCDelta
INVARIANTS
    PanesFit
PROPERTIES
    RedrawIsStable
    SplittersMoveAlone
