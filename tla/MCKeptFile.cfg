SPECIFICATION CopySpec
CONSTANTS
    Children = {"x", "y"}
    Trees <- EmptyDirDef
    Ways <- StreamDef
INVARIANTS
    WholeTree
CHECK_DEADLOCK FALSE
