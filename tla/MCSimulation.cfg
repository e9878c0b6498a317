CONSTANT Option <- MCOption
INIT Init
NEXT Next
INVARIANT FiguresAreComputed
INVARIANT GapsAreKnown
INVARIANT ObjectsAreAlive
