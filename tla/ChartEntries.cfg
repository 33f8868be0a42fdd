\* More versions than AddEntry looks at.
SPECIFICATION Spec
CONSTANTS
    v1 = v1
    v2 = v2
    v3 = v3
    Versions = {v1, v2, v3}
    Rank <- MCRank
    Stamps = {1, 2}
    None = none
    Window = 2
    MaxEntries = 4
INVARIANTS TypeOK NoDuplicates PublishedInOrder
PROPERTIES PromiseKept
