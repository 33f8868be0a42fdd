\* Every route at depths 0 to 2 and dynamic, with and without a context
\* path, an authorizer and a chart URL; URLs nobody meant.
SPECIFICATION Spec
CONSTANTS
    FileNames <- MCFileNames
    Longer <- MCLonger
    NamesInOrder <- MCNamesInOrder
    Prereleases <- MCPrereleases
    Accepts <- MCAccepts
    FileOf <- MCFileOf
    ObjectNames <- MCObjectNames
    Archives = {"a-1.0.tgz", "a-1.1.tgz"}
    WithValues = {"a-1.0.tgz"}
    MaxInt = 7
    Configs <- MCConfigs
    Tenants <- MCTenants
    Contents <- MCContents
    Meanings <- MCMeanings
    StrayUrls <- MCStrayUrls
INVARIANTS TypeOK AnsweredAsMeant OrderMattersAtTheRootOnly PagesAreSlices
           PackageOfTheVersion
