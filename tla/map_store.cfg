SPECIFICATION Spec
CONSTANTS
  Maps = {m1, m2}
  NoMap = NoMap
SYMMETRY Symmetry
INVARIANTS MapStoreTypeOK InstalledFilesAreWhole SavedMapIsKept
PROPERTY ImplementsMapCatalog
