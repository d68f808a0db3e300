CONSTANTS
  Stamps = {s1, s2}
  Backups = {b}
  Keys <- MCKeys
  TireOf <- MCTireOf
  Base <- MCBase
  Datasets <- MCDatasets
  MaxUpsets = 2
  None = None
SYMMETRY MCStampSymmetry
SPECIFICATION Spec
INVARIANTS PublishedIsBound
