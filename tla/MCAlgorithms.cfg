SPECIFICATION Spec
CONSTANTS
  MaxLength <- MCMaxLength
  Lengths = {0, 1, 4, 9}
  Boosts = {0, 1, 2}
  Sizes = {0, 1, 2, 3}
  Budgets = {1, 2, 3, 4}
  Leasts = {0, 1, 2}
  Marks = {"a", "A", " ", "n", ".", ":", "L", "T"}
  Limits = {1, 2, 3, 4}
  Layers <- MCLayers
  Texts <- MCTexts
  Trees <- MCTrees
INVARIANTS WindowsAreSound SegmentsPartitionAndScope FilterSeesWholeCollection SettingsAreIsolated SplittingIsSound
CHECK_DEADLOCK FALSE
