SPECIFICATION Spec
CONSTANTS
  e0 = e0  e1 = e1
  Workers = {w1, w2}
  Seasons = {0, 1, 2}
  Episodes = {e0, e1}
  SeasonOf <- MCSeasonOf
  Aired = {e0, e1}
  Versions = {1}
  None = None
  Own = Own
  All = All
  Mixes <- MCMixes
  MaxSeries = 2
  MaxEdits = 1
SYMMETRY MCSymmetry
INVARIANTS TypeOK RoutedTogether SpecialsAreLeftAlone
PROPERTIES DeletionsAreAsked
CHECK_DEADLOCK FALSE
