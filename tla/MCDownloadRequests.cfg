SPECIFICATION Spec
CONSTANTS
  e1 = e1 e2 = e2 s1 = s1 s2 = s2
  p1 = p1 p2 = p2
  Sources = {"RADARR", "SONARR"}
  Film = film
  Episodes = {e1, e2}
  SeasonOf <- MCSeasonOf
  Sessions = {p1, p2}
  Duties <- MCDuties
  Requested = {s1, "series"}
  None = None
  MaxRequests = 2
  MaxCommands = 2
  MaxEntries = 1
  MaxMoves <- MCMoves
  MaxCalls <- MCCalls
  MaxEvents = 1
INVARIANTS TypeOK AvailableMeansImported DownloadingMeansGrabbed
PROPERTIES CancellationsHold
