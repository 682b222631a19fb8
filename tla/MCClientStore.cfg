CONSTANTS
  Key = {1, 2, 3}
  Initially = {{1, 3}, {1, 2, 3}}
  PageSize = 1
  MaxChanges = 1
  MaxQueries = 2
  MaxFailures = 1
  MaxInFlight = 2
SPECIFICATION Spec
INVARIANTS
  ListsAreComplete
PROPERTIES
  RefreshesDoNotSubscribe
  StoreConverges
