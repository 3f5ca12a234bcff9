SPECIFICATION Spec
CONSTANTS
  alice = alice
  bob = bob
  p1 = p1
  p2 = p2
  nobody = nobody
  Account = {alice, bob}
  Page = {p1, p2}
  NoAccount = nobody
  Amount <- MCAmount
  Entry <- MCEntry
  Dates = {1}
  Limit = 2
  MaxEntries = 3
INVARIANT TypeOK
INVARIANT RemovalMatchesUser
PROPERTY BooksSpec
PROPERTY CompleteUpToLimit
SYMMETRY Symmetric
