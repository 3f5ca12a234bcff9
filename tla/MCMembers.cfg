\* Two pages: logins stay unique, fresh copies do no harm, removals last.
CONSTANTS
  p1 = p1
  p2 = p2
  admin = admin
  ann = ann
  blank = blank
  Page = {p1, p2}
  Login = {admin, ann}
  NoLogin = blank
  Administrator = admin
  MaxUsers = 2
  MaxEntries = 1

SPECIFICATION Spec

INVARIANT TypeOK
INVARIANT LoginsUnique
PROPERTY GoneForGood
PROPERTY ExactWhileFresh

SYMMETRY Symmetric
