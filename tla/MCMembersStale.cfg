\* A save of a stale copy also writes columns the dialog does not offer.
CONSTANTS
  p1 = p1
  p2 = p2
  admin = admin
  ann = ann
  blank = blank
  Page = {p1, p2}
  Login = {admin, ann}
  NoLogin = blank
  Administrator = admin
  MaxUsers = 2
  MaxEntries = 1

SPECIFICATION Spec


PROPERTY EditKeepsTheRest
