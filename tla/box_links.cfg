SPECIFICATION Spec
CONSTANTS
  Clients = {c1, c2}
  Users = {"u1", "u2"}
  Admins = {}
  DomainIds = {"d1", "d2"}
  OwnerOf <- TheOwners
  Tokens = {t1, t2}
  None = None
  Faults = {"crash"}
SYMMETRY Symmetry
INVARIANTS TypeOK ResetLinksStayDead UserCouldUseDomain MailboxesReceive
CHECK_DEADLOCK FALSE
