\* Two requests of any kind.
SPECIFICATION Spec
CONSTANTS
  Requests = {r1, r2}
  None = None
  Ids <- MCIds
  TypeOf <- MCTypeOf
  AgencyOf <- MCAgencyOf
  OwnerOf <- MCOwnerOf
  SubjectOf <- MCSubjectOf
  AssociationOf <- MCAssociationOf
  Scope <- MCScope
  Firsts <- MCFirsts
SYMMETRY Alike
INVARIANTS NothingDangles LinksStand WaitsNeverCircle DirectoryPagesMirror
PROPERTY EstablishedIdentityStays
CHECK_DEADLOCK FALSE
