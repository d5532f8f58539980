SPECIFICATION StationsSpec
CONSTANTS
  alice = alice
  bob = bob
  passA = passA
  passB = passB
  north = north
  Pass = {passA, passB}
  Person = {alice, bob}
  Venue = {north}
  None = none
  HolderOf <- MCHolderOf
  VenueOf <- MCVenueOf
  MaxAdmissions = 2
  Applicant = {alice, bob}
  Nobody = nobody
  MaxVettings = 3
  Ticket = {passA, passB}
  NoTicket = none
  Matching = {passA}
  Mode = "CERTIFICATE"
  Tab = {t1, t2}
  Agency = {RDF, RNP}
  officer = RDF
  NoAgency = NoAgency
  MaxIdentities = 2
  MaxAsks = 2
  MaxStarts = 3
INVARIANTS OneGreenPerPass GreenIsThisCandidate BannerIsThisCandidates VerdictIsThisCandidates ReadyIsBacked IdentityIsShared CameraIsReleased
CHECK_DEADLOCK FALSE
