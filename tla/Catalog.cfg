\* One series and episode, two members of staff and one viewer at a time.
CONSTANTS
  e1 = e1
  r1 = r1
  Episodes = {e1}
  Rights = {r1}
  Staff = {p1, p2}
  Calls = {c1}
  Forms <- SomeForms
  Posts <- SomePosts
  Requests <- SomeRequests
  Valid <- Codes
  Normal <- Spelling
  Deployed <- Context
  StoreOf <- Stores
  English = "en"
  Captions = {"en", "de"}
  AdsMode = "test"
  CoinsOn = TRUE
  Horizon = 1
SPECIFICATION Spec
CONSTRAINT FewChanges
ACTION_CONSTRAINT PostsAlone
SYMMETRY Colleagues
INVARIANTS
  TypeOK
  TrailIsTrue
  AnswersWereAvailable
  RefusalsAreReal
  PlayedWasLicensed
PROPERTIES
  PublishedIsListed
