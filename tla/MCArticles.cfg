SPECIFICATION Spec

CONSTANTS
  Urls <- MCUrls
  Feeds <- MCFeeds
  Carries <- MCCarries
  Near <- MCNear
  Refused <- MCRefused
  Limit = 2
  Similar <- MCSimilar
  Title <- MCTitle
  MIN_SERIES_LENGTH = 2
  MaxVersion = 3

INVARIANTS TypeOK NothingHidden CampaignsLinked
PROPERTIES FullTextReached
