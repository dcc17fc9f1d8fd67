SPECIFICATION Spec
CONSTANTS
  Displays <- SomeDisplays
  Lower <- LowerCase
  NoTopic = NoTopic
  NoUrl = NoUrl
  NoSheet = NoSheet
  Nothing = Nothing
  Spreadsheets <- SomeSpreadsheets
  ItemLists <- SomeLists
  NoJsDomains = {1}
INVARIANTS
  TypeOK
  JsonMatchesRows
  ExportsAgree
  CrawlCoversContexts
CHECK_DEADLOCK FALSE
