SPECIFICATION Spec
CONSTANTS
  Phrase <- MCPhrase
  Methods <- MCMethods
  Paths <- MCPaths
  Queries <- MCQueries
  Headers <- MCHeaders
  ResponseHeaders <- MCResponseHeaders
  Contents <- MCContents
  LengthNames <- MCLengthNames
  Malformed <- MCMalformed
  Ragged <- MCRagged
  Statuses <- MCStatuses
  MaxBuffer = 72
INVARIANTS RequestArrives FieldsArrive ResponseArrives ReadsWhatComes
