SPECIFICATION Spec
CONSTANTS
  old = old
  Names = {old, new, other}
  Cor = {old, new}
  NoDoc = NoDoc
  NoName = NoName
  NoAsk = NoAsk
  NoAnswer = NoAnswer
  Requests = {b1}
  Entries <- MCEntries
  MaxReindex = 2
INVARIANTS
  RequestInv
  MovedDocumentsAreFound
  PurlsLeadBack
  MissingWasThere
PROPERTIES
  ImplementsPromise
