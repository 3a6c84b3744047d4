SPECIFICATION ASpec
CONSTANTS
  a = a
  b = b
  Tasks <- Two
  Agents <- One
  Cancels = TRUE
  MaxHttp = 2
  MaxNameBytes = 5
  ShortStringBytes = 5
  Characters <- Alphabet
  Profiles <- ValidAndOther
  ExchangeNames <- NoNames
  Resources <- Some
  Accounts <- Known
INVARIANTS
  TypeOK
  RunsCloseTheirs
  DialsAsConfigured
PROPERTIES
  OnlyOverlapForgets
  RequestsBeginOpen
  RequestsEnd
