SPECIFICATION ASpec
CONSTANTS
  a = a
  b = b
  Tasks <- Two
  Agents <- Two
  Cancels = FALSE
  MaxHttp = 1
  MaxNameBytes = 5
  ShortStringBytes = 5
  Characters <- Alphabet
  Profiles <- OnlyOddVhost
  ExchangeNames <- NamesAtTheLimit
  Resources <- NoNames
  Accounts <- Known
INVARIANTS
  ListedAsDeclared
  NamesAreDecided
SYMMETRY Interchangeable
