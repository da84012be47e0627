SPECIFICATION Spec
CONSTANTS
  a = a
  b = b
  c = c
  decrypt = decrypt
  decompress = decompress
  Files = {a, b, c}
  NoFile = NoFile
  NoSettings = NoSettings
  Options = {decrypt, decompress}
  MaxRecent = 2
  FirstNative <- MCFirstNative
INVARIANTS
  TypeOK
  MenuOpensListed
  ListIsRecency
  ClearedIsForgotten
  OptionsAgree
  ExitSaves
