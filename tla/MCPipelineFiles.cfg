SPECIFICATION Spec
CONSTANTS
  ChCap = 1
  Words <- MCWords
  Times = {2, 3}
  Rewrite = TRUE
  BufCap = 2
  Spelling <- MCSpelling
  Numeral <- MCNumeral
  UpperCase <- MCUpperCase
  Crc16 <- MCCrc16
  SlotCount = 4
  Configs <- TwoIncrements
  RunScript <- MCRunScript
  StatCap = 1
INVARIANT
  AllFilesAreSent
