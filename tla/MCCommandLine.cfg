SPECIFICATION CommandLineSpec
CONSTANTS
  Lines <- MCLines
  Files <- MCFiles
  Numeral <- MCNumeral
  Addresses <- MCAddresses
  Dialable = {"10.0.0.1:1"}
  Unspecified = {"0.0.0.0:1"}
  Blank = {" "}
INVARIANTS
  SettingsAsMeant
  OnlySafeSettingsRun
CHECK_DEADLOCK FALSE
