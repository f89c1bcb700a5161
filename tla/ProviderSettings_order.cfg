SPECIFICATION SettingsSpec
CONSTANTS
  Urls = {"u"}
  Models = {"m"}
  Keys = {"k", "l"}
  MaxMounts = 2
  MaxCommands = 2
INVARIANTS StoredSettingsReadBack
CHECK_DEADLOCK FALSE
