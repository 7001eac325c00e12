CONSTANTS
    Units = {"degC", "degF"}
    DefaultUnit = "degC"
    MaxWrites = 2
SPECIFICATION SettingsSpec
INVARIANT SynchronizedHasUnit
