CONSTANTS
    Lesm = TRUE
    MaxLoop = 1
    MaxRetry = 2
    Calls0 = {"phy_reg", "i2c", "checksum", "fw_drv_ver"}
    Calls1 = {"sfp", "write_eeprom", "fw_drv_ver"}
    MaxStops = 1
SPECIFICATION Spec
INVARIANTS UsedAlone GssrExact NothingKept
CHECK_DEADLOCK FALSE
