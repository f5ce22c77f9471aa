CONSTANTS
    wiimote = wiimote
    phone = phone
    Devices <- MCDevices
    Wii <- MCWii
    Chunks <- MCChunks
SPECIFICATION Spec
INVARIANT PeripheralsBecomeKeyboards
