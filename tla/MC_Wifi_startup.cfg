\* Five retries (the default of the ESP-IDF station example this code follows);
\* the access point comes and goes without bound.
CONSTANTS
    WIFI_CONNECTION_RETRIES = 5
SPECIFICATION FairSpec
INVARIANT TypeOK
PROPERTY StartupDecides
