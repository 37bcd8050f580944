\* Two retries; the access point comes and goes without bound.
CONSTANTS
    WIFI_CONNECTION_RETRIES = 2
SPECIFICATION FairSpec
PROPERTY StaysOnline
