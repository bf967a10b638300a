SPECIFICATION Spec
CONSTANTS
    service = service
    frontend = frontend
    loop = loop
    h1 = h1
    http = http
    Packages = {service, frontend}
    Releases = {1, 2}
    VersionOf <- MCVersionOf
    HashOf <- MCHashOf
    Executables = {service}
    Order <- MCOrder
    SavesNew = {frontend}
    SavesAlways = {service}
    Services = {http}
    Loop = loop
    Posts = {h1}
    Secrets = {1, 2, 3, 4, 5, 6}
    Passwords = {1, 2, 3, 4, 5, 6}
    NoPassword = 0
    MaxFaults = 0
CHECK_DEADLOCK FALSE
INVARIANTS
    SettingsAreKept
