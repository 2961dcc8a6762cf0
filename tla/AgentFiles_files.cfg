CONSTANTS
    long = long
    short = short
    refused = refused
    kitchen = kitchen
    till = till
    gateway = gateway
    local1 = local1
    local2 = local2
    local3 = local3
    env = env
    blank = blank
    Configs = {long, short, refused}
    ValidConfigs = {long, short}
    PrinterName <- MCPrinterName
    Ids = {gateway, local1, local2, local3, env}
    GatewayId = gateway
    Generated <- MCGenerated
    EnvIds = {blank, env}
    Blank = blank
    Size <- MCSize
    Handlers = {1, 2}
    MaxSaves = 3
    MaxStarts = 3
    MaxDrops = 1
SPECIFICATION Spec
INVARIANTS
    SaveLossExplained
    IdentitySurvives
PROPERTIES
    AuthorizedIsKept
    IdentityConverges
