\* Two signing identities, starts and crashes in the first three quarters.
SPECIFICATION Spec
CONSTANTS
    Argument = {alice, bob}
    None = None
    Window <- Quarter
    AppLifetime = 5
    InstLifetime <- Hour
    SelfLifetime = 20
    LastStart = 3
    MaxTime = 8
INVARIANTS
    TypeOK
    AppIsSigned
    InstanceIsValidUntilRenewal
    InstanceFollowsApp
