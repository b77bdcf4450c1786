CONSTANTS
    AuthHandlers = {h1, h2, h3}
    Emails = {e1}
    Tokens = {t1, t2, t3}
    NoEmail = NoEmail
    NoToken = NoToken
    AddressHandlers = {h1, h2}
    MaxAddresses = 3
    RoleHandlers = {h1, h2}
    Users = {u1, u2}
    RoleNames = {"admin", "customer"}
    NotARole = "owner"
    Admin = "admin"
    Customer = "customer"
SYMMETRY AccountSymmetry
SPECIFICATION Spec
INVARIANTS
    AccountsTypeOK
    OneTokenPerLogin
    LogoutEndsLogin
    SurvivesLogoutOnlyExchanged
    OneDefault
PROPERTIES
    RevokedForGood
    DefaultLostOnlyByRace
    LastAdminKept
    RolelessOnlyByRace
