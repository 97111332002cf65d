SPECIFICATION Spec
CONSTANTS
    Threads = {"a", "b"}
    KeyIds = {"k1", "k2", "k3"}
    WorkspaceIds = {"w1", "w2", "w3"}
    OrgIds = {"o1", "o2", "o3"}
    Expiring = {"k2"}
    Rules <- MCRules
    AuthModes = {TRUE, FALSE}
    Users <- MCUsers
    LabelKeys <- MCLabelKeys
    Calls <- MCCalls
    Tokens <- MCTokens
    Keys0 <- MCKeys
    Prompts0 <- MCPrompts
    Logs0 <- MCLogs
    Feedback0 <- MCFeedback
    Workspaces0 <- MCWorkspaces
    Members0 <- MCMembers
INVARIANTS
    TenantIsolation
    KeysWithinCreator
    PromptsConsistent
    ModelsRespected
PROPERTY MembershipWithinRole
CHECK_DEADLOCK FALSE
