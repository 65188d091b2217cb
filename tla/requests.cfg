SPECIFICATION Spec
CHECK_DEADLOCK FALSE
INVARIANTS RoutesAndUrlsAgree ScopesApply DependenciesInOrder
    ReadAsDeclared AnsweredAsMeant ServedFromItsPlace
    McpServesAsDeclared CredentialsHold PoliciesHold HarnessIsFaithful
