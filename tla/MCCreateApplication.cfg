SPECIFICATION WizardSpec
CONSTANTS
    ComposeText <- MCCompose
    EnvText <- MCEnv
    Images = {"redis"}
    Annotations <- MCAnnotations
    ParameterText <- MCParameters
    Loaded <- MCLoaded
    Unresolved <- MCUnresolved
    Properties <- MCLoaded
    EditableProperties <- MCEditable
    Mandatory <- MCMandatory
    Ids = {"red"}
    Budgets <- MCBudgets
INVARIANTS ImageOfTheFiles StoredAsChosen
PROPERTY CreateNeverReplaces
CHECK_DEADLOCK FALSE
