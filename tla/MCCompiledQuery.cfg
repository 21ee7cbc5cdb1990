CONSTANTS
    Setting <- mcSetting
    CatalogOf <- mcCatalogOf
    QueryOf <- mcQueryOf
    UserOf <- mcUserOf
    Choices <- mcChoices
    Input <- mcInput
SPECIFICATION Spec
INVARIANT TypeOK
PROPERTIES CompiledIsAccepted AnswersStayFresh
CHECK_DEADLOCK FALSE
