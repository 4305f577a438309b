\* The budget of a prompt, as rag.hpp states it.
SPECIFICATION Spec
CONSTANTS
    Threads = {t1, t2}
    Nobody = Nobody
    Documents <- MCDocuments
    Texts <- MCTexts
    Configs <- MCConfigs
    Requests <- MCRequests
    Decimal <- MCDecimal
    ScaffoldTokens = 3
    TemplateTokens = 1
    Dimensioned = {0}
INVARIANTS
    PromptWithinBudget
