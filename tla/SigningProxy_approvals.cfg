\* A plan that predicted fewer DotNS approvals than the deploy needs, with
\* re-sends, rejections and late answers.
SPECIFICATION Spec
CONSTANTS
    Operations <- RegisterDeploy
    Labels <- UpdateLabels
    MaxRegistryRetries = 3
    MaxCalls = 7
INVARIANTS StallIsNotProgress LabelTracksOperations PromptLostOnlyToLateAnswer
