SPECIFICATION FairSpec
CONSTANTS
 openai=openai gpt4=gpt4 gpt35=gpt35
 v0=v0 v2=v2
 Variations = {v0,v2}
 Providers = {openai}
 ProviderOf <- MCProviderOf
 FirstModel <- MCFirstModel
 FallbackModel <- MCFallbackModel
 Approach <- MCApproach
 RetryCount = 2
 TokensPerMinute = 3
 Need = 2
 MinHistory = 2
 HistorySize = 3
INVARIANTS TypeOK Overshoot
PROPERTIES StarvedStays Starves TaskEnds
