SPECIFICATION Spec
CONSTANTS
    Symbols <- MCSymbols
    Milestones <- MCMilestones
    Markets <- MCMarkets
    Lookback = 1
    LossRun = 1
    LongLossRun = 1
    Rest = 2
    KellyMinimum = 1
    MaxConcurrent = 2
    MaxCorrelated = 2
    MaxDirectional = 12
    Equities = {60000}
    States = {"normal"}
    Minutes = {900, 950}
    Jitters = {110}
    Results <- MCResults
    MaxLog = 1
INVARIANT PositionMargin
