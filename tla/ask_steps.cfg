CONSTANTS
    Slices <- McSlices
    Repos <- McRepos
    EnabledRepos <- McRepos
    DefaultBranch = "main"
    Replies <- McReplies
    Requests <- McRequests
    Saved <- McSaved
    Talks <- McTalks
    Opinions <- McOpinions
    MaxPlannerRounds = 2
    MaxSearches = 3
    Providers = 2
    Answers <- McAnswers
    LocalAnswers <- McLocal
SPECIFICATION Spec
INVARIANTS
    StepsFollowPolicy
