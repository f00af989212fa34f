SPECIFICATION Spec
CONSTANTS
    flowLive = flowLive
    backfill = backfill
    socialConfirmation = socialConfirmation
    observed = observed
    live = live
    file = file
    requests = requests
    inflow = inflow
    inflow2 = inflow2
    outflow = outflow
    confirmA = confirmA
    unmatchedA = unmatchedA
    confirmB = confirmB
    Flow = Flow
    SocialA = SocialA
    SocialB = SocialB
    Snapshots = {inflow, inflow2, outflow, confirmA, unmatchedA, confirmB}
    Candidates = {Flow, SocialA, SocialB}
    Workers = {flowLive, backfill, socialConfirmation}
    Sources = {observed, live, file, requests}
    KeptSources = {observed, live}
    SilentSources = {observed}
    SocialSources = {requests}
    CandidateOf <- MCCandidateOf
    Verdict <- MCVerdict
    SlotOf <- MCSlotOf
    WorkerOf <- MCWorkerOf
    Feed <- MCFeed
    Nothing = Nothing
    SeenLimit = 1
    MaxFaults = 1
INVARIANTS
    TypeOK
    AnnouncementsConserved
    SeenWasIngested
PROPERTIES
    SocialNeverDemotes
CHECK_DEADLOCK FALSE
