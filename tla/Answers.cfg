\* Small questions to the catalog, mask and request; six inputs about two places and three products;
\* evidence collected and measured with one or two faults each.
SPECIFICATION AnswersSpec
CONSTANTS None = None p1 = p1 p2 = p2 amy = amy cds = cds tmy = tmy
          Unset = Unset Places = {p1, p2} Years = {1, 2} Products = {amy, cds, tmy}
          Texts <- Said Group <- SaidGroup MaxInputs = 6 MaxCalls = 1
          Questions <- AllQuestions Now = 3
          Batches <- AllBatches ArchiveLimit = 1 Hops = 2 Chunk = 1 MaxDeaths = 1 MaxLosses = 1
          Objects <- AllVersions Caps <- AllCaps Approved <- OwnersCap Block = 1 MaxRuns = 3 MaxChanges = 3
INVARIANTS SupportIsEarned MasksAreTrue PlanHolds EvidenceHolds
PROPERTY Consented
CHECK_DEADLOCK FALSE
