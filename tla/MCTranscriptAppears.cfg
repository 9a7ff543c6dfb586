CONSTANTS
    cron = cron e1 = e1
    Missing = Missing
    Enqueuers = {e1}
    Cron = cron
    StepRetries = 1
    TranscribeRetries = 1

SPECIFICATION FairSpec

PROPERTIES
    TranscriptAppears
