CONSTANTS
  prompt = prompt  late = late  slow = slow
  Clients = {prompt, late, slow}
  PING_INTERVAL = 5
  Latency <- LatencyOfEach
SPECIFICATION FairSpec
INVARIANTS TypeOK DeadWithinTwo
PROPERTIES PromptStay LinksAsPromised
