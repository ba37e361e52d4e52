SPECIFICATION FairSpec
CONSTANTS
  MaxContinuous = 2
  HandlerResults = {TRUE, FALSE}
  MaxPosts = 5
INVARIANTS
  NoSleepWithWork
  PollNotStarved
PROPERTIES
  BothAreServed
  ChannelSpec
