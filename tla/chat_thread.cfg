\* Two deliveries of messages to the bot, with repeated deliveries, failing
\* calls, a crash and an expiring token.
CONSTANTS
  Requests = {1, 2}
  Lifetime = 2
  Buffer = 1
  MaxTime = 1
  MaxTurns = 2
  MaxChars = 2
  Messages = {1, 2}
  Drafts <- PeopleWrite
  BotId = "ou_bot"
  BotName = "genie"
  RetryWindow = 0
  PurgeAge = 0
  MaxFaults = 1
SPECIFICATION FairSpec
\* The behaviours are bounded: when all is answered nothing is left to do.
CHECK_DEADLOCK FALSE
INVARIANTS
  TypeOK
  AnsweredOnce
  NoAnswerWithoutMessage
  FetchOnlyWhenNeeded
PROPERTIES
  RecentTurnsKept
  ClaimedIsAnswered
