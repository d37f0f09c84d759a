\* Pipelines of up to three stages, all token sequences of up to five, argument
\* arrays of three, a grep buffer of five bytes and a heap of eleven units.
CONSTANTS MaxStages = 3
          MAXINPUT = 256
          MAXARGS = 3
          LongSize = 256
          BufLen = 4
          BufSize = 5
          Units = 11
          MinUnits = 4
          Requests = {2, 3, 5}
          Gaps = {1}
          Meanings <- MCMeanings
          TokenLines <- MCTokenLines
          Trees <- MCTrees
          RunTrees <- MCRunTrees
          Calls <- MCCalls
          Numbers <- MCNumbers
          Searches <- MCSearches
SPECIFICATION CommandsSpec
INVARIANTS  AcceptedLinesRun ParsedAsWritten CommandEnds LibraryExact GrepExact HeapSound 
CHECK_DEADLOCK FALSE
