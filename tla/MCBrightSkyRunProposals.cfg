SPECIFICATION Spec
CONSTANTS
  Versions <- MCVersions
  Pages <- MCPages
  Marks <- MCMarks
  Replies <- MCMappable
  MaxHeals = 2
  MaxMoves = 1
  Numeric = {"127"}
  Templated = {"{{name}}", "{{field}}", "[x='{{']"}
  References = {"{{name}}", "{{field}}"}
  EnvNames = {"ENV:TOKEN"}
  Blank = {"", " "}
  Overlong = {}
  Regexes <- MCRegexes
  IdSelectors = {"q"}
INVARIANT ProposalsKeepTheAction
CHECK_DEADLOCK FALSE
